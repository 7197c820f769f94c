---------------------------- MODULE ReaderProofs ----------------------------
(***************************************************************************)
(* Every unfinished list and quotation stays a root (RootsHeld), whatever  *)
(* the tokens, the number of forms and the collections.                    *)
(*                                                                         *)
(* RootsHeld is not inductive: a return removes the last entry of the      *)
(* list of roots, and that it is no entry of an activation below follows   *)
(* only because the entries lie in the order of the activations.           *)
(*                                                                         *)
(* No cell that the reader holds is swept (CellsKept).  The invariant is   *)
(* that a closed set of unswept cells holds all that is needed (Kept);     *)
(* with it, that the cell an activation works on is reached from its root  *)
(* (InFrame), that no two work on one cell (Apart) and that a field is set *)
(* once.  Reach is the least closed set: its rounds end because each but   *)
(* the last adds a cell.                                                   *)
(*                                                                         *)
(* Of the scan of a text: an integer has the value of its digits           *)
(* (IntegerValue), and texts that differ only in capitals, in blanks that  *)
(* matter nowhere, or by a blank at the end have the same tokens           *)
(* (TokensStable).                                                         *)
(***************************************************************************)
EXTENDS Reader, Scanner, SequenceTheorems, FiniteSetTheorems, WellFoundedInduction, TLAPS

AtTypes == {"car", "rest", "cdr", "close", "quote", "vector"}
FrameType == [at : AtTypes, val : Nat, tmp : Nat, slot : Nat]

RootsType ==
    /\ \E S : cell \in Seq(S)
    /\ cstack \in Seq(Nat)
    /\ frames \in Seq(FrameType)

Roots(k) == frames[k].at # "vector"

EntryHeld ==
    \A k \in DOMAIN frames : Roots(k) =>
        frames[k].slot \in 1..Len(cstack) /\ cstack[frames[k].slot] = frames[k].val

EntriesInOrder ==
    \A j, k \in DOMAIN frames :
        j < k /\ Roots(j) /\ Roots(k) => frames[j].slot < frames[k].slot

\* Only then may the list of roots be cleared.
NoneActiveBetweenForms == pc = "program" => frames = <<>>

RootsInv == RootsType /\ EntryHeld /\ EntriesInOrder /\ NoneActiveBetweenForms

-----------------------------------------------------------------------------
(* The four ways in which a step changes activations and roots.            *)

LEMMA CellAppend ==
    ASSUME NEW S, NEW s \in Seq(S), NEW e
    PROVE  \E T : Append(s, e) \in Seq(T)
<1>1. s \in Seq(S \cup {e})
    OBVIOUS
<1>2. Append(s, e) \in Seq(S \cup {e})
    BY <1>1, AppendProperties
<1> QED
    BY <1>2

LEMMA CellUpdate ==
    ASSUME NEW S, NEW s \in Seq(S), NEW c, NEW e
    PROVE  \E T : [s EXCEPT ![c] = e] \in Seq(T)
<1>1. s \in Seq(S \cup {e}) /\ DOMAIN s = 1..Len(s)
    BY LenProperties
<1>2. CASE c \in 1..Len(s)
    <2>1. [s EXCEPT ![c] = e] \in Seq(S \cup {e})
        BY <1>1, <1>2, ExceptSeq
    <2> QED
        BY <2>1
<1>3. CASE c \notin 1..Len(s)
    <2>1. [s EXCEPT ![c] = e] = s
        BY <1>1, <1>3, LenProperties
    <2> QED
        BY <2>1
<1> QED
    BY <1>2, <1>3

\* An activation returns, and nothing else happens to activations and roots.
Dropped == frames' = Below /\ UNCHANGED cstack
\* An activation returns and takes the last entry away.
PoppedBoth == frames' = Below /\ cstack' = Pop(cstack)
\* The activation on top goes on waiting for something else.
Advanced ==
    /\ UNCHANGED cstack
    /\ \E f \in FrameType : /\ frames' = Append(Below, f)
                            /\ f.slot = Top.slot /\ f.val = Top.val /\ f.at # "vector"

LEMMA PopProperties ==
    ASSUME NEW S, NEW s \in Seq(S), s # <<>>
    PROVE  /\ Pop(s) \in Seq(S)
           /\ Len(Pop(s)) = Len(s) - 1
           /\ \A k \in 1..Len(s) - 1 : Pop(s)[k] = s[k]
<1>1. Len(s) \in Nat \ {0}
    BY EmptySeq
<1>2. \A i \in 1..Len(s) - 1 : s[i] \in S
    BY <1>1, LenProperties
<1>3. /\ SubSeq(s, 1, Len(s) - 1) \in Seq(S)
      /\ Len(SubSeq(s, 1, Len(s) - 1)) = IF 1 <= Len(s) - 1 THEN Len(s) - 1 - 1 + 1 ELSE 0
      /\ \A i \in 1..Len(s) - 1 - 1 + 1 : SubSeq(s, 1, Len(s) - 1)[i] = s[1 + i - 1]
    BY <1>1, <1>2, SubSeqProperties
<1>4. (IF 1 <= Len(s) - 1 THEN Len(s) - 1 - 1 + 1 ELSE 0) = Len(s) - 1
    <2>1. \A n \in Nat \ {0} : (IF 1 <= n - 1 THEN n - 1 - 1 + 1 ELSE 0) = n - 1
        OBVIOUS
    <2> QED
        BY <1>1, <2>1
<1>5. \A i \in 1..Len(s) - 1 : i \in 1..Len(s) - 1 - 1 + 1 /\ 1 + i - 1 = i
    BY <1>1
<1> QED
    BY <1>3, <1>4, <1>5 DEF Pop

LEMMA DroppedKeeps ==
    ASSUME RootsInv, Activated, Dropped
    PROVE  frames' \in Seq(FrameType) /\ EntryHeld' /\ EntriesInOrder'
<1>1. /\ frames' \in Seq(FrameType) /\ Len(frames') = Len(frames) - 1
      /\ \A k \in 1..Len(frames) - 1 : frames'[k] = frames[k]
    BY PopProperties DEF RootsInv, RootsType, Activated, Dropped, Below
<1>2. DOMAIN frames' = 1..Len(frames) - 1 /\ DOMAIN frames = 1..Len(frames) /\ Len(frames) \in Nat
    BY <1>1, LenProperties DEF RootsInv, RootsType
<1>3. \A k \in DOMAIN frames' : k \in DOMAIN frames /\ frames'[k] = frames[k]
    BY <1>1, <1>2
<1> QED
    BY <1>1, <1>3 DEF RootsInv, EntryHeld, EntriesInOrder, Roots, Dropped

\* The entry on top belongs to the activation on top or to none.
LEMMA PoppedKeeps ==
    ASSUME RootsInv, Activated, Top.at # "vector", PoppedBoth
    PROVE  /\ frames' \in Seq(FrameType) /\ cstack' \in Seq(Nat)
           /\ EntryHeld' /\ EntriesInOrder'
<1>1. /\ frames' \in Seq(FrameType) /\ Len(frames') = Len(frames) - 1
      /\ \A k \in 1..Len(frames) - 1 : frames'[k] = frames[k]
    BY PopProperties DEF RootsInv, RootsType, Activated, PoppedBoth, Below
<1>2. /\ DOMAIN frames' = 1..Len(frames) - 1 /\ DOMAIN frames = 1..Len(frames)
      /\ Len(frames) \in Nat \ {0}
    BY <1>1, LenProperties, EmptySeq DEF RootsInv, RootsType, Activated
<1>3. Top.slot \in 1..Len(cstack)
    BY <1>2 DEF RootsInv, EntryHeld, Roots, Top
<1>4. /\ cstack' \in Seq(Nat) /\ Len(cstack') = Len(cstack) - 1
      /\ \A k \in 1..Len(cstack) - 1 : cstack'[k] = cstack[k]
    BY <1>3, PopProperties, EmptySeq DEF RootsInv, RootsType, PoppedBoth
<1>5. \A k \in DOMAIN frames' : k \in DOMAIN frames /\ k < Len(frames) /\ frames'[k] = frames[k]
    BY <1>1, <1>2
<1>6. ASSUME NEW k \in DOMAIN frames', Roots(k)'
      PROVE  /\ frames'[k].slot \in 1..Len(cstack')
             /\ cstack'[frames'[k].slot] = frames'[k].val
    <2>1. frames[k].slot < Top.slot /\ frames[k].slot \in 1..Len(cstack)
        BY <1>2, <1>5, <1>6 DEF RootsInv, EntriesInOrder, EntryHeld, Roots, Top
    <2>2. frames[k].slot \in 1..Len(cstack) - 1
        BY <2>1, <1>3, LenProperties DEF RootsInv, RootsType
    <2> QED
        BY <2>2, <1>4, <1>5, <1>6 DEF RootsInv, EntryHeld, Roots
<1>7. EntryHeld'
    BY <1>6 DEF EntryHeld, Roots
<1>8. EntriesInOrder'
    BY <1>5 DEF RootsInv, EntriesInOrder, Roots
<1> QED
    BY <1>1, <1>4, <1>7, <1>8

LEMMA AdvancedKeeps ==
    ASSUME RootsInv, Activated, Top.at # "vector", Advanced
    PROVE  frames' \in Seq(FrameType) /\ EntryHeld' /\ EntriesInOrder'
<1>1. /\ Below \in Seq(FrameType) /\ Len(Below) = Len(frames) - 1
      /\ \A k \in 1..Len(frames) - 1 : Below[k] = frames[k]
    BY PopProperties DEF RootsInv, RootsType, Activated, Below
<1>2. PICK f \in FrameType : /\ frames' = Append(Below, f)
                             /\ f.slot = Top.slot /\ f.val = Top.val /\ f.at # "vector"
    BY DEF Advanced
<1>3. /\ DOMAIN frames = 1..Len(frames) /\ Len(frames) \in Nat \ {0}
    BY LenProperties, EmptySeq DEF RootsInv, RootsType, Activated
<1>4. /\ frames' \in Seq(FrameType) /\ DOMAIN frames' = DOMAIN frames
      /\ \A k \in DOMAIN frames : k # Len(frames) => frames'[k] = frames[k]
      /\ frames'[Len(frames)] = f
    BY <1>1, <1>2, <1>3, AppendProperties, LenProperties
<1>5. \A k \in DOMAIN frames : /\ Roots(k)' => Roots(k)
                               /\ frames'[k].slot = frames[k].slot
                               /\ frames'[k].val = frames[k].val
    BY <1>2, <1>4 DEF Roots, Top
<1> QED
    BY <1>4, <1>5 DEF RootsInv, EntryHeld, EntriesInOrder, Advanced

LEMMA PushKeeps ==
    ASSUME RootsInv, NEW at \in AtTypes, NEW c \in Nat, NEW t \in Nat, Push(at, c, t)
    PROVE  /\ frames' \in Seq(FrameType) /\ cstack' \in Seq(Nat)
           /\ EntryHeld' /\ EntriesInOrder'
<1> DEFINE f == Frame(at, c, t)
<1>1. /\ Len(cstack) \in Nat /\ DOMAIN frames = 1..Len(frames) /\ Len(frames) \in Nat
    BY LenProperties DEF RootsInv, RootsType
<1>2. f \in FrameType /\ f.slot = Len(cstack) + 1 /\ f.val = c
    BY <1>1 DEF Frame, FrameType
<1>3. /\ frames' = Append(frames, f) /\ cstack' = Append(cstack, c)
    BY DEF Push
<1>4. /\ frames' \in Seq(FrameType) /\ DOMAIN frames' = 1..Len(frames) + 1
      /\ \A k \in 1..Len(frames) : frames'[k] = frames[k]
      /\ frames'[Len(frames) + 1] = f
    BY <1>1, <1>2, <1>3, AppendProperties, LenProperties DEF RootsInv, RootsType
<1>5. /\ cstack' \in Seq(Nat) /\ Len(cstack') = Len(cstack) + 1
      /\ \A k \in 1..Len(cstack) : cstack'[k] = cstack[k]
      /\ cstack'[Len(cstack) + 1] = c
    BY <1>3, AppendProperties, LenProperties DEF RootsInv, RootsType
<1> HIDE DEF f
<1>6. EntryHeld'
    BY <1>1, <1>2, <1>4, <1>5, SMTT(20) DEF RootsInv, EntryHeld, Roots
<1>7. EntriesInOrder'
    BY <1>1, <1>2, <1>4 DEF RootsInv, EntryHeld, EntriesInOrder, Roots
<1> QED
    BY <1>4, <1>5, <1>6, <1>7

LEMMA NewCellIsNumber == ASSUME RootsInv PROVE NewCell \in Nat
    BY LenProperties DEF RootsInv, RootsType, NewCell

\* No activations are left.
LEMMA EmptiedKeeps ==
    ASSUME RootsInv, frames' = <<>>, UNCHANGED <<cell, cstack>>
    PROVE  RootsInv'
<1>1. frames' \in Seq(FrameType) /\ DOMAIN frames' = {}
    BY EmptySeq
<1> QED
    BY <1>1 DEF RootsInv, RootsType, EntryHeld, EntriesInOrder, NoneActiveBetweenForms

LEMMA UnchangedKeeps ==
    ASSUME RootsInv, UNCHANGED <<frames, cstack, cell>>, pc' = "program" => frames = <<>>
    PROVE  RootsInv'
    BY DEF RootsInv, RootsType, EntryHeld, EntriesInOrder, NoneActiveBetweenForms, Roots

-----------------------------------------------------------------------------

LEMMA InitRoots == Init => RootsInv
<1> SUFFICES ASSUME Init PROVE RootsInv
    OBVIOUS
<1>1. cell \in Seq({}) /\ cstack \in Seq(Nat) /\ frames \in Seq(FrameType) /\ DOMAIN frames = {}
    BY EmptySeq DEF Init
<1> QED
    BY <1>1 DEF Init, RootsInv, RootsType, EntryHeld, EntriesInOrder, NoneActiveBetweenForms

\* A step that leaves the cells, or adds or changes one.
CellKeeps == cell' = cell \/ (\E e : cell' = Append(cell, e))
                 \/ \E c, e : cell' = [cell EXCEPT ![c] = e]

LEMMA CellsStayASequence ==
    ASSUME RootsInv, CellKeeps
    PROVE  \E T : cell' \in Seq(T)
<1>1. PICK S : cell \in Seq(S)
    BY DEF RootsInv, RootsType
<1>2. CASE cell' = cell
    BY <1>1, <1>2
<1>3. CASE \E e : cell' = Append(cell, e)
    BY <1>1, <1>3, CellAppend
<1>4. CASE \E c, e : cell' = [cell EXCEPT ![c] = e]
    BY <1>1, <1>4, CellUpdate
<1> QED
    BY <1>2, <1>3, <1>4 DEF CellKeeps

LEMMA SettersKeep == ASSUME NEW c, NEW v, SetCar(c, v) \/ SetCdr(c, v) PROVE CellKeeps
    BY DEF CellKeeps, SetCar, SetCdr

LEMMA TopType ==
    ASSUME RootsInv, Activated
    PROVE  /\ Top \in FrameType
           /\ \A a \in AtTypes : /\ [Top EXCEPT !.at = a] \in FrameType
                               /\ [Top EXCEPT !.at = a].slot = Top.slot
                               /\ [Top EXCEPT !.at = a].val = Top.val
                               /\ [Top EXCEPT !.at = a].at = a
<1>1. Len(frames) \in 1..Len(frames) /\ frames \in [1..Len(frames) -> FrameType]
    BY EmptySeq, LenProperties DEF RootsInv, RootsType, Activated
<1>2. Top \in FrameType
    BY <1>1 DEF Top
<1> QED
    BY <1>2 DEF FrameType

\* The next thing the activation on top waits for.
LEMMA AdvanceKeeps ==
    ASSUME RootsInv, Activated, Top.at # "vector", NEW a \in AtTypes \ {"vector"},
           frames' = Append(Below, [Top EXCEPT !.at = a]), UNCHANGED cstack
    PROVE  frames' \in Seq(FrameType) /\ EntryHeld' /\ EntriesInOrder'
<1>1. Advanced
    BY TopType DEF Advanced
<1> QED
    BY <1>1, AdvancedKeeps

LEMMA ProgramSteps ==
    ASSUME RootsInv, ParseProgram \/ ReturnProgram \/ ExecThrows
    PROVE  RootsInv'
<1>1. CASE ParseProgram
    <2>1. UNCHANGED <<frames, cstack, cell>> /\ pc' = "next"
        BY <1>1 DEF ParseProgram
    <2> QED
        BY <2>1, UnchangedKeeps
<1>2. CASE ReturnProgram
    <2>1. frames = <<>> /\ frames' = <<>> /\ UNCHANGED <<cell, cstack>>
        BY <1>2 DEF ReturnProgram, Throw, Activated
    <2> QED
        BY <2>1, EmptiedKeeps
<1>3. CASE ExecThrows
    <2>1. frames = <<>> /\ frames' = <<>> /\ cstack' = <<>> /\ cell' = cell
        BY <1>3 DEF ExecThrows, RootsInv, NoneActiveBetweenForms
    <2>2. frames' \in Seq(FrameType) /\ cstack' \in Seq(Nat) /\ DOMAIN frames' = {}
        BY <2>1, EmptySeq
    <2> QED
        BY <2>1, <2>2 DEF RootsInv, RootsType, EntryHeld, EntriesInOrder, NoneActiveBetweenForms
<1> QED
    BY <1>1, <1>2, <1>3

LEMMA TokenStep ==
    ASSUME RootsInv, GetToken
    PROVE  RootsInv'
<1>1. PICK t :
          /\ tokens' = Append(tokens, t)
          /\ CASE t.type = "error" -> Throw
               [] t = Eof /\ ~Activated ->
                      /\ pc' = "program" /\ status' = "eof"
                      /\ UNCHANGED <<frames, ret, cell, swept, cstack, collections>>
               [] Activated /\ Top.at = "rest" /\ t.type = "dot" ->
                      /\ frames' = Append(Below, [Top EXCEPT !.at = "cdr"])
                      /\ UNCHANGED <<pc, ret, cell, swept, cstack, collections, status>>
               [] Activated /\ Top.at = "close" ->
                      IF t.type = "close"
                      THEN /\ Return(Ref(Top.val)) /\ cstack' = Pop(cstack)
                           /\ UNCHANGED <<cell, swept, collections, status>>
                      ELSE Throw
               [] OTHER ->
                      /\ pc' = "tree"
                      /\ UNCHANGED <<frames, ret, cell, swept, cstack, collections, status>>
    BY DEF GetToken
<1>2. \/ Throw
      \/ ~Activated /\ UNCHANGED <<frames, cell, cstack>>
      \/ /\ Activated /\ Top.at = "rest" /\ pc' = pc
         /\ frames' = Append(Below, [Top EXCEPT !.at = "cdr"])
         /\ UNCHANGED <<cell, cstack>>
      \/ /\ Activated /\ Top.at = "close" /\ Return(Ref(Top.val))
         /\ cstack' = Pop(cstack) /\ UNCHANGED cell
      \/ pc' = "tree" /\ UNCHANGED <<frames, cell, cstack>>
    BY <1>1
<1>3. pc = "next"
    BY DEF GetToken
<1>4. CASE Throw
    BY <1>4, EmptiedKeeps DEF Throw
<1>5. CASE ~Activated /\ UNCHANGED <<frames, cell, cstack>>
    BY <1>5, UnchangedKeeps DEF Activated
<1>6. CASE /\ Activated /\ Top.at = "rest" /\ pc' = pc
           /\ frames' = Append(Below, [Top EXCEPT !.at = "cdr"])
           /\ UNCHANGED <<cell, cstack>>
    <2>1. frames' \in Seq(FrameType) /\ EntryHeld' /\ EntriesInOrder'
        BY <1>6, AdvanceKeeps DEF AtTypes
    <2> QED
        BY <1>3, <1>6, <2>1 DEF RootsInv, RootsType, NoneActiveBetweenForms
<1>7. CASE /\ Activated /\ Top.at = "close" /\ Return(Ref(Top.val))
           /\ cstack' = Pop(cstack) /\ UNCHANGED cell
    <2>1. PoppedBoth /\ pc' = "return"
        BY <1>7 DEF PoppedBoth, Return
    <2> QED
        BY <1>7, <2>1, PoppedKeeps DEF RootsInv, RootsType, NoneActiveBetweenForms
<1>8. CASE pc' = "tree" /\ UNCHANGED <<frames, cell, cstack>>
    BY <1>8, UnchangedKeeps
<1> QED
    BY <1>2, <1>4, <1>5, <1>6, <1>7, <1>8

LEMMA TreeSteps ==
    ASSUME RootsInv,
           \/ MakeConsList \/ MakeQuote \/ EnterVector \/ MakeUnboxed
           \/ MakeNamed \/ MakeClose \/ Unexpected
    PROVE  RootsInv'
<1>1. NewCell \in Nat /\ NewCell + 2 \in Nat
    BY NewCellIsNumber
<1>2. CASE MakeConsList
    <2>1. Push("car", NewCell, NewCell) /\ CellKeeps /\ pc' = "next"
        BY <1>2 DEF MakeConsList, CellKeeps
    <2>2. frames' \in Seq(FrameType) /\ cstack' \in Seq(Nat) /\ EntryHeld' /\ EntriesInOrder'
        BY <1>1, <2>1, PushKeeps DEF AtTypes
    <2> QED
        BY <2>1, <2>2, CellsStayASequence DEF RootsInv, RootsType, NoneActiveBetweenForms
<1>3. CASE MakeQuote
    <2> DEFINE new == <<Open(Ref(NewCell + 1), Ref(NewCell + 2)),
                        Named("FUNC", "QUOTE"), Open(NULL, Nil)>>
    <2>1. Push("quote", NewCell, NewCell + 2) /\ cell' = cell \o new /\ pc' = "next"
        BY <1>3 DEF MakeQuote
    <2>2. frames' \in Seq(FrameType) /\ cstack' \in Seq(Nat) /\ EntryHeld' /\ EntriesInOrder'
        BY <1>1, <2>1, PushKeeps DEF AtTypes
    <2>3. PICK S : cell \in Seq(S)
        BY DEF RootsInv, RootsType
    <2>4. new \in Seq({new[1], new[2], new[3]})
        OBVIOUS
    <2>5. cell \in Seq(S \cup {new[1], new[2], new[3]}) /\ new \in Seq(S \cup {new[1], new[2], new[3]})
        BY <2>3, <2>4
    <2>6. cell' \in Seq(S \cup {new[1], new[2], new[3]})
        BY <2>1, <2>5, ConcatProperties
    <2> QED
        BY <2>1, <2>2, <2>6 DEF RootsInv, RootsType, NoneActiveBetweenForms
<1>4. CASE EnterVector
    <2> DEFINE f == Frame("vector", 0, 0)
    <2>1. frames' = Append(frames, f) /\ UNCHANGED <<cell, cstack>> /\ pc' = "next"
        BY <1>4 DEF EnterVector
    <2>2. Len(cstack) \in Nat /\ DOMAIN frames = 1..Len(frames) /\ Len(frames) \in Nat
        BY LenProperties DEF RootsInv, RootsType
    <2>3. f \in FrameType /\ f.at = "vector"
        BY <2>2 DEF Frame, FrameType, AtTypes
    <2>4. /\ frames' \in Seq(FrameType) /\ DOMAIN frames' = 1..Len(frames) + 1
          /\ \A k \in 1..Len(frames) : frames'[k] = frames[k]
          /\ frames'[Len(frames) + 1] = f
        BY <2>1, <2>2, <2>3, AppendProperties, LenProperties DEF RootsInv, RootsType
    <2> HIDE DEF f
    <2>5. \A k \in DOMAIN frames' : Roots(k)' => k \in DOMAIN frames /\ frames'[k] = frames[k]
        BY <2>2, <2>3, <2>4 DEF Roots
    <2>6. EntryHeld' /\ EntriesInOrder'
        BY <2>1, <2>5 DEF RootsInv, EntryHeld, EntriesInOrder, Roots
    <2> QED
        BY <2>1, <2>4, <2>6 DEF RootsInv, RootsType, NoneActiveBetweenForms
<1>5. CASE MakeUnboxed \/ MakeClose
    BY <1>5, UnchangedKeeps DEF MakeUnboxed, MakeClose
<1>6. CASE MakeNamed
    <2>1. UNCHANGED <<frames, cstack>> /\ CellKeeps /\ pc' = "return"
        BY <1>6 DEF MakeNamed, CellKeeps
    <2>2. EntryHeld' /\ EntriesInOrder'
        BY <2>1 DEF RootsInv, EntryHeld, EntriesInOrder, Roots
    <2> QED
        BY <2>1, <2>2, CellsStayASequence DEF RootsInv, RootsType, NoneActiveBetweenForms
<1>7. CASE Unexpected
    BY <1>7, EmptiedKeeps DEF Unexpected, Throw
<1> QED
    BY <1>2, <1>3, <1>4, <1>5, <1>6, <1>7

LEMMA ReturnSteps ==
    ASSUME RootsInv,
           \/ ReturnCar \/ ReturnLast \/ ReturnElement \/ ReturnCdr
           \/ ReturnQuote \/ ReturnVector
    PROVE  RootsInv'
<1>1. CASE ReturnCar
    <2>1. Activated /\ Top.at = "car" /\ CellKeeps /\ UNCHANGED cstack
        BY <1>1, SettersKeep DEF ReturnCar, Returned
    <2>2. \/ frames' = Below /\ pc' = "return"
          \/ frames' = Append(Below, [Top EXCEPT !.at = "rest"]) /\ pc' = "next"
        BY <1>1 DEF ReturnCar, Return
    <2>3. frames' \in Seq(FrameType) /\ EntryHeld' /\ EntriesInOrder'
        BY <2>1, <2>2, DroppedKeeps, AdvanceKeeps DEF Dropped, AtTypes
    <2> QED
        BY <2>1, <2>2, <2>3, CellsStayASequence DEF RootsInv, RootsType, NoneActiveBetweenForms
<1>2. CASE ReturnLast \/ ReturnQuote
    <2>1. /\ Activated /\ Top.at # "vector" /\ CellKeeps
          /\ PoppedBoth /\ pc' = "return"
        BY <1>2, SettersKeep DEF ReturnLast, ReturnQuote, Returned, Return, PoppedBoth
    <2>2. /\ frames' \in Seq(FrameType) /\ cstack' \in Seq(Nat)
          /\ EntryHeld' /\ EntriesInOrder'
        BY <2>1, PoppedKeeps
    <2> QED
        BY <2>1, <2>2, CellsStayASequence DEF RootsInv, RootsType, NoneActiveBetweenForms
<1>3. CASE ReturnElement
    <2>1. Activated /\ Top.at = "rest" /\ UNCHANGED cstack
        BY <1>3 DEF ReturnElement, Returned
    <2>2. CASE pc' = "ended" /\ UNCHANGED <<cell, frames>>
        BY <2>1, <2>2, UnchangedKeeps
    <2>3. CASE /\ cell' = Append([cell EXCEPT ![Top.tmp].vals[2] = Ref(NewCell)], Open(ret, NULL))
               /\ frames' = Append(Below, [Top EXCEPT !.tmp = NewCell])
               /\ pc' = "next"
        <3> DEFINE f == [Top EXCEPT !.tmp = NewCell]
        <3>1. f \in FrameType /\ f.slot = Top.slot /\ f.val = Top.val /\ f.at = "rest"
            BY <2>1, TopType, NewCellIsNumber DEF FrameType
        <3>2. Advanced
            BY <2>1, <2>3, <3>1 DEF Advanced
        <3>3. frames' \in Seq(FrameType) /\ EntryHeld' /\ EntriesInOrder'
            BY <2>1, <3>2, AdvancedKeeps
        <3>4. PICK S : cell \in Seq(S)
            BY DEF RootsInv, RootsType
        <3>5. PICK T : [cell EXCEPT ![Top.tmp].vals[2] = Ref(NewCell)] \in Seq(T)
            BY <3>4, CellUpdate
        <3>6. \E U : cell' \in Seq(U)
            BY <2>3, <3>5, CellAppend
        <3> QED
            BY <2>1, <2>3, <3>3, <3>6 DEF RootsInv, RootsType, NoneActiveBetweenForms
    <2> QED
        BY <1>3, <2>2, <2>3 DEF ReturnElement
<1>4. CASE ReturnCdr
    <2>1. /\ Activated /\ Top.at = "cdr" /\ CellKeeps /\ UNCHANGED cstack
          /\ frames' = Append(Below, [Top EXCEPT !.at = "close"]) /\ pc' = "next"
        BY <1>4, SettersKeep DEF ReturnCdr, Returned
    <2>2. frames' \in Seq(FrameType) /\ EntryHeld' /\ EntriesInOrder'
        BY <2>1, AdvanceKeeps DEF AtTypes
    <2> QED
        BY <2>1, <2>2, CellsStayASequence DEF RootsInv, RootsType, NoneActiveBetweenForms
<1>5. CASE ReturnVector
    <2>1. Activated
        BY <1>5 DEF ReturnVector, Returned
    <2>2. \/ Throw
          \/ pc' = "ended" /\ UNCHANGED <<cell, frames, cstack>>
          \/ /\ \E e : cell' = Append(cell, e)
             /\ frames' = Below /\ pc' = "return" /\ UNCHANGED cstack
        BY <1>5 DEF ReturnVector, Return
    <2>3. CASE Throw
        BY <2>3, EmptiedKeeps DEF Throw
    <2>4. CASE pc' = "ended" /\ UNCHANGED <<cell, frames, cstack>>
        BY <2>4, UnchangedKeeps
    <2>5. CASE /\ \E e : cell' = Append(cell, e)
               /\ frames' = Below /\ pc' = "return" /\ UNCHANGED cstack
        <3>1. CellKeeps /\ Dropped
            BY <2>5 DEF CellKeeps, Dropped
        <3>2. frames' \in Seq(FrameType) /\ EntryHeld' /\ EntriesInOrder'
            BY <2>1, <3>1, DroppedKeeps
        <3> QED
            BY <2>5, <3>1, <3>2, CellsStayASequence DEF RootsInv, RootsType, NoneActiveBetweenForms
    <2> QED
        BY <2>2, <2>3, <2>4, <2>5
<1> QED
    BY <1>1, <1>2, <1>3, <1>4, <1>5

LEMMA NextRoots == RootsInv /\ [Next]_vars => RootsInv'
<1> SUFFICES ASSUME RootsInv, [Next]_vars PROVE RootsInv'
    OBVIOUS
<1>1. CASE UNCHANGED vars
    BY <1>1, UnchangedKeeps DEF vars, RootsInv, NoneActiveBetweenForms
<1>2. CASE Next
    BY <1>2, ProgramSteps, TokenStep, TreeSteps, ReturnSteps DEF Next
<1> QED
    BY <1>1, <1>2

LEMMA RootsInvImplies == RootsInv => RootsHeld
    BY LenProperties DEF RootsInv, RootsType, EntryHeld, Roots, RootsHeld

(* For every set of tokens and every bound: an activation that has not     *)
(* returned keeps its cell in cstack_cons_cell_list, although "()" leaves  *)
(* entries there (parser.c, line 278) and a pop takes whatever is last.    *)
THEOREM ActivationsStayRooted == Spec => []RootsHeld
<1>1. Init => RootsInv
    BY InitRoots
<1>2. RootsInv /\ [Next]_vars => RootsInv'
    BY NextRoots
<1>3. RootsInv => RootsHeld
    BY RootsInvImplies
<1> QED
    BY <1>1, <1>2, <1>3, PTL DEF Spec

-----------------------------------------------------------------------------
(* Recursion over the natural numbers.                                     *)

\* What holds for 0, and for n + 1 when for n, holds for all numbers.
LEMMA Induction ==
    ASSUME NEW S, 0 \in S, \A n \in Nat : n \in S => n + 1 \in S
    PROVE  Nat \subseteq S
<1>1. SUFFICES ASSUME Nat \ S # {} PROVE FALSE
    OBVIOUS
<1>2. PICK R : R = OpToRel(<, Nat)
    OBVIOUS
<1>3. PICK n \in Nat \ S : \A m \in Nat \ S : ~(<<m, n>> \in R)
    <2>1. IsWellFoundedOn(R, Nat)
        BY <1>2, NatLessThanWellFounded
    <2>2. Nat \ S \subseteq Nat /\ Nat \ S # {}
        BY <1>1
    <2> QED
        BY <2>1, <2>2, WFMin
<1>4. n # 0 /\ n - 1 \in Nat /\ n - 1 < n /\ (n - 1) + 1 = n
    BY <1>3
<1>5. <<n - 1, n>> \in R
    BY <1>2, <1>3, <1>4 DEF OpToRel
<1>6. n - 1 \in S
    BY <1>3, <1>4, <1>5
<1> QED
    BY <1>3, <1>4, <1>6

\* f goes from b on by g.
Iterates(f, n, b, g) == f = [k \in 0..n |-> IF k = 0 THEN b ELSE g[f[k - 1]]]

\* Such a function exists.
LEMMA Iteration ==
    ASSUME NEW N \in Nat, NEW V, NEW b \in V, NEW g \in [V -> V]
    PROVE  \E f \in [0..N -> V] : Iterates(f, N, b, g)
<1> DEFINE Good == {n \in Nat : \E f \in [0..n -> V] : Iterates(f, n, b, g)}
<1>1. 0 \in Good
    <2>1. PICK f : f = [k \in 0..0 |-> b]
        OBVIOUS
    <2>2. f \in [0..0 -> V] /\ Iterates(f, 0, b, g)
        BY <2>1 DEF Iterates
    <2> QED
        BY <2>2
<1>2. ASSUME NEW n \in Nat, n \in Good PROVE n + 1 \in Good
    <2>1. PICK f \in [0..n -> V] : Iterates(f, n, b, g)
        BY <1>2
    <2>2. PICK h : h = [k \in 0..n + 1 |-> IF k = n + 1 THEN g[f[n]] ELSE f[k]]
        OBVIOUS
    <2>3. h \in [0..n + 1 -> V]
        BY <2>1, <2>2
    <2>4. \A k \in 0..n : h[k] = f[k] /\ f[k] = IF k = 0 THEN b ELSE g[f[k - 1]]
        BY <2>1, <2>2 DEF Iterates
    <2>5. ASSUME NEW k \in 0..n + 1 PROVE h[k] = IF k = 0 THEN b ELSE g[h[k - 1]]
        <3>1. CASE k = n + 1
            BY <2>2, <2>4, <3>1
        <3>2. CASE k \in 0..n
            BY <2>4, <3>2
        <3> QED
            BY <3>1, <3>2
    <2>6. Iterates(h, n + 1, b, g)
        BY <2>2, <2>5 DEF Iterates
    <2> QED
        BY <2>3, <2>6
<1>3. Nat \subseteq Good
    <2> HIDE DEF Good
    <2> QED
        BY <1>1, <1>2, Induction
<1> QED
    BY <1>3

-----------------------------------------------------------------------------
(* Cells and what they refer to.                                           *)

RefsOf(x) == {v[2] : v \in {w \in {x.vals[k] : k \in DOMAIN x.vals} : IsRef(w)}}

LEMMA RefsAre ==
    ASSUME NEW x
    PROVE  \A d : d \in RefsOf(x) <=> \E k \in DOMAIN x.vals : IsRef(x.vals[k]) /\ d = x.vals[k][2]
    BY DEF RefsOf

IsCell(x) ==
    /\ x = [type |-> x.type, vals |-> x.vals, name |-> x.name]
    /\ x.vals = [k \in DOMAIN x.vals |-> x.vals[k]]
    /\ x.type = "OPEN" => DOMAIN x.vals = {1, 2}

\* A set of cells that contains what its members refer to.
Closed(cl, S) == S \subseteq DOMAIN cl /\ \A c \in S : RefsOf(cl[c]) \subseteq S

AreCells(cl) ==
    /\ \E S : cl \in Seq(S)
    /\ \A c \in DOMAIN cl : IsCell(cl[c]) /\ RefsOf(cl[c]) \subseteq DOMAIN cl

LEMMA CellDomain == ASSUME NEW cl, AreCells(cl) PROVE DOMAIN cl = 1..Len(cl) /\ Len(cl) \in Nat
    BY LenProperties DEF AreCells

-----------------------------------------------------------------------------
(* Reach gives the least closed set that contains the roots.               *)

Round(cl, s) == s \cup UNION {RefsOf(cl[c]) : c \in s}

ReachIn(cl, roots) ==
    LET closure[n \in 0..Len(cl)] ==
            IF n = 0 THEN roots
            ELSE LET reached == closure[n - 1]
                 IN  reached \cup UNION {RefsOf(cl[c]) : c \in reached}
    IN  closure[Len(cl)]

LEMMA ReachIs == \A roots : Reach(roots) = ReachIn(cell, roots)
    BY DEF Reach, ReachIn, RefsOf, Children

LEMMA ReachIsNext == \A roots : Reach(roots)' = ReachIn(cell', roots)
    BY DEF Reach, ReachIn, RefsOf, Children

\* f has the rounds.
Rounds(cl, roots, f) ==
    /\ f \in [0..Len(cl) -> SUBSET DOMAIN cl]
    /\ f[0] = roots /\ ReachIn(cl, roots) = f[Len(cl)]
    /\ \A k \in 1..Len(cl) : f[k] = Round(cl, f[k - 1])

LEMMA ReachRounds ==
    ASSUME NEW cl, AreCells(cl), NEW roots \in SUBSET DOMAIN cl
    PROVE  \E f : Rounds(cl, roots, f)
<1> DEFINE N == Len(cl)
           V == SUBSET DOMAIN cl
           Is(f) == f = [n \in 0..N |-> IF n = 0 THEN roots
                                        ELSE f[n - 1] \cup UNION {RefsOf(cl[c]) : c \in f[n - 1]}]
<1>1. N \in Nat
    BY CellDomain
<1>2. PICK g : g = [s \in V |-> Round(cl, s)]
    OBVIOUS
<1>3. \A s \in V : Round(cl, s) \in V
    BY DEF Round, AreCells
<1>4. g \in [V -> V]
    BY <1>2, <1>3
<1>5. PICK f \in [0..N -> V] : Iterates(f, N, roots, g)
    BY <1>1, <1>4, Iteration
<1>6. f = [n \in 0..N |-> IF n = 0 THEN roots ELSE g[f[n - 1]]]
    BY <1>5 DEF Iterates
<1>7. \A n \in 0..N : n # 0 => g[f[n - 1]] = Round(cl, f[n - 1])
    BY <1>1, <1>2, <1>5
<1>8. Is(f)
    BY <1>6, <1>7 DEF Round
<1>9. PICK h : h = CHOOSE rounds : Is(rounds)
    OBVIOUS
<1>10. Is(h)
    BY <1>8, <1>9
<1>11. ReachIn(cl, roots) = h[N]
    BY <1>9 DEF ReachIn
<1>12. /\ DOMAIN h = 0..N /\ h[0] = roots
       /\ \A k \in 1..N : h[k] = Round(cl, h[k - 1])
    <2>1. \A n \in 0..N : h[n] = IF n = 0 THEN roots
                                 ELSE h[n - 1] \cup UNION {RefsOf(cl[c]) : c \in h[n - 1]}
        BY <1>10
    <2> QED
        BY <1>1, <1>10, <2>1 DEF Round
<1>13. h = [n \in 0..N |-> h[n]]
    BY <1>10
<1>14. \A n \in 0..N : h[n] \in V
    <2> DEFINE Good == {n \in Nat : n <= N => h[n] \in V}
    <2>1. 0 \in Good
        BY <1>12
    <2>2. ASSUME NEW n \in Nat, n \in Good PROVE n + 1 \in Good
        <3>1. CASE n + 1 <= N
            <4>1. n + 1 \in 1..N /\ (n + 1) - 1 = n
                BY <1>1, <2>2, <3>1
            <4>2. h[n] \in V /\ h[n + 1] = Round(cl, h[n])
                BY <1>12, <2>2, <3>1, <4>1
            <4> QED
                BY <1>3, <4>2
        <3> QED
            BY <3>1
    <2>3. Nat \subseteq Good
        <3> HIDE DEF Good
        <3> QED
            BY <2>1, <2>2, Induction
    <2> QED
        BY <1>1, <2>3
<1>15. h \in [0..N -> V]
    BY <1>13, <1>14
<1> QED
    BY <1>11, <1>12, <1>15 DEF Rounds

\* A closed set that contains the roots contains what they reach.
LEMMA ReachLeast ==
    ASSUME NEW cl, AreCells(cl), NEW S, Closed(cl, S), NEW roots, roots \subseteq S
    PROVE  ReachIn(cl, roots) \subseteq S
<1>1. roots \in SUBSET DOMAIN cl
    BY DEF Closed
<1>a. PICK f : Rounds(cl, roots, f)
    BY <1>1, ReachRounds
<1>2. /\ f[0] = roots /\ ReachIn(cl, roots) = f[Len(cl)]
      /\ \A k \in 1..Len(cl) : f[k] = Round(cl, f[k - 1])
    BY <1>a DEF Rounds
<1>3. \A s : s \subseteq S => Round(cl, s) \subseteq S
    BY DEF Closed, Round
<1> DEFINE Good == {n \in Nat : n <= Len(cl) => f[n] \subseteq S}
<1>4. 0 \in Good
    BY <1>2
<1>5. ASSUME NEW n \in Nat, n \in Good PROVE n + 1 \in Good
    <2>1. CASE n + 1 <= Len(cl)
        <3>1. n + 1 \in 1..Len(cl) /\ (n + 1) - 1 = n
            BY <1>5, <2>1, CellDomain
        <3>2. f[n] \subseteq S /\ f[n + 1] = Round(cl, f[n])
            BY <1>2, <1>5, <2>1, <3>1
        <3> QED
            BY <1>3, <3>2
    <2> QED
        BY <2>1
<1>6. Nat \subseteq Good
    <2> HIDE DEF Good
    <2> QED
        BY <1>4, <1>5, Induction
<1> QED
    BY <1>2, <1>6, CellDomain

\* What is reached contains the roots, and after as many rounds as there are
\* cells it is closed: each round before adds a cell.
LEMMA ReachClosed ==
    ASSUME NEW cl, AreCells(cl), NEW roots \in SUBSET DOMAIN cl
    PROVE  Closed(cl, ReachIn(cl, roots)) /\ roots \subseteq ReachIn(cl, roots)
<1> DEFINE N == Len(cl)
<1>a. PICK f : Rounds(cl, roots, f)
    BY ReachRounds
<1>1. /\ f \in [0..N -> SUBSET DOMAIN cl]
      /\ f[0] = roots /\ ReachIn(cl, roots) = f[N]
      /\ \A k \in 1..N : f[k] = Round(cl, f[k - 1])
    BY <1>a DEF Rounds
<1>2. N \in Nat /\ DOMAIN cl = 1..N /\ IsFiniteSet(DOMAIN cl) /\ Cardinality(DOMAIN cl) = N
    <2>1. N \in Nat /\ DOMAIN cl = 1..N
        BY CellDomain
    <2>2. IsFiniteSet(1..N) /\ Cardinality(1..N) = IF 1 > N THEN 0 ELSE N - 1 + 1
        BY <2>1, FS_Interval
    <2> QED
        BY <2>1, <2>2
<1>3. \A s \in SUBSET DOMAIN cl : /\ s \subseteq Round(cl, s)
                                  /\ Round(cl, s) = s <=> Closed(cl, s)
    BY DEF Round, Closed
<1> DEFINE Good == {n \in Nat : n <= N => /\ roots \subseteq f[n]
                                          /\ Closed(cl, f[n]) \/ Cardinality(f[n]) >= n}
<1>4. \A s \in SUBSET DOMAIN cl : IsFiniteSet(s) /\ Cardinality(s) \in Nat /\ Cardinality(s) <= N
    BY <1>2, FS_Subset, FS_CardinalityType
<1>5. 0 \in Good
    BY <1>1, <1>2, <1>4
<1>6. ASSUME NEW n \in Nat, n \in Good PROVE n + 1 \in Good
    <2>1. SUFFICES ASSUME n + 1 <= N
                   PROVE  roots \subseteq f[n + 1] /\ (Closed(cl, f[n + 1]) \/ Cardinality(f[n + 1]) >= n + 1)
        OBVIOUS
    <2>2. n + 1 \in 1..N /\ (n + 1) - 1 = n /\ n \in 0..N /\ n + 1 \in 0..N
        BY <1>2, <1>6, <2>1
    <2>3. f[n] \in SUBSET DOMAIN cl /\ f[n + 1] = Round(cl, f[n]) /\ f[n + 1] \in SUBSET DOMAIN cl
        BY <1>1, <2>2
    <2>4. roots \subseteq f[n] /\ f[n] \subseteq f[n + 1]
        BY <1>3, <1>6, <2>2, <2>3
    <2>5. CASE Closed(cl, f[n])
        BY <1>3, <2>3, <2>4, <2>5
    <2>6. CASE ~Closed(cl, f[n])
        <3>1. Cardinality(f[n]) >= n
            BY <1>6, <2>2, <2>6
        <3>2. f[n] # f[n + 1]
            BY <1>3, <2>3, <2>6
        <3>3. Cardinality(f[n]) < Cardinality(f[n + 1])
            BY <1>4, <2>3, <2>4, <3>2, FS_Subset
        <3>4. Cardinality(f[n]) \in Nat /\ Cardinality(f[n + 1]) \in Nat
            BY <1>4, <2>3
        <3> QED
            BY <2>4, <3>1, <3>3, <3>4
    <2> QED
        BY <2>5, <2>6
<1>7. N \in Good
    <2>1. Nat \subseteq Good
        <3> HIDE DEF Good
        <3> QED
            BY <1>5, <1>6, Induction
    <2> QED
        BY <1>2, <2>1
<1>8. CASE Closed(cl, f[N])
    BY <1>1, <1>2, <1>7, <1>8
<1>9. CASE Cardinality(f[N]) >= N
    <2>1. f[N] \in SUBSET DOMAIN cl
        BY <1>1, <1>2
    <2>2. f[N] = DOMAIN cl
        BY <1>2, <1>4, <1>9, <2>1, FS_Subset
    <2>3. Closed(cl, DOMAIN cl)
        BY DEF Closed, AreCells
    <2> QED
        BY <1>1, <1>2, <1>7, <2>2, <2>3
<1> QED
    BY <1>2, <1>7, <1>8, <1>9

-----------------------------------------------------------------------------
(* The cells of a list are reached from it.                                *)

\* The values in v and in the cells of S.
ValuesOf(v, S) == {v} \cup UNION {{cell[c].vals[k] : k \in DOMAIN cell[c].vals} : c \in S}
OpenCells(S) == {c \in S : cell[c].type = "OPEN"}
Walks(v, S) == [conses : Seq(OpenCells(S)), end : ValuesOf(v, S)]
Onward(w) ==
    IF IsOpen(w.end) THEN [conses |-> Append(w.conses, w.end[2]), end |-> cell[w.end[2]].vals[2]]
    ELSE w

LEMMA OnwardWalks ==
    ASSUME AreCells(cell), NEW v, NEW S, Closed(cell, S), CellsOf(v) \subseteq S, NEW w \in Walks(v, S)
    PROVE  Onward(w) \in Walks(v, S)
<1>1. w.conses \in Seq(OpenCells(S)) /\ w.end \in ValuesOf(v, S)
    BY DEF Walks
<1>2. CASE IsOpen(w.end)
    <2>1. w.end[2] \in S
        <3>1. IsRef(w.end)
            BY <1>2 DEF IsOpen
        <3>2. CASE w.end = v
            BY <3>1, <3>2 DEF CellsOf
        <3>3. CASE \E c \in S : \E k \in DOMAIN cell[c].vals : w.end = cell[c].vals[k]
            <4>1. PICK c \in S : \E k \in DOMAIN cell[c].vals : w.end = cell[c].vals[k]
                BY <3>3
            <4>2. w.end[2] \in RefsOf(cell[c])
                BY <3>1, <4>1, RefsAre
            <4> QED
                BY <4>2 DEF Closed
        <3> QED
            BY <1>1, <3>2, <3>3 DEF ValuesOf
    <2>2. w.end[2] \in OpenCells(S)
        BY <1>2, <2>1 DEF IsOpen, OpenCells
    <2>3. 2 \in DOMAIN cell[w.end[2]].vals
        <3>1. w.end[2] \in DOMAIN cell
            BY <2>1 DEF Closed
        <3> QED
            BY <2>2, <3>1 DEF AreCells, IsCell, OpenCells
    <2>4. cell[w.end[2]].vals[2] \in ValuesOf(v, S)
        BY <2>1, <2>3 DEF ValuesOf
    <2>5. Append(w.conses, w.end[2]) \in Seq(OpenCells(S))
        BY <1>1, <2>2, AppendProperties
    <2> QED
        BY <1>2, <2>4, <2>5 DEF Onward, Walks
<1>3. CASE ~IsOpen(w.end)
    BY <1>3 DEF Onward
<1> QED
    BY <1>2, <1>3

LEMMA ListReached ==
    ASSUME AreCells(cell), NEW v, NEW S, Closed(cell, S), CellsOf(v) \subseteq S
    PROVE  ListCells(v) \in Walks(v, S)
<1> DEFINE N == Len(cell)
           V == Walks(v, S)
           b == [conses |-> <<>>, end |-> v]
           Is(f) == f = [n \in 0..N |-> IF n = 0 THEN b ELSE Onward(f[n - 1])]
<1>1. N \in Nat
    BY CellDomain
<1>2. PICK g : g = [w \in V |-> Onward(w)]
    OBVIOUS
<1>3. \A w \in V : Onward(w) \in V
    BY OnwardWalks
<1>4. g \in [V -> V]
    BY <1>2, <1>3
<1>5. b \in V
    <2>1. <<>> \in Seq(OpenCells(S)) /\ v \in ValuesOf(v, S)
        BY EmptySeq DEF ValuesOf
    <2> QED
        BY <2>1 DEF Walks
<1> HIDE DEF V, b
<1>6. PICK f \in [0..N -> V] : Iterates(f, N, b, g)
    BY <1>1, <1>4, <1>5, Iteration
<1>7. f = [n \in 0..N |-> IF n = 0 THEN b ELSE g[f[n - 1]]]
    BY <1>6 DEF Iterates
<1>8. \A n \in 0..N : n # 0 => g[f[n - 1]] = Onward(f[n - 1])
    BY <1>1, <1>2, <1>6
<1>9. Is(f)
    BY <1>7, <1>8
<1>10. PICK h : h = CHOOSE rounds : Is(rounds)
    OBVIOUS
<1>11. Is(h)
    BY <1>9, <1>10
<1>12. ListCells(v) = h[N]
    BY <1>10 DEF ListCells, Onward, b
<1>13. h[0] = b /\ \A n \in 1..N : h[n] = Onward(h[n - 1])
    <2>1. \A n \in 0..N : h[n] = IF n = 0 THEN b ELSE Onward(h[n - 1])
        BY <1>11
    <2> QED
        BY <1>1, <2>1
<1> DEFINE Good == {n \in Nat : n <= N => h[n] \in V}
<1>14. 0 \in Good
    BY <1>5, <1>13
<1>15. ASSUME NEW n \in Nat, n \in Good PROVE n + 1 \in Good
    <2>1. CASE n + 1 <= N
        <3>1. n + 1 \in 1..N /\ (n + 1) - 1 = n
            BY <1>1, <1>15, <2>1
        <3>2. h[n] \in V /\ h[n + 1] = Onward(h[n])
            BY <1>13, <1>15, <2>1, <3>1
        <3> QED
            BY <1>3, <3>2
    <2> QED
        BY <2>1
<1>16. Nat \subseteq Good
    <2> HIDE DEF Good
    <2> QED
        BY <1>14, <1>15, Induction
<1> QED
    BY <1>1, <1>12, <1>16 DEF V

\* The elements of a list refer to cells that it reaches.
LEMMA ElementsReached ==
    ASSUME AreCells(cell), NEW v, NEW S, Closed(cell, S), CellsOf(v) \subseteq S,
           NEW elements,
           elements = [k \in DOMAIN ListCells(v).conses |-> cell[ListCells(v).conses[k]].vals[1]]
    PROVE  IsCell(Vector(elements)) /\ RefsOf(Vector(elements)) \subseteq S
<1> DEFINE conses == ListCells(v).conses
<1>1. conses \in Seq(OpenCells(S))
    BY ListReached DEF Walks
<1>2. IsCell(Vector(elements))
    BY DEF IsCell, Vector
<1>3. ASSUME NEW d \in RefsOf(Vector(elements)) PROVE d \in S
    <2>0. Vector(elements).vals = elements /\ DOMAIN elements = DOMAIN conses
        BY DEF Vector
    <2>1. PICK k \in DOMAIN conses : IsRef(elements[k]) /\ d = elements[k][2]
        BY <1>3, <2>0, RefsAre
    <2>2. conses[k] \in OpenCells(S)
        BY <1>1, <2>1, LenProperties, ElementOfSeq
    <2>3. conses[k] \in S /\ conses[k] \in DOMAIN cell /\ cell[conses[k]].type = "OPEN"
        BY <2>2 DEF OpenCells, Closed
    <2>4. 1 \in DOMAIN cell[conses[k]].vals
        BY <2>3 DEF AreCells, IsCell
    <2>5. d \in RefsOf(cell[conses[k]])
        BY <2>1, <2>4, RefsAre
    <2> QED
        BY <2>3, <2>5 DEF Closed
<1> QED
    BY <1>2, <1>3

-----------------------------------------------------------------------------
(* How steps change the cells.                                             *)

\* The cells of cl are in new, with more references at most, and those but t
\* unchanged.
Grows(cl, new, t) ==
    \A c \in DOMAIN cl :
        /\ c \in DOMAIN new /\ RefsOf(cl[c]) \subseteq RefsOf(new[c])
        /\ c # t => new[c] = cl[c]

Next1(cl) == Len(cl) + 1

\* new is cl with the cell x behind it.
Added(cl, new, x) ==
    /\ AreCells(new) /\ DOMAIN new = DOMAIN cl \cup {Next1(cl)}
    /\ Next1(cl) \notin DOMAIN cl /\ new[Next1(cl)] = x
    /\ \A c \in DOMAIN cl : new[c] = cl[c]
    /\ Len(new) = Next1(cl) /\ Len(cl) \in Nat

LEMMA AddsCell ==
    ASSUME NEW cl, AreCells(cl), NEW x, IsCell(x), RefsOf(x) \subseteq DOMAIN cl
    PROVE  Added(cl, Append(cl, x), x)
<1>1. PICK S : cl \in Seq(S)
    BY DEF AreCells
<1>2. cl \in Seq(S \cup {x})
    BY <1>1, SeqMonotonic
<1>3. DOMAIN cl = 1..Len(cl) /\ Len(cl) \in Nat
    BY CellDomain
<1>4. PICK new : new = Append(cl, x)
    OBVIOUS
<1>5. /\ new \in Seq(S \cup {x}) /\ Len(new) = Len(cl) + 1
      /\ \A c \in 1..Len(cl) : new[c] = cl[c]
      /\ new[Len(cl) + 1] = x
    BY <1>2, <1>4, AppendProperties
<1>6. DOMAIN new = 1..Len(cl) + 1
    BY <1>5, LenProperties
<1>7. DOMAIN new = DOMAIN cl \cup {Len(cl) + 1} /\ Len(cl) + 1 \notin DOMAIN cl
    BY <1>3, <1>6
<1>8. ASSUME NEW c \in DOMAIN new PROVE IsCell(new[c]) /\ RefsOf(new[c]) \subseteq DOMAIN new
    <2>1. CASE c \in DOMAIN cl
        <3>1. new[c] = cl[c]
            BY <1>3, <1>5, <2>1
        <3>2. IsCell(cl[c]) /\ RefsOf(cl[c]) \subseteq DOMAIN cl
            BY <2>1 DEF AreCells
        <3> QED
            BY <1>7, <3>1, <3>2
    <2>2. CASE c = Len(cl) + 1
        BY <1>5, <1>7, <2>2
    <2> QED
        BY <1>7, <2>1, <2>2
<1>9. AreCells(new)
    BY <1>5, <1>8 DEF AreCells
<1> QED
    BY <1>3, <1>4, <1>5, <1>7, <1>9 DEF Added, Next1

LEMMA AddedGrows ==
    ASSUME NEW cl, NEW new, NEW x, Added(cl, new, x)
    PROVE  Grows(cl, new, Next1(cl)) /\ \A S : Closed(cl, S) => Closed(new, S)
<1>1. Grows(cl, new, Next1(cl))
    BY DEF Grows, Added
<1>2. ASSUME NEW S, Closed(cl, S) PROVE Closed(new, S)
    BY <1>2 DEF Closed, Added
<1> QED
    BY <1>1, <1>2

\* A field of a cell is set that referred to nothing.
Stored(cl, new, t, i, v) ==
    /\ DOMAIN new = DOMAIN cl /\ Len(new) = Len(cl)
    /\ \A c \in DOMAIN cl : c # t => new[c] = cl[c]
    /\ RefsOf(new[t]) = RefsOf(cl[t]) \cup CellsOf(v)
    /\ new[t].type = "OPEN" /\ new[t].vals[i] = v
    /\ \A j \in {1, 2} : j # i => new[t].vals[j] = cl[t].vals[j]
    /\ AreCells(new)

LEMMA StoresValue ==
    ASSUME NEW cl, AreCells(cl), NEW t \in DOMAIN cl, cl[t].type = "OPEN", NEW i \in {1, 2},
           ~IsRef(cl[t].vals[i]), NEW v, CellsOf(v) \subseteq DOMAIN cl
    PROVE  Stored(cl, [cl EXCEPT ![t].vals[i] = v], t, i, v)
<1>1. PICK S : cl \in Seq(S)
    BY DEF AreCells
<1>2. IsCell(cl[t]) /\ RefsOf(cl[t]) \subseteq DOMAIN cl
    BY DEF AreCells
<1>3. PICK vals : vals = [cl[t].vals EXCEPT ![i] = v]
    OBVIOUS
<1>4. PICK x : x = [type |-> cl[t].type, vals |-> vals, name |-> cl[t].name]
    OBVIOUS
<1>5. DOMAIN cl[t].vals = {1, 2}
    BY <1>2 DEF IsCell
<1>6. DOMAIN vals = {1, 2} /\ vals[i] = v /\ \A j \in {1, 2} : j # i => vals[j] = cl[t].vals[j]
    BY <1>3, <1>5
<1>7. IsCell(x)
    <2>1. vals = [k \in DOMAIN vals |-> vals[k]]
        BY <1>3
    <2> QED
        BY <1>4, <1>6, <2>1 DEF IsCell
<1>8. RefsOf(x) = RefsOf(cl[t]) \cup CellsOf(v)
    <2>1. \A d : d \in RefsOf(x) <=> \E k \in {1, 2} : IsRef(vals[k]) /\ d = vals[k][2]
        BY <1>4, <1>6, RefsAre
    <2>2. \A d : d \in RefsOf(cl[t]) <=> \E k \in {1, 2} : IsRef(cl[t].vals[k]) /\ d = cl[t].vals[k][2]
        BY <1>5, RefsAre
    <2>3. \A d : d \in CellsOf(v) <=> IsRef(v) /\ d = v[2]
        BY DEF CellsOf
    <2>4. ASSUME NEW d PROVE d \in RefsOf(x) <=> d \in RefsOf(cl[t]) \/ d \in CellsOf(v)
        BY <1>6, <2>1, <2>2, <2>3
    <2> QED
        BY <2>4
<1>9. PICK new : new = [cl EXCEPT ![t].vals[i] = v]
    OBVIOUS
<1>10. new = [cl EXCEPT ![t] = x]
    <2>1. cl[t] = [type |-> cl[t].type, vals |-> cl[t].vals, name |-> cl[t].name]
        BY <1>2 DEF IsCell
    <2>2. [cl[t] EXCEPT !.vals = vals] = x
        BY <1>4, <2>1
    <2>3. new = [cl EXCEPT ![t] = [cl[t] EXCEPT !.vals = vals]]
        BY <1>3, <1>9
    <2> QED
        BY <2>2, <2>3
<1>11. cl \in Seq(S \cup {x})
    BY <1>1, SeqMonotonic
<1>12. DOMAIN cl = 1..Len(cl) /\ Len(cl) \in Nat
    BY CellDomain
<1>13. /\ new \in Seq(S \cup {x}) /\ Len(new) = Len(cl)
       /\ new[t] = x /\ \A c \in DOMAIN cl : c # t => new[c] = cl[c]
    BY <1>10, <1>11, <1>12, ExceptSeq
<1>14. DOMAIN new = DOMAIN cl
    BY <1>12, <1>13, LenProperties
<1>15. ASSUME NEW c \in DOMAIN new PROVE IsCell(new[c]) /\ RefsOf(new[c]) \subseteq DOMAIN new
    <2>1. CASE c = t
        BY <1>2, <1>7, <1>8, <1>13, <1>14, <2>1
    <2>2. CASE c # t
        BY <1>13, <1>14, <2>2 DEF AreCells
    <2> QED
        BY <2>1, <2>2
<1>16. AreCells(new)
    BY <1>13, <1>15 DEF AreCells
<1> QED
    BY <1>4, <1>6, <1>8, <1>9, <1>13, <1>14, <1>16 DEF Stored

\* What is closed and contains v stays closed.
Takes(cl, new, v) == \A S : Closed(cl, S) /\ CellsOf(v) \subseteq S => Closed(new, S)

LEMMA StoredGrows ==
    ASSUME NEW cl, NEW new, NEW t \in DOMAIN cl, NEW i, NEW v, Stored(cl, new, t, i, v)
    PROVE  Grows(cl, new, t) /\ Takes(cl, new, v)
<1>1. Grows(cl, new, t)
    BY DEF Grows, Stored
<1>2. ASSUME NEW S, Closed(cl, S), CellsOf(v) \subseteq S PROVE Closed(new, S)
    BY <1>2 DEF Closed, Stored
<1> QED
    BY <1>1, <1>2 DEF Takes

-----------------------------------------------------------------------------
(* What the reader holds.                                                  *)

\* The cell f.tmp is reached from f.val, and the field that is set next is free.
InFrame(cl, f) ==
    /\ f.val \in DOMAIN cl /\ f.tmp \in DOMAIN cl /\ cl[f.tmp].type = "OPEN"
    /\ f.at \in {"car", "quote"} => ~IsRef(cl[f.tmp].vals[1])
    /\ f.at \in {"car", "rest", "cdr"} => ~IsRef(cl[f.tmp].vals[2])
    /\ \A S : Closed(cl, S) /\ f.val \in S => f.tmp \in S

FramesOK == \A k \in DOMAIN frames : Roots(k) => InFrame(cell, frames[k])

\* No two activations work on one cell.
Apart == \A j, k \in DOMAIN frames : j # k /\ Roots(j) /\ Roots(k) => frames[j].tmp # frames[k].tmp

CellTypes ==
    /\ pc \in {"program", "next", "tree", "return", "ended"}
    /\ status \in {"none", "done", "error", "eof", "crash", "lost", "null"}
    /\ CellsOf(ret) \subseteq DOMAIN cell
    /\ \A k \in DOMAIN cstack : cstack[k] \in DOMAIN cell
    /\ swept \subseteq DOMAIN cell

\* The cells of S are all that is needed, and none of them is swept.
HeldBy(S) == \A k \in DOMAIN frames : Roots(k) => frames[k].val \in S
Safe(S) ==
    /\ Closed(cell, S) /\ S \cap swept = {} /\ HeldBy(S)
    /\ pc = "return" => CellsOf(ret) \subseteq S
Kept == pc # "ended" => \E S : Safe(S)

CellInv == AreCells(cell) /\ CellTypes /\ FramesOK /\ Apart /\ Kept

\* The activations up to m stay, and at most one new one of F is behind them.
FramesFrom(m, F) ==
    \A k \in DOMAIN frames' :
        \/ k \in DOMAIN frames /\ k <= m /\ frames'[k] = frames[k]
        \/ k = m + 1 /\ frames'[k] \in F

\* What is closed with more references was closed.
LEMMA ClosedBefore ==
    ASSUME NEW S, NEW t, Grows(cell, cell', t), Closed(cell', S), AreCells(cell)
    PROVE  Closed(cell, S \cap DOMAIN cell)
<1>1. ASSUME NEW c \in S \cap DOMAIN cell PROVE RefsOf(cell[c]) \subseteq S \cap DOMAIN cell
    BY <1>1 DEF Closed, Grows, AreCells
<1> QED
    BY <1>1 DEF Closed

LEMMA FramesKeep ==
    ASSUME AreCells(cell), FramesOK, Apart, NEW m \in Nat, NEW F, FramesFrom(m, F),
           NEW t, Grows(cell, cell', t), DOMAIN frames \subseteq Nat,
           \A k \in DOMAIN frames : k <= m /\ Roots(k) => frames[k].tmp # t,
           \A f \in F : f.at # "vector" =>
               /\ InFrame(cell', f)
               /\ \A k \in DOMAIN frames : k <= m /\ Roots(k) => frames[k].tmp # f.tmp
    PROVE  FramesOK' /\ Apart'
<1>1. ASSUME NEW f, InFrame(cell, f), f.tmp # t PROVE InFrame(cell', f)
    <2>1. cell'[f.tmp] = cell[f.tmp] /\ f.val \in DOMAIN cell' /\ f.tmp \in DOMAIN cell'
        BY <1>1 DEF InFrame, Grows
    <2>2. ASSUME NEW S, Closed(cell', S), f.val \in S PROVE f.tmp \in S
        <3>1. Closed(cell, S \cap DOMAIN cell)
            BY <1>1, <2>2, ClosedBefore
        <3> QED
            BY <1>1, <2>2, <3>1 DEF InFrame
    <2> QED
        BY <1>1, <2>1, <2>2 DEF InFrame
<1>2. ASSUME NEW k \in DOMAIN frames', Roots(k)'
      PROVE  \/ k \in DOMAIN frames /\ k <= m /\ frames'[k] = frames[k] /\ Roots(k)
             \/ k = m + 1 /\ frames'[k] \in F /\ frames'[k].at # "vector"
    BY <1>2 DEF FramesFrom, Roots
<1>3. FramesOK'
    <2> SUFFICES ASSUME NEW k \in DOMAIN frames', Roots(k)' PROVE InFrame(cell', frames'[k])
        BY DEF FramesOK
    <2>1. CASE k \in DOMAIN frames /\ k <= m /\ frames'[k] = frames[k] /\ Roots(k)
        BY <1>1, <2>1 DEF FramesOK
    <2>2. CASE k = m + 1 /\ frames'[k] \in F /\ frames'[k].at # "vector"
        BY <2>2
    <2> QED
        BY <1>2, <2>1, <2>2
<1>4. Apart'
    <2> SUFFICES ASSUME NEW j \in DOMAIN frames', NEW k \in DOMAIN frames', j # k, Roots(j)', Roots(k)'
                 PROVE  frames'[j].tmp # frames'[k].tmp
        BY DEF Apart
    <2> QED
        BY <1>2 DEF Apart
<1> QED
    BY <1>3, <1>4

\* A step for which S2 is what is needed afterwards.
LEMMA StepKeeps ==
    ASSUME RootsInv, CellInv, AreCells(cell'), CellTypes',
           NEW m \in Nat, NEW F, FramesFrom(m, F),
           NEW t, Grows(cell, cell', t),
           \A k \in DOMAIN frames : k <= m /\ Roots(k) => frames[k].tmp # t,
           \A f \in F : f.at # "vector" =>
               /\ InFrame(cell', f)
               /\ \A k \in DOMAIN frames : k <= m /\ Roots(k) => frames[k].tmp # f.tmp,
           NEW S, NEW S2, HeldBy(S), S \subseteq S2,
           Closed(cell', S2), S2 \cap swept' = {},
           \A f \in F : f.at # "vector" => f.val \in S2,
           pc' = "return" => CellsOf(ret') \subseteq S2
    PROVE  CellInv'
<1>1. DOMAIN frames \subseteq Nat
    BY LenProperties DEF RootsInv, RootsType
<1>2. FramesOK' /\ Apart'
    BY <1>1, FramesKeep DEF CellInv
<1>3. ASSUME NEW k \in DOMAIN frames', Roots(k)' PROVE frames'[k].val \in S2
    <2>1. CASE k \in DOMAIN frames /\ frames'[k] = frames[k]
        BY <1>3, <2>1 DEF HeldBy, Roots
    <2>2. CASE frames'[k] \in F
        BY <1>3, <2>2 DEF Roots
    <2> QED
        BY <1>3, <2>1, <2>2 DEF FramesFrom
<1>4. Safe(S2)'
    BY <1>3 DEF Safe, HeldBy
<1> QED
    BY <1>2, <1>4 DEF CellInv, Kept

\* How the activations change.
LEMMA FrameShapes ==
    ASSUME RootsInv
    PROVE  /\ Len(frames) \in Nat /\ DOMAIN frames = 1..Len(frames)
           /\ frames' = frames \/ frames' = <<>> => FramesFrom(Len(frames), {})
           /\ \A f \in FrameType : frames' = Append(frames, f) => FramesFrom(Len(frames), {f})
           /\ Activated =>
                /\ Len(frames) - 1 \in Nat /\ Len(frames) \in DOMAIN frames
                /\ frames' = Below => FramesFrom(Len(frames) - 1, {})
                /\ \A f \in FrameType : frames' = Append(Below, f) => FramesFrom(Len(frames) - 1, {f})
<1>1. Len(frames) \in Nat /\ DOMAIN frames = 1..Len(frames) /\ frames \in Seq(FrameType)
    BY LenProperties DEF RootsInv, RootsType
<1>2. frames' = frames \/ frames' = <<>> => FramesFrom(Len(frames), {})
    <2>1. frames' = <<>> => DOMAIN frames' = {}
        BY EmptySeq
    <2> QED
        BY <1>1, <2>1 DEF FramesFrom
<1>3. ASSUME NEW s \in Seq(FrameType), NEW f \in FrameType, frames' = Append(s, f),
             Len(s) <= Len(frames), \A k \in 1..Len(s) : s[k] = frames[k]
      PROVE  FramesFrom(Len(s), {f})
    <2>1. /\ Len(s) \in Nat /\ DOMAIN frames' = 1..Len(s) + 1
          /\ \A k \in 1..Len(s) : frames'[k] = s[k]
          /\ frames'[Len(s) + 1] = f
        BY <1>3, AppendProperties, LenProperties
    <2>2. ASSUME NEW k \in 1..Len(s) + 1 PROVE k \in 1..Len(s) \/ k = Len(s) + 1
        BY <2>1
    <2>3. \A k \in 1..Len(s) : k \in DOMAIN frames /\ k <= Len(s)
        BY <1>1, <1>3, <2>1
    <2> QED
        BY <1>3, <2>1, <2>2, <2>3 DEF FramesFrom
<1>4. \A f \in FrameType : frames' = Append(frames, f) => FramesFrom(Len(frames), {f})
    BY <1>1, <1>3
<1>5. ASSUME Activated
      PROVE  /\ Len(frames) - 1 \in Nat /\ Len(frames) \in DOMAIN frames
             /\ frames' = Below => FramesFrom(Len(frames) - 1, {})
             /\ \A f \in FrameType : frames' = Append(Below, f) => FramesFrom(Len(frames) - 1, {f})
    <2>1. /\ Below \in Seq(FrameType) /\ Len(Below) = Len(frames) - 1
          /\ \A k \in 1..Len(frames) - 1 : Below[k] = frames[k]
        BY <1>1, <1>5, PopProperties DEF Activated, Below
    <2>2. Len(frames) - 1 \in Nat /\ Len(frames) \in DOMAIN frames
        BY <1>1, <1>5, EmptySeq DEF Activated
    <2>3. DOMAIN Below = 1..Len(frames) - 1
        BY <2>1, LenProperties
    <2>4. frames' = Below => FramesFrom(Len(frames) - 1, {})
        BY <1>1, <2>1, <2>2, <2>3 DEF FramesFrom
    <2>5. \A f \in FrameType : frames' = Append(Below, f) => FramesFrom(Len(Below), {f})
        BY <1>1, <1>3, <2>1, <2>2
    <2> QED
        BY <2>1, <2>2, <2>4, <2>5
<1> QED
    BY <1>1, <1>2, <1>4, <1>5

\* A step that allocates nothing, stores nothing and collects nothing.
LEMMA NothingAllocated ==
    ASSUME RootsInv, CellInv, pc # "ended", UNCHANGED <<cell, swept>>, CellTypes',
           NEW m \in Nat, NEW F, FramesFrom(m, F),
           \A f \in F : f.at # "vector" =>
               /\ InFrame(cell, f)
               /\ \A k \in DOMAIN frames : k <= m /\ Roots(k) => frames[k].tmp # f.tmp,
           \A S : Safe(S) => /\ \A f \in F : f.at # "vector" => f.val \in S
                             /\ pc' = "return" => CellsOf(ret') \subseteq S
    PROVE  CellInv'
<1>1. PICK S : Safe(S)
    BY DEF CellInv, Kept
<1>2. PICK t : t = Len(cell) + 1
    OBVIOUS
<1>3. Grows(cell, cell', t)
    BY DEF Grows
<1>4. AreCells(cell') /\ FramesOK
    BY DEF CellInv
<1>5. t \notin DOMAIN cell
    BY <1>2, CellDomain DEF CellInv
<1>6. \A k \in DOMAIN frames : Roots(k) => frames[k].tmp # t
    BY <1>4, <1>5 DEF FramesOK, InFrame
<1>7. HeldBy(S) /\ Closed(cell', S) /\ S \cap swept' = {}
    BY <1>1 DEF Safe
<1> QED
    BY <1>1, <1>3, <1>4, <1>6, <1>7, StepKeeps

\* What a collection leaves: cells that are closed and contain those of the
\* activations, as these are in the list of roots.
Remains(S) == Closed(cell, S) /\ HeldBy(S) /\ S \cap swept' = {}

LEMMA Collected ==
    ASSUME RootsInv, CellInv, pc # "ended", Collect
    PROVE  swept' \subseteq DOMAIN cell /\ \E S : Remains(S)
<1>1. PICK S : Safe(S)
    BY DEF CellInv, Kept
<1>2. AreCells(cell) /\ swept \subseteq DOMAIN cell
    BY DEF CellInv, CellTypes
<1>3. CASE UNCHANGED swept
    BY <1>1, <1>2, <1>3 DEF Remains, Safe
<1>4. CASE swept' = swept \cup Garbage
    <2> DEFINE roots == {cstack[k] : k \in DOMAIN cstack}
    <2>1. roots \in SUBSET DOMAIN cell
        BY DEF CellInv, CellTypes
    <2>2. Rooted = ReachIn(cell, roots)
        BY ReachIs DEF Rooted
    <2>3. Closed(cell, Rooted) /\ roots \subseteq Rooted
        BY <1>2, <2>1, <2>2, ReachClosed
    <2>4. \A k \in DOMAIN frames : Roots(k) => frames[k].val \in roots
        <3>1. DOMAIN cstack = 1..Len(cstack)
            BY LenProperties DEF RootsInv, RootsType
        <3> QED
            BY <3>1 DEF RootsInv, EntryHeld
    <2>5. Closed(cell, S \cap Rooted)
        BY <1>1, <2>3 DEF Safe, Closed
    <2>6. HeldBy(S \cap Rooted)
        BY <1>1, <2>3, <2>4 DEF Safe, HeldBy
    <2>7. (S \cap Rooted) \cap swept' = {}
        BY <1>1, <1>4 DEF Safe, Garbage
    <2> QED
        BY <1>2, <1>4, <2>5, <2>6, <2>7 DEF Garbage, Remains
<1> QED
    BY <1>3, <1>4 DEF Collect

LEMMA NewIsLast == NewCell = Next1(cell)
    BY DEF NewCell, Next1

\* The cells of the activations are not the new ones.
LEMMA NewIsApart ==
    ASSUME CellInv
    PROVE  \A k \in DOMAIN frames : Roots(k) =>
               \A t : t \notin DOMAIN cell => frames[k].tmp # t
    BY DEF CellInv, FramesOK, InFrame

\* The activation on top works on its cell alone.
LEMMA TopIsApart ==
    ASSUME RootsInv, CellInv, Activated, Top.at # "vector"
    PROVE  /\ InFrame(cell, Top) /\ Top.tmp \in DOMAIN cell /\ Top.val \in DOMAIN cell
           /\ \A k \in DOMAIN frames : k <= Len(frames) - 1 /\ Roots(k) => frames[k].tmp # Top.tmp
           /\ \A S : Safe(S) \/ HeldBy(S) => Top.val \in S
<1>1. Len(frames) \in DOMAIN frames /\ Len(frames) \in Nat /\ DOMAIN frames = 1..Len(frames)
    BY FrameShapes
<1>2. Top = frames[Len(frames)] /\ Roots(Len(frames))
    BY DEF Top, Roots
<1>3. InFrame(cell, Top)
    BY <1>1, <1>2 DEF CellInv, FramesOK
<1>4. \A k \in DOMAIN frames : k <= Len(frames) - 1 => k # Len(frames)
    BY <1>1
<1>5. \A k \in DOMAIN frames : k <= Len(frames) - 1 /\ Roots(k) => frames[k].tmp # Top.tmp
    BY <1>1, <1>2, <1>4 DEF CellInv, Apart
<1> QED
    BY <1>1, <1>2, <1>3, <1>5 DEF InFrame, Safe, HeldBy

\* A value that was returned is stored in the cell of the activation on top.
LEMMA StoreKeeps ==
    ASSUME RootsInv, CellInv, Activated, Top.at # "vector", pc = "return", NEW i \in {1, 2},
           NEW v, CellsOf(v) \subseteq CellsOf(ret),
           cell' = [cell EXCEPT ![Top.tmp].vals[i] = v], ~IsRef(cell[Top.tmp].vals[i]),
           UNCHANGED swept, CellTypes',
           NEW F, FramesFrom(Len(frames) - 1, F),
           \A f \in F : f.val = Top.val /\ f.tmp = Top.tmp /\ f.at # "car" /\ f.at # "quote"
                        /\ (f.at \in {"rest", "cdr"} => ~IsRef(cell[Top.tmp].vals[2]) /\ i = 1),
           pc' = "return" => CellsOf(ret') \subseteq {Top.val}
    PROVE  CellInv'
<1> DEFINE t == Top.tmp
<1>1. /\ InFrame(cell, Top) /\ t \in DOMAIN cell
      /\ \A k \in DOMAIN frames : k <= Len(frames) - 1 /\ Roots(k) => frames[k].tmp # t
    BY TopIsApart
<1>2. AreCells(cell) /\ CellsOf(v) \subseteq DOMAIN cell /\ cell[t].type = "OPEN"
    BY <1>1 DEF CellInv, CellTypes, InFrame
<1>3. Stored(cell, cell', t, i, v)
    BY <1>1, <1>2, StoresValue
<1>4. Grows(cell, cell', t) /\ Takes(cell, cell', v)
    BY <1>1, <1>3, StoredGrows
<1>5. PICK S : Safe(S)
    BY DEF CellInv, Kept
<1>6. Closed(cell', S) /\ HeldBy(S) /\ S \cap swept' = {} /\ Top.val \in S
    BY <1>4, <1>5, TopIsApart DEF Safe, Takes
<1>7. AreCells(cell') /\ cell'[t].type = "OPEN" /\ DOMAIN cell' = DOMAIN cell
      /\ (i = 1 => cell'[t].vals[2] = cell[t].vals[2])
    BY <1>3 DEF Stored
<1>8. ASSUME NEW f \in F PROVE InFrame(cell', f)
    <2>1. ASSUME NEW T, Closed(cell', T), f.val \in T PROVE f.tmp \in T
        <3>1. Closed(cell, T \cap DOMAIN cell)
            BY <1>2, <1>4, <2>1, ClosedBefore
        <3>2. Top.val \in T \cap DOMAIN cell
            BY <2>1, TopIsApart
        <3>3. f.val = Top.val /\ f.tmp = Top.tmp
            OBVIOUS
        <3> QED
            BY <1>1, <3>1, <3>2, <3>3 DEF InFrame
    <2>2. f.val \in DOMAIN cell' /\ f.tmp \in DOMAIN cell' /\ cell'[f.tmp].type = "OPEN"
        BY <1>7, TopIsApart
    <2>3. f.at \in {"rest", "cdr"} => ~IsRef(cell'[f.tmp].vals[2])
        BY <1>7
    <2> QED
        BY <2>1, <2>2, <2>3 DEF InFrame
<1>9. Len(frames) - 1 \in Nat
    BY FrameShapes
<1>10. \A f \in F : f.val \in S
    BY <1>6
<1>11. pc' = "return" => CellsOf(ret') \subseteq S
    BY <1>6
<1>12. \A f \in F : f.at # "vector" =>
           /\ InFrame(cell', f)
           /\ \A k \in DOMAIN frames : k <= Len(frames) - 1 /\ Roots(k) => frames[k].tmp # f.tmp
    BY <1>1, <1>8
<1> HIDE DEF t
<1> QED
    BY <1>1, <1>4, <1>6, <1>7, <1>9, <1>10, <1>11, <1>12, StepKeeps

-----------------------------------------------------------------------------
(* The steps.                                                              *)

LEMMA UnboxedRefs ==
    /\ CellsOf(NULL) = {} /\ CellsOf(Nil) = {} /\ \A c : CellsOf(Ref(c)) = {c} /\ IsRef(Ref(c))
    /\ ~IsRef(NULL) /\ ~IsRef(Nil)
    BY DEF CellsOf, IsRef, NULL, Nil, Ref

\* The entries of the list of roots name cells.
Entries(s, cl) == \A k \in DOMAIN s : s[k] \in DOMAIN cl

LEMMA EntriesStay ==
    ASSUME NEW cl, NEW new, DOMAIN cl \subseteq DOMAIN new, NEW s \in Seq(Nat), Entries(s, cl)
    PROVE  /\ Entries(s, new) /\ Entries(<<>>, new)
           /\ s # <<>> => Entries(Pop(s), new)
           /\ \A c \in DOMAIN new \cap Nat : Entries(Append(s, c), new)
<1>1. DOMAIN s = 1..Len(s) /\ Len(s) \in Nat
    BY LenProperties
<1>2. Entries(<<>>, new)
    BY EmptySeq DEF Entries
<1>3. ASSUME s # <<>> PROVE Entries(Pop(s), new)
    <2>0. PICK t : t = Pop(s)
        OBVIOUS
    <2>1. t \in Seq(Nat) /\ Len(t) = Len(s) - 1 /\ \A k \in 1..Len(s) - 1 : t[k] = s[k]
        BY <1>3, <2>0, PopProperties
    <2>2. DOMAIN t = 1..Len(s) - 1
        BY <2>1, LenProperties
    <2>3. ASSUME NEW k \in DOMAIN t PROVE t[k] \in DOMAIN new
        <3>1. k \in 1..Len(s) - 1 /\ k \in 1..Len(s)
            BY <1>1, <2>2
        <3>2. t[k] = s[k] /\ s[k] \in DOMAIN cl
            BY <1>1, <2>1, <3>1 DEF Entries
        <3> QED
            BY <3>2
    <2> QED
        BY <2>0, <2>3 DEF Entries
<1>4. ASSUME NEW c \in DOMAIN new \cap Nat PROVE Entries(Append(s, c), new)
    <2>1. PICK t : t = Append(s, c)
        OBVIOUS
    <2>2. /\ t \in Seq(Nat) /\ Len(t) = Len(s) + 1 /\ t[Len(s) + 1] = c
          /\ \A k \in 1..Len(s) : t[k] = s[k]
        BY <2>1, AppendProperties
    <2>3. DOMAIN t = 1..Len(s) + 1
        BY <2>2, LenProperties
    <2>4. \A k \in 1..Len(s) + 1 : k \in 1..Len(s) \/ k = Len(s) + 1
        BY <1>1
    <2> QED
        BY <1>1, <2>1, <2>2, <2>3, <2>4 DEF Entries
<1> QED
    BY <1>2, <1>3, <1>4 DEF Entries

LEMMA InvParts ==
    ASSUME RootsInv, CellInv
    PROVE  /\ AreCells(cell) /\ CellTypes /\ Entries(cstack, cell) /\ cstack \in Seq(Nat)
           /\ NewCell \in Nat /\ DOMAIN cell \subseteq Nat
           /\ Activated /\ Top.at # "vector" => cstack # <<>>
           /\ Activated => Top \in FrameType
<1>1. AreCells(cell) /\ CellTypes /\ Entries(cstack, cell) /\ cstack \in Seq(Nat)
    BY DEF CellInv, CellTypes, Entries, RootsInv, RootsType
<1>2. NewCell \in Nat /\ DOMAIN cell \subseteq Nat
    BY <1>1, CellDomain DEF NewCell
<1>3. ASSUME Activated, Top.at # "vector" PROVE cstack # <<>>
    <2>1. Top.slot \in 1..Len(cstack)
        BY <1>3, FrameShapes DEF RootsInv, EntryHeld, Roots, Top
    <2> QED
        BY <2>1, EmptySeq
<1> QED
    BY <1>1, <1>2, <1>3, TopType

LEMMA ProgramStepsKeep ==
    ASSUME RootsInv, CellInv, ParseProgram \/ ReturnProgram \/ ExecThrows
    PROVE  CellInv'
<1>1. /\ pc # "ended" /\ UNCHANGED <<cell, swept>>
      /\ frames' = frames \/ frames' = <<>>
      /\ cstack' = cstack \/ cstack' = <<>>
      /\ ret' = ret \/ ret' = NULL
      /\ pc' \in {"next", "program"} /\ status' \in {"none", "error", "done"}
    BY DEF ParseProgram, ReturnProgram, ExecThrows, Throw
<1>2. CellTypes'
    <2>1. Entries(cstack', cell)
        BY <1>1, InvParts, EntriesStay
    <2>2. CellsOf(ret') \subseteq DOMAIN cell
        BY <1>1, UnboxedRefs DEF CellInv, CellTypes
    <2> QED
        BY <1>1, <2>1, <2>2 DEF CellInv, CellTypes, Entries
<1>3. FramesFrom(Len(frames), {}) /\ Len(frames) \in Nat
    BY <1>1, FrameShapes
<1> QED
    BY <1>1, <1>2, <1>3, NothingAllocated

LEMMA TokenStepKeeps ==
    ASSUME RootsInv, CellInv, GetToken
    PROVE  CellInv'
<1>1. pc = "next" /\ UNCHANGED <<cell, swept>>
    BY DEF GetToken, Throw
<1>2. \/ Throw
      \/ pc' = "program" /\ status' = "eof" /\ UNCHANGED <<frames, ret, cstack>>
      \/ /\ Activated /\ Top.at = "rest" /\ pc' = pc
         /\ frames' = Append(Below, [Top EXCEPT !.at = "cdr"])
         /\ UNCHANGED <<ret, cstack, status>>
      \/ /\ Activated /\ Top.at = "close" /\ Return(Ref(Top.val))
         /\ cstack' = Pop(cstack) /\ UNCHANGED status
      \/ pc' = "tree" /\ UNCHANGED <<frames, ret, cstack, status>>
    BY DEF GetToken
<1>3. CASE Throw \/ /\ pc' \in {"program", "tree"} /\ status' \in {"eof", status}
                    /\ UNCHANGED <<frames, ret, cstack>>
    <2>1. /\ frames' = frames \/ frames' = <<>>
          /\ pc' \in {"program", "tree"} /\ status' \in {"eof", "error", status} /\ UNCHANGED <<ret, cstack>>
        BY <1>3 DEF Throw
    <2>2. CellTypes'
        BY <1>1, <2>1 DEF CellInv, CellTypes
    <2>3. FramesFrom(Len(frames), {}) /\ Len(frames) \in Nat
        BY <2>1, FrameShapes
    <2> QED
        BY <1>1, <2>1, <2>2, <2>3, NothingAllocated
<1>4. CASE /\ Activated /\ Top.at = "rest" /\ pc' = pc
           /\ frames' = Append(Below, [Top EXCEPT !.at = "cdr"])
           /\ UNCHANGED <<ret, cstack, status>>
    <2>1. PICK f : f = [Top EXCEPT !.at = "cdr"]
        OBVIOUS
    <2>2. f \in FrameType /\ f.at = "cdr" /\ f.val = Top.val /\ f.tmp = Top.tmp
        BY <1>4, <2>1, InvParts DEF FrameType, AtTypes
    <2>3. FramesFrom(Len(frames) - 1, {f}) /\ Len(frames) - 1 \in Nat
        BY <1>4, <2>1, <2>2, FrameShapes
    <2>4. CellTypes'
        BY <1>1, <1>4 DEF CellInv, CellTypes
    <2>5. InFrame(cell, f)
        BY <1>4, <2>2, TopIsApart DEF InFrame
    <2>6. /\ \A k \in DOMAIN frames : k <= Len(frames) - 1 /\ Roots(k) => frames[k].tmp # f.tmp
          /\ \A S : Safe(S) => f.val \in S
        BY <1>4, <2>2, TopIsApart
    <2> QED
        BY <1>1, <1>4, <2>3, <2>4, <2>5, <2>6, NothingAllocated
<1>5. CASE /\ Activated /\ Top.at = "close" /\ Return(Ref(Top.val))
           /\ cstack' = Pop(cstack) /\ UNCHANGED status
    <2>1. frames' = Below /\ pc' = "return" /\ ret' = Ref(Top.val)
        BY <1>5 DEF Return
    <2>2. FramesFrom(Len(frames) - 1, {}) /\ Len(frames) - 1 \in Nat
        BY <1>5, <2>1, FrameShapes
    <2>3. CellsOf(ret') = {Top.val} /\ Top.val \in DOMAIN cell /\ \A S : Safe(S) => Top.val \in S
        BY <1>5, <2>1, UnboxedRefs, TopIsApart
    <2>4. Entries(cstack', cell)
        BY <1>5, InvParts, EntriesStay
    <2>5. CellTypes'
        BY <1>1, <1>5, <2>1, <2>3, <2>4 DEF CellInv, CellTypes, Entries
    <2> QED
        BY <1>1, <2>2, <2>3, <2>5, NothingAllocated
<1> QED
    BY <1>2, <1>3, <1>4, <1>5

LEMMA ThrowKeeps ==
    ASSUME RootsInv, CellInv, pc # "ended", Throw
    PROVE  CellInv'
<1>1. /\ frames' = <<>> /\ UNCHANGED <<cell, swept, cstack, ret>>
      /\ pc' = "program" /\ status' = "error"
    BY DEF Throw
<1>2. CellTypes'
    BY <1>1 DEF CellInv, CellTypes
<1>3. FramesFrom(Len(frames), {}) /\ Len(frames) \in Nat
    BY <1>1, FrameShapes
<1> QED
    BY <1>1, <1>2, <1>3, NothingAllocated

\* A step that allocates the cell x, with or without an activation for it.
LEMMA AllocationKeeps ==
    ASSUME RootsInv, CellInv, pc # "ended", Collect, NEW x, IsCell(x), RefsOf(x) = {},
           cell' = Append(cell, x), CellTypes',
           NEW F, FramesFrom(Len(frames), F),
           \A f \in F : f.val = NewCell /\ f.tmp = NewCell /\ InFrame(cell', f),
           pc' = "return" => CellsOf(ret') \subseteq {NewCell}
    PROVE  CellInv'
<1>1. PICK S : Remains(S)
    BY Collected
<1>2. AreCells(cell) /\ swept' \subseteq DOMAIN cell
    BY Collected DEF CellInv
<1>3. Added(cell, cell', x)
    BY <1>2, AddsCell
<1>4. /\ Grows(cell, cell', NewCell) /\ Closed(cell', S)
      /\ NewCell \notin DOMAIN cell /\ NewCell \in DOMAIN cell' /\ cell'[NewCell] = x /\ AreCells(cell')
    BY <1>1, <1>3, AddedGrows, NewIsLast DEF Remains, Added
<1> DEFINE S2 == S \cup {NewCell}
<1>5. Closed(cell', S2)
    BY <1>4 DEF Closed
<1>6. S2 \cap swept' = {} /\ HeldBy(S)
    BY <1>1, <1>2, <1>4 DEF Remains
<1>7. \A k \in DOMAIN frames : Roots(k) => frames[k].tmp # NewCell
    BY <1>4, NewIsApart
<1>8. Len(frames) \in Nat
    BY FrameShapes
<1>9. \A f \in F : f.at # "vector" =>
          /\ InFrame(cell', f)
          /\ \A k \in DOMAIN frames : k <= Len(frames) /\ Roots(k) => frames[k].tmp # f.tmp
    BY <1>7
<1>10. S \subseteq S2 /\ (\A f \in F : f.val \in S2) /\ (pc' = "return" => CellsOf(ret') \subseteq S2)
    OBVIOUS
<1> HIDE DEF S2
<1> QED
    BY <1>4, <1>5, <1>6, <1>7, <1>8, <1>9, <1>10, StepKeeps

LEMMA NewCells ==
    /\ \A u, v : IsCell(Open(u, v)) /\ Open(u, v).type = "OPEN"
                 /\ Open(u, v).vals[1] = u /\ Open(u, v).vals[2] = v
                 /\ RefsOf(Open(u, v)) = CellsOf(u) \cup CellsOf(v)
    /\ \A type, name : type # "OPEN" => IsCell(Named(type, name)) /\ RefsOf(Named(type, name)) = {}
<1>1. ASSUME NEW u, NEW v
      PROVE  /\ IsCell(Open(u, v)) /\ Open(u, v).type = "OPEN"
             /\ Open(u, v).vals[1] = u /\ Open(u, v).vals[2] = v
             /\ RefsOf(Open(u, v)) = CellsOf(u) \cup CellsOf(v)
    <2>1. PICK x : x = Open(u, v)
        OBVIOUS
    <2>2. x = [type |-> "OPEN", vals |-> <<u, v>>, name |-> "none"]
        BY <2>1 DEF Open
    <2>3. DOMAIN x.vals = {1, 2} /\ x.vals[1] = u /\ x.vals[2] = v /\ x.type = "OPEN"
        BY <2>2
    <2>4. IsCell(x)
        <3>1. x.vals = [k \in DOMAIN x.vals |-> x.vals[k]]
            BY <2>2
        <3> QED
            BY <2>2, <2>3, <3>1 DEF IsCell
    <2>5. \A d : d \in RefsOf(x) <=> d \in CellsOf(u) \/ d \in CellsOf(v)
        <3>1. \A d : d \in RefsOf(x) <=> \E k \in {1, 2} : IsRef(x.vals[k]) /\ d = x.vals[k][2]
            BY <2>3, RefsAre
        <3>2. \A w, d : d \in CellsOf(w) <=> IsRef(w) /\ d = w[2]
            BY DEF CellsOf
        <3> QED
            BY <2>3, <3>1, <3>2
    <2>6. RefsOf(x) = CellsOf(u) \cup CellsOf(v)
        BY <2>5
    <2> QED
        BY <2>1, <2>3, <2>4, <2>6
<1>2. ASSUME NEW type, NEW name, type # "OPEN"
      PROVE  IsCell(Named(type, name)) /\ RefsOf(Named(type, name)) = {}
    <2>1. PICK x : x = Named(type, name)
        OBVIOUS
    <2>2. x = [type |-> type, vals |-> <<>>, name |-> name]
        BY <2>1 DEF Named
    <2>3. DOMAIN x.vals = {}
        BY <2>2, EmptySeq
    <2>4. x.vals = [k \in DOMAIN x.vals |-> x.vals[k]]
        BY <2>2, EmptySeq
    <2>5. IsCell(x)
        BY <1>2, <2>2, <2>4 DEF IsCell
    <2>6. RefsOf(x) = {}
        BY <2>3, RefsAre
    <2> QED
        BY <2>1, <2>5, <2>6
<1> QED
    BY <1>1, <1>2

LEMMA MakeConsListKeeps ==
    ASSUME RootsInv, CellInv, MakeConsList
    PROVE  CellInv'
<1> DEFINE x == Open(NULL, NULL)
           f == Frame("car", NewCell, NewCell)
<1>1. /\ pc # "ended" /\ Collect /\ cell' = Append(cell, x) /\ pc' = "next"
      /\ frames' = Append(frames, f) /\ cstack' = Append(cstack, NewCell)
      /\ UNCHANGED <<ret, status>>
    BY DEF MakeConsList, AtTree, Push, Bookkeeping
<1>2. IsCell(x) /\ RefsOf(x) = {} /\ x.type = "OPEN" /\ ~IsRef(x.vals[1]) /\ ~IsRef(x.vals[2])
    BY NewCells, UnboxedRefs
<1>3. f \in FrameType /\ f.val = NewCell /\ f.tmp = NewCell /\ f.at = "car"
    BY InvParts, LenProperties DEF Frame, FrameType, AtTypes
<1> HIDE DEF x, f
<1>4. Added(cell, cell', x)
    BY <1>1, <1>2, AddsCell DEF CellInv
<1>5. DOMAIN cell' = DOMAIN cell \cup {NewCell} /\ cell'[NewCell] = x
    BY <1>4, NewIsLast DEF Added
<1>6. CellTypes'
    <2>1. Entries(cstack', cell')
        BY <1>1, <1>5, InvParts, EntriesStay
    <2>2. swept' \subseteq DOMAIN cell
        BY <1>1, Collected
    <2> QED
        BY <1>1, <1>5, <2>1, <2>2 DEF CellInv, CellTypes, Entries
<1>7. FramesFrom(Len(frames), {f})
    BY <1>1, <1>3, FrameShapes
<1>8. InFrame(cell', f)
    BY <1>2, <1>3, <1>5 DEF InFrame
<1> QED
    BY <1>1, <1>2, <1>3, <1>6, <1>7, <1>8, AllocationKeeps

LEMMA MakeNamedKeeps ==
    ASSUME RootsInv, CellInv, MakeNamed
    PROVE  CellInv'
<1>1. PICK type \in {"STRING", "FUNC", "VARIABLE"}, name \in {Current.val} : cell' = Append(cell, Named(type, name))
    BY DEF MakeNamed
<1> DEFINE x == Named(type, name)
<1>2. /\ pc # "ended" /\ Collect /\ cell' = Append(cell, x) /\ pc' = "return"
      /\ ret' = Ref(NewCell) /\ UNCHANGED <<frames, cstack, status>>
    BY <1>1 DEF MakeNamed, AtTree, Bookkeeping
<1>3. IsCell(x) /\ RefsOf(x) = {}
    BY NewCells
<1> HIDE DEF x
<1>4. Added(cell, cell', x)
    BY <1>2, <1>3, AddsCell DEF CellInv
<1>5. DOMAIN cell' = DOMAIN cell \cup {NewCell}
    BY <1>4, NewIsLast DEF Added
<1>6. CellsOf(ret') = {NewCell}
    BY <1>2, UnboxedRefs
<1>7. CellTypes'
    <2>1. Entries(cstack', cell')
        BY <1>2, <1>5, InvParts, EntriesStay
    <2>2. swept' \subseteq DOMAIN cell
        BY <1>2, Collected
    <2> QED
        BY <1>2, <1>5, <1>6, <2>1, <2>2 DEF CellInv, CellTypes, Entries
<1>8. FramesFrom(Len(frames), {})
    BY <1>2, FrameShapes
<1> QED
    BY <1>2, <1>3, <1>6, <1>7, <1>8, AllocationKeeps

LEMMA PlainTreeStepsKeep ==
    ASSUME RootsInv, CellInv, EnterVector \/ MakeUnboxed \/ MakeClose \/ Unexpected
    PROVE  CellInv'
<1>1. CASE EnterVector
    <2>1. PICK f : f = Frame("vector", 0, 0)
        OBVIOUS
    <2>2. /\ pc # "ended" /\ UNCHANGED <<cell, swept, cstack, ret, status>> /\ pc' = "next"
          /\ frames' = Append(frames, f)
        BY <1>1, <2>1 DEF EnterVector, AtTree, Bookkeeping
    <2>3. f \in FrameType /\ f.at = "vector"
        BY <2>1, InvParts, LenProperties DEF Frame, FrameType, AtTypes
    <2>4. FramesFrom(Len(frames), {f}) /\ Len(frames) \in Nat
        BY <2>2, <2>3, FrameShapes
    <2>5. CellTypes'
        BY <2>2 DEF CellInv, CellTypes
    <2> QED
        BY <2>2, <2>3, <2>4, <2>5, NothingAllocated
<1>2. CASE MakeUnboxed \/ MakeClose
    <2>1. /\ pc # "ended" /\ UNCHANGED <<cell, swept, cstack, frames, status>> /\ pc' = "return"
        BY <1>2 DEF MakeUnboxed, MakeClose, AtTree, Bookkeeping
    <2>2. CellsOf(ret') = {}
        <3>1. CASE MakeClose
            BY <3>1, UnboxedRefs DEF MakeClose
        <3>2. CASE MakeUnboxed
            <4>1. Current.type \in {"int", "nil", "T"} /\ ret' = Leaf(Current)
                BY <3>2 DEF MakeUnboxed, AtTree
            <4>2. ret'[1] \in {"int", "nil", "T"}
                BY <4>1 DEF Leaf
            <4> QED
                BY <4>2 DEF CellsOf, IsRef
        <3> QED
            BY <1>2, <3>1, <3>2
    <2>3. FramesFrom(Len(frames), {}) /\ Len(frames) \in Nat
        BY <2>1, FrameShapes
    <2>4. CellTypes'
        BY <2>1, <2>2 DEF CellInv, CellTypes
    <2> QED
        BY <2>1, <2>2, <2>3, <2>4, NothingAllocated
<1>3. CASE Unexpected
    BY <1>3, ThrowKeeps DEF Unexpected, AtTree
<1> QED
    BY <1>1, <1>2, <1>3

\* The three cells of a quotation.
QuoteCells == <<Open(Ref(NewCell + 1), Ref(NewCell + 2)), Named("FUNC", "QUOTE"), Open(NULL, Nil)>>

\* They are linked one after the other.
Quotation(new) ==
    /\ AreCells(new) /\ DOMAIN new = DOMAIN cell \cup {NewCell, NewCell + 1, NewCell + 2}
    /\ NewCell \notin DOMAIN cell /\ NewCell + 1 \notin DOMAIN cell /\ NewCell + 2 \notin DOMAIN cell
    /\ \A c \in DOMAIN cell : new[c] = cell[c]
    /\ RefsOf(new[NewCell]) = {NewCell + 1, NewCell + 2}
    /\ RefsOf(new[NewCell + 1]) = {} /\ RefsOf(new[NewCell + 2]) = {}
    /\ new[NewCell + 2].type = "OPEN" /\ ~IsRef(new[NewCell + 2].vals[1])

LEMMA QuoteLinks ==
    ASSUME AreCells(cell), NEW new, new = cell \o QuoteCells
    PROVE  Quotation(new)
<1> DEFINE n == NewCell
           a == Open(Ref(n + 1), Ref(n + 2))
           b == Named("FUNC", "QUOTE")
           d == Open(NULL, Nil)
<1>1. PICK S : cell \in Seq(S)
    BY DEF AreCells
<1>2. DOMAIN cell = 1..Len(cell) /\ Len(cell) \in Nat /\ n = Len(cell) + 1
    BY CellDomain DEF NewCell
<1>3. QuoteCells = <<a, b, d>>
    BY DEF QuoteCells
<1>4. /\ IsCell(a) /\ IsCell(b) /\ IsCell(d)
      /\ RefsOf(a) = {n + 1, n + 2} /\ RefsOf(b) = {} /\ RefsOf(d) = {}
      /\ d.type = "OPEN" /\ ~IsRef(d.vals[1])
    BY NewCells, UnboxedRefs
<1> HIDE DEF a, b, d
<1>5. <<a, b, d>> \in Seq({a, b, d}) /\ Len(<<a, b, d>>) = 3
    OBVIOUS
<1>6. cell \in Seq(S \cup {a, b, d}) /\ <<a, b, d>> \in Seq(S \cup {a, b, d})
    BY <1>1, <1>5, SeqMonotonic
<1>7. /\ new \in Seq(S \cup {a, b, d}) /\ Len(new) = Len(cell) + 3
      /\ \A i \in 1..Len(cell) + 3 : new[i] = IF i <= Len(cell) THEN cell[i] ELSE <<a, b, d>>[i - Len(cell)]
    BY <1>3, <1>5, <1>6, ConcatProperties
<1>8. DOMAIN new = 1..Len(cell) + 3
    BY <1>7, LenProperties
<1>9. /\ DOMAIN new = DOMAIN cell \cup {n, n + 1, n + 2}
      /\ n \notin DOMAIN cell /\ n + 1 \notin DOMAIN cell /\ n + 2 \notin DOMAIN cell
    BY <1>2, <1>8
<1>10. new[n] = a /\ new[n + 1] = b /\ new[n + 2] = d
    <2>1. n - Len(cell) = 1 /\ (n + 1) - Len(cell) = 2 /\ (n + 2) - Len(cell) = 3
        BY <1>2
    <2>2. n \in 1..Len(cell) + 3 /\ n + 1 \in 1..Len(cell) + 3 /\ n + 2 \in 1..Len(cell) + 3
          /\ ~(n <= Len(cell)) /\ ~(n + 1 <= Len(cell)) /\ ~(n + 2 <= Len(cell))
        BY <1>2
    <2> QED
        BY <1>7, <2>1, <2>2
<1>11. \A c \in DOMAIN cell : new[c] = cell[c]
    BY <1>2, <1>7
<1>12. ASSUME NEW c \in DOMAIN new PROVE IsCell(new[c]) /\ RefsOf(new[c]) \subseteq DOMAIN new
    <2>1. CASE c \in DOMAIN cell
        BY <1>9, <1>11, <2>1 DEF AreCells
    <2>2. CASE c \in {n, n + 1, n + 2}
        BY <1>4, <1>9, <1>10, <2>2
    <2> QED
        BY <1>9, <2>1, <2>2
<1>13. AreCells(new)
    BY <1>7, <1>12 DEF AreCells
<1> QED
    BY <1>4, <1>9, <1>10, <1>11, <1>13 DEF Quotation

LEMMA MakeQuoteKeeps ==
    ASSUME RootsInv, CellInv, MakeQuote
    PROVE  CellInv'
<1> DEFINE f == Frame("quote", NewCell, NewCell + 2)
<1>1. /\ pc # "ended" /\ Collect /\ cell' = cell \o QuoteCells /\ pc' = "next"
      /\ frames' = Append(frames, f) /\ cstack' = Append(cstack, NewCell)
      /\ UNCHANGED <<ret, status>>
    BY DEF MakeQuote, QuoteCells, AtTree, Push, Bookkeeping
<1>2. f \in FrameType /\ f.val = NewCell /\ f.tmp = NewCell + 2 /\ f.at = "quote"
    BY InvParts, LenProperties DEF Frame, FrameType, AtTypes
<1> HIDE DEF f
<1>3. Quotation(cell')
    BY <1>1, QuoteLinks DEF CellInv
<1>4. /\ AreCells(cell') /\ DOMAIN cell' = DOMAIN cell \cup {NewCell, NewCell + 1, NewCell + 2}
      /\ NewCell \notin DOMAIN cell /\ NewCell + 1 \notin DOMAIN cell /\ NewCell + 2 \notin DOMAIN cell
      /\ \A c \in DOMAIN cell : cell'[c] = cell[c]
      /\ RefsOf(cell'[NewCell]) = {NewCell + 1, NewCell + 2}
      /\ RefsOf(cell'[NewCell + 1]) = {} /\ RefsOf(cell'[NewCell + 2]) = {}
      /\ cell'[NewCell + 2].type = "OPEN" /\ ~IsRef(cell'[NewCell + 2].vals[1])
    BY <1>3 DEF Quotation
<1>5. CellTypes'
    <2>1. Entries(cstack', cell')
        BY <1>1, <1>4, InvParts, EntriesStay
    <2>2. swept' \subseteq DOMAIN cell
        BY <1>1, Collected
    <2> QED
        BY <1>1, <1>4, <2>1, <2>2 DEF CellInv, CellTypes, Entries
<1>6. FramesFrom(Len(frames), {f}) /\ Len(frames) \in Nat
    BY <1>1, <1>2, FrameShapes
<1>7. PICK S : Remains(S)
    BY <1>1, Collected
<1> DEFINE S2 == S \cup {NewCell, NewCell + 1, NewCell + 2}
<1>8. Closed(cell', S2)
    <2>1. S \subseteq DOMAIN cell /\ \A c \in S : RefsOf(cell[c]) \subseteq S
        BY <1>7 DEF Remains, Closed
    <2>2. ASSUME NEW c \in S2 PROVE RefsOf(cell'[c]) \subseteq S2
        <3>1. CASE c \in S
            BY <1>4, <2>1, <3>1
        <3>2. CASE c \in {NewCell, NewCell + 1, NewCell + 2}
            BY <1>4, <3>2
        <3> QED
            BY <3>1, <3>2
    <2>3. S2 \subseteq DOMAIN cell'
        BY <1>4, <2>1
    <2> QED
        BY <2>2, <2>3 DEF Closed
<1>9. S2 \cap swept' = {} /\ HeldBy(S) /\ S \subseteq S2
    <2>1. swept' \subseteq DOMAIN cell
        BY <1>1, Collected
    <2> QED
        BY <1>4, <1>7, <2>1 DEF Remains
<1>10. Grows(cell, cell', NewCell)
    BY <1>4 DEF Grows
<1>11. InFrame(cell', f)
    <2>1. ASSUME NEW T, Closed(cell', T), f.val \in T PROVE f.tmp \in T
        BY <1>2, <1>4, <2>1 DEF Closed
    <2> QED
        BY <1>2, <1>4, <2>1 DEF InFrame
<1>12. \A k \in DOMAIN frames : Roots(k) => frames[k].tmp # NewCell /\ frames[k].tmp # f.tmp
    BY <1>2, <1>4, NewIsApart
<1>13. f.val \in S2
    BY <1>2
<1> HIDE DEF S2
<1>14. PICK F : F = {f}
    OBVIOUS
<1>15. \A g \in F : g.at # "vector" =>
          /\ InFrame(cell', g)
          /\ \A k \in DOMAIN frames : k <= Len(frames) /\ Roots(k) => frames[k].tmp # g.tmp
    BY <1>11, <1>12, <1>14
<1>16. /\ FramesFrom(Len(frames), F)
       /\ \A g \in F : g.at # "vector" => g.val \in S2
       /\ pc' = "return" => CellsOf(ret') \subseteq S2
       /\ \A k \in DOMAIN frames : k <= Len(frames) /\ Roots(k) => frames[k].tmp # NewCell
    BY <1>1, <1>6, <1>12, <1>13, <1>14
<1>17. AreCells(cell')
    BY <1>4
<1> QED
    BY <1>5, <1>6, <1>8, <1>9, <1>10, <1>15, <1>16, <1>17, StepKeeps

\* What StoreKeeps asks of the values.
LEMMA StoreTypes ==
    ASSUME RootsInv, CellInv, Activated, Top.at # "vector", NEW c, NEW i, NEW v,
           cell' = [cell EXCEPT ![c].vals[i] = v], UNCHANGED <<swept, status>>,
           pc' \in {"next", "return"}, CellsOf(ret') \subseteq CellsOf(ret) \cup {Top.val},
           cstack' = cstack \/ cstack' = Pop(cstack)
    PROVE  CellTypes'
<1>1. DOMAIN cell' = DOMAIN cell
    OBVIOUS
<1>2. Top.val \in DOMAIN cell
    BY TopIsApart
<1>3. Entries(cstack', cell)
    BY InvParts, EntriesStay
<1> QED
    BY <1>1, <1>2, <1>3 DEF CellInv, CellTypes, Entries

LEMMA ReturnCarKeeps ==
    ASSUME RootsInv, CellInv, ReturnCar
    PROVE  CellInv'
<1>1. /\ pc = "return" /\ Activated /\ Top.at = "car" /\ UNCHANGED <<swept, cstack, status>>
      /\ cell' = [cell EXCEPT ![Top.tmp].vals[1] = ret]
      /\ IF ret = NULL THEN Return(Nil)
         ELSE pc' = "next" /\ frames' = Append(Below, [Top EXCEPT !.at = "rest"]) /\ UNCHANGED ret
    BY DEF ReturnCar, Returned, SetCar, Bookkeeping
<1>2. ~IsRef(cell[Top.tmp].vals[1]) /\ ~IsRef(cell[Top.tmp].vals[2])
    BY <1>1, TopIsApart DEF InFrame
<1>3. CASE ret = NULL
    <2>1. pc' = "return" /\ ret' = Nil /\ frames' = Below /\ CellsOf(ret') = {}
        BY <1>1, <1>3, UnboxedRefs DEF Return
    <2>2. CellTypes'
        BY <1>1, <2>1, StoreTypes
    <2>3. FramesFrom(Len(frames) - 1, {})
        BY <1>1, <2>1, FrameShapes
    <2> QED
        BY <1>1, <1>2, <2>1, <2>2, <2>3, StoreKeeps
<1>4. CASE ret # NULL
    <2>1. PICK f : f = [Top EXCEPT !.at = "rest"]
        OBVIOUS
    <2>2. f \in FrameType /\ f.at = "rest" /\ f.val = Top.val /\ f.tmp = Top.tmp
        BY <1>1, <2>1, InvParts DEF FrameType, AtTypes
    <2>3. pc' = "next" /\ frames' = Append(Below, f) /\ ret' = ret
        BY <1>1, <1>4, <2>1
    <2>4. CellTypes'
        BY <1>1, <2>3, StoreTypes
    <2>5. FramesFrom(Len(frames) - 1, {f})
        BY <1>1, <2>2, <2>3, FrameShapes
    <2>6. PICK F : F = {f}
        OBVIOUS
    <2>7. /\ FramesFrom(Len(frames) - 1, F)
          /\ \A g \in F : g.val = Top.val /\ g.tmp = Top.tmp /\ g.at # "car" /\ g.at # "quote"
                        /\ (g.at \in {"rest", "cdr"} => ~IsRef(cell[Top.tmp].vals[2]) /\ 1 = 1)
        BY <1>2, <2>2, <2>5, <2>6
    <2>8. UNCHANGED swept /\ 1 \in {1, 2} /\ CellsOf(ret) \subseteq CellsOf(ret)
          /\ (pc' = "return" => CellsOf(ret') \subseteq {Top.val})
        BY <1>1, <2>3
    <2> QED
        BY <1>1, <1>2, <2>4, <2>7, <2>8, StoreKeeps
<1> QED
    BY <1>3, <1>4

LEMMA ReturnLastKeeps ==
    ASSUME RootsInv, CellInv, ReturnLast
    PROVE  CellInv'
<1>1. /\ pc = "return" /\ Activated /\ Top.at = "rest" /\ UNCHANGED <<swept, status>>
      /\ cell' = [cell EXCEPT ![Top.tmp].vals[2] = Nil] /\ cstack' = Pop(cstack)
      /\ pc' = "return" /\ ret' = Ref(Top.val) /\ frames' = Below
    BY DEF ReturnLast, Returned, Return, SetCdr, Bookkeeping
<1>2. ~IsRef(cell[Top.tmp].vals[2])
    BY <1>1, TopIsApart DEF InFrame
<1>3. CellsOf(ret') = {Top.val} /\ CellsOf(Nil) = {}
    BY <1>1, UnboxedRefs
<1>4. CellTypes'
    BY <1>1, <1>3, StoreTypes
<1>5. FramesFrom(Len(frames) - 1, {})
    BY <1>1, FrameShapes
<1> QED
    BY <1>1, <1>2, <1>3, <1>4, <1>5, StoreKeeps

LEMMA ReturnCdrKeeps ==
    ASSUME RootsInv, CellInv, ReturnCdr
    PROVE  CellInv'
<1>1. PICK f : f = [Top EXCEPT !.at = "close"]
    OBVIOUS
<1>2. /\ pc = "return" /\ Activated /\ Top.at = "cdr" /\ UNCHANGED <<swept, status, cstack, ret>>
      /\ cell' = [cell EXCEPT ![Top.tmp].vals[2] = ret]
      /\ pc' = "next" /\ frames' = Append(Below, f)
    BY <1>1 DEF ReturnCdr, Returned, SetCdr, Bookkeeping
<1>3. ~IsRef(cell[Top.tmp].vals[2])
    BY <1>2, TopIsApart DEF InFrame
<1>4. f \in FrameType /\ f.at = "close" /\ f.val = Top.val /\ f.tmp = Top.tmp
    BY <1>1, <1>2, InvParts DEF FrameType, AtTypes
<1>5. CellTypes'
    BY <1>2, StoreTypes
<1>6. FramesFrom(Len(frames) - 1, {f})
    BY <1>2, <1>4, FrameShapes
<1>7. PICK F : F = {f}
    OBVIOUS
<1>8. /\ FramesFrom(Len(frames) - 1, F)
      /\ \A g \in F : g.val = Top.val /\ g.tmp = Top.tmp /\ g.at # "car" /\ g.at # "quote"
                    /\ (g.at \in {"rest", "cdr"} => ~IsRef(cell[Top.tmp].vals[2]) /\ 2 = 1)
    BY <1>4, <1>6, <1>7
<1>9. UNCHANGED swept /\ 2 \in {1, 2} /\ CellsOf(ret) \subseteq CellsOf(ret)
      /\ (pc' = "return" => CellsOf(ret') \subseteq {Top.val})
    BY <1>2
<1> QED
    BY <1>2, <1>3, <1>5, <1>8, <1>9, StoreKeeps

LEMMA ReturnQuoteKeeps ==
    ASSUME RootsInv, CellInv, ReturnQuote
    PROVE  CellInv'
<1>1. /\ pc = "return" /\ Activated /\ Top.at = "quote" /\ UNCHANGED <<swept, status>>
      /\ cell' = [cell EXCEPT ![Top.tmp].vals[1] = ret] /\ cstack' = Pop(cstack)
      /\ pc' = "return" /\ ret' = Ref(Top.val) /\ frames' = Below
    BY DEF ReturnQuote, Returned, Return, SetCar, Bookkeeping
<1>2. ~IsRef(cell[Top.tmp].vals[1])
    BY <1>1, TopIsApart DEF InFrame
<1>3. CellsOf(ret') = {Top.val}
    BY <1>1, UnboxedRefs
<1>4. CellTypes'
    BY <1>1, <1>3, StoreTypes
<1>5. FramesFrom(Len(frames) - 1, {})
    BY <1>1, FrameShapes
<1>6. /\ 1 \in {1, 2} /\ CellsOf(ret) \subseteq CellsOf(ret) /\ CellsOf(ret') \subseteq {Top.val}
      /\ Top.at # "vector"
    BY <1>1, <1>3
<1>7. PICK F : F = {}
    OBVIOUS
<1>8. /\ FramesFrom(Len(frames) - 1, F)
      /\ \A g \in F : g.val = Top.val /\ g.tmp = Top.tmp /\ g.at # "car" /\ g.at # "quote"
                    /\ (g.at \in {"rest", "cdr"} => ~IsRef(cell[Top.tmp].vals[2]) /\ 1 = 1)
    BY <1>5, <1>7
<1> QED
    BY <1>1, <1>2, <1>4, <1>6, <1>8, StoreKeeps

\* The collector has not taken what is returned.
LEMMA ValueRemains ==
    ASSUME RootsInv, CellInv, pc # "ended", Collect, Reach(CellsOf(ret)) \cap swept' = {}
    PROVE  \E S : Remains(S) /\ CellsOf(ret) \subseteq S
<1>1. PICK S : Remains(S)
    BY Collected
<1>2. Reach(CellsOf(ret)) = ReachIn(cell, CellsOf(ret))
    BY ReachIs
<1>3. PICK R : R = Reach(CellsOf(ret))
    OBVIOUS
<1>4. Closed(cell, R) /\ CellsOf(ret) \subseteq R
    BY <1>2, <1>3, ReachClosed DEF CellInv, CellTypes
<1>5. Remains(S \cup R)
    BY <1>1, <1>3, <1>4 DEF Remains, Closed, HeldBy
<1> QED
    BY <1>4, <1>5

\* The form is lost or the process has crashed.
LEMMA EndedKeeps ==
    ASSUME RootsInv, CellInv, pc # "ended", Collect, pc' = "ended",
           status' \in {"crash", "lost", "null"}, UNCHANGED <<cell, frames, ret, cstack>>
    PROVE  CellInv'
<1>1. swept' \subseteq DOMAIN cell
    BY Collected
<1>2. CellTypes'
    BY <1>1 DEF CellInv, CellTypes
<1>3. FramesOK' /\ Apart' /\ AreCells(cell')
    BY DEF CellInv, FramesOK, Apart, Roots
<1> QED
    BY <1>2, <1>3 DEF CellInv, Kept

\* It makes no difference whether the cell is added or linked first.
Link(cl, t, v) == [cl EXCEPT ![t].vals[2] = v]

LEMMA AddThenLink ==
    ASSUME AreCells(cell), NEW t \in DOMAIN cell, NEW x, NEW v, NEW mid, mid = Append(cell, x)
    PROVE  Append(Link(cell, t, v), x) = Link(mid, t, v)
<1>1. PICK S : cell \in Seq(S)
    BY DEF AreCells
<1>2. PICK y : y = [cell[t] EXCEPT !.vals[2] = v]
    OBVIOUS
<1>3. PICK T : T = S \cup {x, y}
    OBVIOUS
<1>4. cell \in Seq(T) /\ x \in T /\ y \in T
    BY <1>1, <1>3, SeqMonotonic
<1>5. DOMAIN cell = 1..Len(cell) /\ Len(cell) \in Nat
    BY CellDomain
<1>6. PICK l : l = [cell EXCEPT ![t] = y]
    OBVIOUS
<1>7. l \in Seq(T) /\ Len(l) = Len(cell) /\ l[t] = y /\ \A c \in DOMAIN cell : c # t => l[c] = cell[c]
    BY <1>4, <1>5, <1>6, ExceptSeq
<1>8. PICK a : a = Append(l, x)
    OBVIOUS
<1>9. a \in Seq(T) /\ Len(a) = Len(cell) + 1 /\ a[Len(cell) + 1] = x /\ \A c \in DOMAIN cell : a[c] = l[c]
    BY <1>4, <1>5, <1>7, <1>8, AppendProperties
<1>10. /\ mid \in Seq(T) /\ Len(mid) = Len(cell) + 1 /\ mid[Len(cell) + 1] = x
       /\ \A c \in DOMAIN cell : mid[c] = cell[c]
    BY <1>4, <1>5, AppendProperties
<1>11. PICK b : b = [mid EXCEPT ![t] = y]
    OBVIOUS
<1>12. t \in 1..Len(mid) /\ DOMAIN mid = 1..Len(mid)
    BY <1>5, <1>10, LenProperties
<1>13. b \in Seq(T) /\ Len(b) = Len(mid) /\ b[t] = y /\ \A c \in 1..Len(mid) : c # t => b[c] = mid[c]
    <2>1. ASSUME NEW m \in Seq(T), t \in 1..Len(m)
          PROVE  /\ [m EXCEPT ![t] = y] \in Seq(T) /\ Len([m EXCEPT ![t] = y]) = Len(m)
                 /\ [m EXCEPT ![t] = y][t] = y
                 /\ \A c \in 1..Len(m) : c # t => [m EXCEPT ![t] = y][c] = m[c]
        BY <1>4, <2>1, ExceptSeq
    <2> QED
        BY <1>10, <1>11, <1>12, <2>1
<1>14. ASSUME NEW c \in 1..Len(a) PROVE a[c] = b[c]
    <2>1. c \in 1..Len(mid) /\ (c \in DOMAIN cell \/ c = Len(cell) + 1)
        BY <1>5, <1>9, <1>10
    <2>2. Len(cell) + 1 # t
        BY <1>5
    <2> QED
        BY <1>7, <1>9, <1>10, <1>13, <2>1, <2>2
<1>15. a = b
    BY <1>9, <1>10, <1>13, <1>14, SeqEqual
<1>16. l = Link(cell, t, v)
    BY <1>2, <1>6 DEF Link
<1>17. b = Link(mid, t, v)
    BY <1>2, <1>10, <1>11 DEF Link
<1> QED
    BY <1>8, <1>15, <1>16, <1>17

\* A further cell of a list.
Linked(t, x) ==
    /\ AreCells(cell') /\ DOMAIN cell' = DOMAIN cell \cup {NewCell} /\ NewCell \notin DOMAIN cell
    /\ Grows(cell, cell', t) /\ cell'[NewCell] = x /\ NewCell \in RefsOf(cell'[t])
    /\ \A S : Closed(cell, S) /\ CellsOf(ret) \subseteq S => Closed(cell', S \cup {NewCell})

LEMMA ElementLinked ==
    ASSUME AreCells(cell), NEW t \in DOMAIN cell, cell[t].type = "OPEN", ~IsRef(cell[t].vals[2]),
           CellsOf(ret) \subseteq DOMAIN cell, NEW x, x = Open(ret, NULL),
           cell' = Append([cell EXCEPT ![t].vals[2] = Ref(NewCell)], x)
    PROVE  Linked(t, x)
<1>1. IsCell(x) /\ RefsOf(x) = CellsOf(ret)
    <2>1. CellsOf(NULL) = {}
        BY UnboxedRefs
    <2>2. IsCell(Open(ret, NULL)) /\ RefsOf(Open(ret, NULL)) = CellsOf(ret) \cup CellsOf(NULL)
        BY NewCells
    <2> QED
        BY <2>1, <2>2
<1>2. PICK mid : mid = Append(cell, x)
    OBVIOUS
<1>3. Added(cell, mid, x)
    BY <1>1, <1>2, AddsCell
<1>4. /\ AreCells(mid) /\ DOMAIN mid = DOMAIN cell \cup {NewCell} /\ NewCell \notin DOMAIN cell
      /\ mid[NewCell] = x /\ \A c \in DOMAIN cell : mid[c] = cell[c]
    BY <1>3, NewIsLast DEF Added
<1>5. PICK v : v = Ref(NewCell)
    OBVIOUS
<1>6. Append(Link(cell, t, v), x) = Link(mid, t, v)
    BY <1>2, AddThenLink
<1>7. cell' = [mid EXCEPT ![t].vals[2] = v]
    BY <1>5, <1>6 DEF Link
<1>8. CellsOf(v) = {NewCell}
    BY <1>5, UnboxedRefs
<1>9. t \in DOMAIN mid /\ mid[t].type = "OPEN" /\ ~IsRef(mid[t].vals[2])
    BY <1>4
<1>10. CellsOf(v) \subseteq DOMAIN mid /\ AreCells(mid)
    BY <1>4, <1>8
<1>11. Stored(mid, cell', t, 2, v)
    <2>1. Stored(mid, [mid EXCEPT ![t].vals[2] = v], t, 2, v)
        BY <1>9, <1>10, StoresValue
    <2> QED
        BY <1>7, <2>1
<1>12. Grows(mid, cell', t) /\ Takes(mid, cell', v)
    BY <1>9, <1>11, StoredGrows
<1>13. Grows(cell, cell', t)
    BY <1>4, <1>12 DEF Grows
<1>14. cell'[NewCell] = x /\ NewCell \in RefsOf(cell'[t]) /\ AreCells(cell') /\ DOMAIN cell' = DOMAIN mid
    BY <1>4, <1>8, <1>11 DEF Stored
<1>15. ASSUME NEW S, Closed(cell, S), CellsOf(ret) \subseteq S PROVE Closed(cell', S \cup {NewCell})
    <2>1. Closed(mid, S \cup {NewCell})
        BY <1>1, <1>4, <1>15 DEF Closed
    <2> QED
        BY <1>8, <1>12, <2>1 DEF Takes
<1> QED
    BY <1>4, <1>13, <1>14, <1>15 DEF Linked

LEMMA ReturnElementKeeps ==
    ASSUME RootsInv, CellInv, ReturnElement
    PROVE  CellInv'
<1>1. /\ pc = "return" /\ Activated /\ Top.at = "rest" /\ Collect /\ UNCHANGED <<ret, cstack>>
      /\ IF Reach(CellsOf(ret)) \cap swept' # {}
         THEN /\ pc' = "ended" /\ status' = "lost" /\ UNCHANGED <<cell, frames>>
         ELSE /\ cell' = Append([cell EXCEPT ![Top.tmp].vals[2] = Ref(NewCell)], Open(ret, NULL))
              /\ frames' = Append(Below, [Top EXCEPT !.tmp = NewCell])
              /\ pc' = "next" /\ UNCHANGED status
    BY DEF ReturnElement, Returned
<1>2. CASE Reach(CellsOf(ret)) \cap swept' # {}
    BY <1>1, <1>2, EndedKeeps
<1>3. CASE Reach(CellsOf(ret)) \cap swept' = {}
    <2>1. PICK x : x = Open(ret, NULL)
        OBVIOUS
    <2>2. PICK f : f = [Top EXCEPT !.tmp = NewCell]
        OBVIOUS
    <2>3. PICK t : t = Top.tmp
        OBVIOUS
    <2>4. /\ cell' = Append([cell EXCEPT ![t].vals[2] = Ref(NewCell)], x)
          /\ frames' = Append(Below, f) /\ pc' = "next" /\ UNCHANGED status
        BY <1>1, <1>3, <2>1, <2>2, <2>3
    <2>5. f \in FrameType /\ f.at = "rest" /\ f.val = Top.val /\ f.tmp = NewCell
        BY <1>1, <2>2, InvParts DEF FrameType
    <2>6. /\ InFrame(cell, Top) /\ t \in DOMAIN cell /\ Top.val \in DOMAIN cell
          /\ \A k \in DOMAIN frames : k <= Len(frames) - 1 /\ Roots(k) => frames[k].tmp # t
        BY <1>1, <2>3, TopIsApart
    <2>7. /\ cell[t].type = "OPEN" /\ ~IsRef(cell[t].vals[2])
          /\ \A S : Closed(cell, S) /\ Top.val \in S => t \in S
        BY <1>1, <2>3, <2>6 DEF InFrame
    <2>8. Linked(t, x)
        BY <2>1, <2>4, <2>6, <2>7, ElementLinked DEF CellInv, CellTypes
    <2>9. /\ AreCells(cell') /\ DOMAIN cell' = DOMAIN cell \cup {NewCell} /\ NewCell \notin DOMAIN cell
          /\ Grows(cell, cell', t) /\ cell'[NewCell] = x /\ NewCell \in RefsOf(cell'[t])
        BY <2>8 DEF Linked
    <2>10. x.type = "OPEN" /\ ~IsRef(x.vals[2])
        BY <2>1, NewCells, UnboxedRefs
    <2>11. InFrame(cell', f)
        <3>1. ASSUME NEW T, Closed(cell', T), f.val \in T PROVE f.tmp \in T
            <4>1. Closed(cell, T \cap DOMAIN cell)
                BY <2>9, <3>1, ClosedBefore DEF CellInv
            <4>2. t \in T
                BY <2>5, <2>6, <2>7, <3>1, <4>1
            <4> QED
                BY <2>5, <2>9, <3>1, <4>2 DEF Closed
        <3> QED
            BY <2>5, <2>6, <2>9, <2>10, <3>1 DEF InFrame
    <2>12. PICK S : Remains(S) /\ CellsOf(ret) \subseteq S
        BY <1>1, <1>3, ValueRemains
    <2>13. PICK S2 : S2 = S \cup {NewCell}
        OBVIOUS
    <2>14. Closed(cell', S2)
        BY <2>8, <2>12, <2>13 DEF Linked, Remains
    <2>15. swept' \subseteq DOMAIN cell
        BY <1>1, Collected
    <2>16. HeldBy(S) /\ S \subseteq S2 /\ S2 \cap swept' = {} /\ Top.val \in S2
        BY <1>1, <2>9, <2>12, <2>13, <2>15, TopIsApart DEF Remains
    <2>17. CellTypes'
        BY <1>1, <2>4, <2>9, <2>15 DEF CellInv, CellTypes
    <2>18. Len(frames) - 1 \in Nat /\ FramesFrom(Len(frames) - 1, {f})
        BY <1>1, <2>4, <2>5, FrameShapes
    <2>19. \A k \in DOMAIN frames : Roots(k) => frames[k].tmp # NewCell
        BY <2>9, NewIsApart
    <2>20. PICK F : F = {f}
        OBVIOUS
    <2>21. \A g \in F : g.at # "vector" =>
              /\ InFrame(cell', g)
              /\ \A k \in DOMAIN frames : k <= Len(frames) - 1 /\ Roots(k) => frames[k].tmp # g.tmp
        BY <2>5, <2>11, <2>19, <2>20
    <2>22. /\ FramesFrom(Len(frames) - 1, F)
           /\ \A g \in F : g.at # "vector" => g.val \in S2
           /\ pc' = "return" => CellsOf(ret') \subseteq S2
        BY <2>4, <2>5, <2>16, <2>18, <2>20
    <2> QED
        BY <2>6, <2>9, <2>14, <2>16, <2>17, <2>18, <2>21, <2>22, StepKeeps
<1> QED
    BY <1>2, <1>3

\* A vector is made of the elements of a list that is still there.
VectorMade ==
    \E elements :
        /\ elements = [k \in DOMAIN ListCells(ret).conses |-> cell[ListCells(ret).conses[k]].vals[1]]
        /\ cell' = Append(cell, Vector(elements))

LEMMA ReturnVectorKeeps ==
    ASSUME RootsInv, CellInv, ReturnVector
    PROVE  CellInv'
<1>1. pc = "return" /\ pc # "ended" /\ Activated
    BY DEF ReturnVector, Returned
<1>2. \/ Throw
      \/ /\ Collect /\ pc' = "ended" /\ status' \in {"crash", "lost", "null"}
         /\ UNCHANGED <<cell, frames, ret, cstack>>
      \/ /\ Collect /\ Reach(CellsOf(ret)) \cap swept' = {} /\ VectorMade
         /\ Return(Ref(NewCell)) /\ UNCHANGED <<status, cstack>>
    BY DEF ReturnVector, VectorMade
<1>3. CASE Throw
    BY <1>1, <1>3, ThrowKeeps
<1>4. CASE /\ Collect /\ pc' = "ended" /\ status' \in {"crash", "lost", "null"}
           /\ UNCHANGED <<cell, frames, ret, cstack>>
    BY <1>1, <1>4, EndedKeeps
<1>5. CASE /\ Collect /\ Reach(CellsOf(ret)) \cap swept' = {} /\ VectorMade
           /\ Return(Ref(NewCell)) /\ UNCHANGED <<status, cstack>>
    <2>1. PICK elements :
              /\ elements = [k \in DOMAIN ListCells(ret).conses |-> cell[ListCells(ret).conses[k]].vals[1]]
              /\ cell' = Append(cell, Vector(elements))
        BY <1>5 DEF VectorMade
    <2>2. PICK x : x = Vector(elements)
        OBVIOUS
    <2>3. PICK S : Remains(S) /\ CellsOf(ret) \subseteq S
        BY <1>1, <1>5, ValueRemains
    <2>4. AreCells(cell) /\ Closed(cell, S) /\ HeldBy(S) /\ S \cap swept' = {}
        BY <2>3 DEF CellInv, Remains
    <2>5. IsCell(x) /\ RefsOf(x) \subseteq S
        BY <2>1, <2>2, <2>3, <2>4, ElementsReached
    <2>6. RefsOf(x) \subseteq DOMAIN cell
        BY <2>4, <2>5 DEF Closed
    <2>7. Added(cell, cell', x)
        BY <2>1, <2>2, <2>4, <2>5, <2>6, AddsCell
    <2>8. /\ Grows(cell, cell', NewCell) /\ Closed(cell', S) /\ AreCells(cell')
          /\ NewCell \notin DOMAIN cell /\ DOMAIN cell' = DOMAIN cell \cup {NewCell} /\ cell'[NewCell] = x
        BY <2>4, <2>7, AddedGrows, NewIsLast DEF Added
    <2>9. PICK S2 : S2 = S \cup {NewCell}
        OBVIOUS
    <2>10. Closed(cell', S2)
        BY <2>5, <2>8, <2>9 DEF Closed
    <2>11. swept' \subseteq DOMAIN cell
        BY <1>1, <1>5, Collected
    <2>12. S \subseteq S2 /\ S2 \cap swept' = {}
        BY <2>4, <2>8, <2>9, <2>11
    <2>13. pc' = "return" /\ ret' = Ref(NewCell) /\ frames' = Below /\ CellsOf(ret') = {NewCell}
        BY <1>5, UnboxedRefs DEF Return
    <2>14. CellTypes'
        BY <1>5, <2>8, <2>11, <2>13 DEF CellInv, CellTypes
    <2>15. PICK F : F = {}
        OBVIOUS
    <2>16. Len(frames) - 1 \in Nat /\ FramesFrom(Len(frames) - 1, F)
        BY <1>1, <2>13, <2>15, FrameShapes
    <2>17. \A k \in DOMAIN frames : k <= Len(frames) - 1 /\ Roots(k) => frames[k].tmp # NewCell
        BY <2>8, NewIsApart
    <2>18. \A f \in F : f.at # "vector" =>
              /\ InFrame(cell', f)
              /\ \A k \in DOMAIN frames : k <= Len(frames) - 1 /\ Roots(k) => frames[k].tmp # f.tmp
        BY <2>15
    <2>19. /\ \A f \in F : f.at # "vector" => f.val \in S2
           /\ pc' = "return" => CellsOf(ret') \subseteq S2
        BY <2>9, <2>13, <2>15
    <2> QED
        BY <2>4, <2>8, <2>10, <2>12, <2>14, <2>16, <2>17, <2>18, <2>19, StepKeeps
<1> QED
    BY <1>2, <1>3, <1>4, <1>5

-----------------------------------------------------------------------------

LEMMA InitCells == Init => CellInv
<1> SUFFICES ASSUME Init PROVE CellInv
    OBVIOUS
<1>1. cell \in Seq({}) /\ DOMAIN cell = {} /\ DOMAIN frames = {} /\ DOMAIN cstack = {}
    BY EmptySeq DEF Init
<1>2. AreCells(cell)
    BY <1>1 DEF AreCells
<1>3. CellsOf(ret) = {}
    BY UnboxedRefs DEF Init
<1>4. CellTypes
    BY <1>1, <1>3 DEF Init, CellTypes
<1>5. Safe({})
    BY <1>1 DEF Init, Safe, Closed, HeldBy
<1> QED
    BY <1>1, <1>2, <1>4, <1>5 DEF CellInv, FramesOK, Apart, Kept

LEMMA NextCells ==
    ASSUME RootsInv, CellInv, [Next]_vars
    PROVE  CellInv'
<1>1. CASE ParseProgram \/ ReturnProgram \/ ExecThrows
    BY <1>1, ProgramStepsKeep
<1>2. CASE GetToken
    BY <1>2, TokenStepKeeps
<1>3. CASE MakeConsList
    BY <1>3, MakeConsListKeeps
<1>4. CASE MakeQuote
    BY <1>4, MakeQuoteKeeps
<1>5. CASE EnterVector \/ MakeUnboxed \/ MakeClose \/ Unexpected
    BY <1>5, PlainTreeStepsKeep
<1>6. CASE MakeNamed
    BY <1>6, MakeNamedKeeps
<1>7. CASE ReturnCar
    BY <1>7, ReturnCarKeeps
<1>8. CASE ReturnLast
    BY <1>8, ReturnLastKeeps
<1>9. CASE ReturnElement
    BY <1>9, ReturnElementKeeps
<1>10. CASE ReturnCdr
    BY <1>10, ReturnCdrKeeps
<1>11. CASE ReturnQuote
    BY <1>11, ReturnQuoteKeeps
<1>12. CASE ReturnVector
    BY <1>12, ReturnVectorKeeps
<1>13. CASE UNCHANGED vars
    <2>1. UNCHANGED <<pc, frames, ret, cell, swept, cstack, status>>
        BY <1>13 DEF vars
    <2> QED
        BY <2>1 DEF CellInv, CellTypes, FramesOK, Apart, Kept, Safe, HeldBy, Roots
<1> QED
    BY <1>1, <1>2, <1>3, <1>4, <1>5, <1>6, <1>7, <1>8, <1>9, <1>10, <1>11, <1>12, <1>13 DEF Next

\* What is reached from cells of a closed set is in it.
LEMMA CellsAreKept ==
    ASSUME RootsInv, CellInv
    PROVE  CellsKept
<1>1. \A c \in DOMAIN cell : Children(c) \subseteq DOMAIN cell
    BY DEF CellInv, AreCells, Children, RefsOf
<1>2. ASSUME NEW k \in DOMAIN frames
      PROVE  /\ frames[k].at \in {"car", "rest", "cdr", "close", "quote", "vector"}
             /\ frames[k].val \in DOMAIN cell \/ frames[k].at = "vector"
    <2>1. frames[k] \in FrameType
        BY LenProperties DEF RootsInv, RootsType
    <2> QED
        BY <2>1 DEF FrameType, AtTypes, CellInv, FramesOK, InFrame, Roots
<1>3. TypeOK
    BY <1>1, <1>2 DEF TypeOK, CellInv, CellTypes
<1>4. ASSUME pc # "ended" PROVE NothingElseLost
    <2>1. PICK S : Safe(S)
        BY <1>4 DEF CellInv, Kept
    <2>2. AreCells(cell) /\ Closed(cell, S) /\ S \cap swept = {}
        BY <2>1 DEF CellInv, Safe
    <2>3. ASSUME NEW roots, roots \subseteq S PROVE Reach(roots) \cap swept = {}
        BY <2>2, <2>3, ReachIs, ReachLeast
    <2>4. ASSUME NEW k \in DOMAIN frames, frames[k].at # "vector"
          PROVE  {frames[k].val, frames[k].tmp} \subseteq S
        <3>1. Roots(k) /\ frames[k].val \in S
            BY <2>1, <2>4 DEF Safe, HeldBy, Roots
        <3>2. frames[k].tmp \in S
            BY <2>2, <3>1 DEF CellInv, FramesOK, InFrame
        <3> QED
            BY <3>1, <3>2
    <2>5. pc = "return" => CellsOf(ret) \subseteq S
        BY <2>1 DEF Safe
    <2> QED
        BY <2>3, <2>4, <2>5 DEF NothingElseLost
<1> QED
    BY <1>3, <1>4 DEF CellsKept, NothingElseLost

(* No cell that the reader still holds is swept, neither those of a list   *)
(* or quotation in the making nor what it is about to return, and every    *)
(* reference names an allocated cell.                                      *)
THEOREM ReaderKeepsItsCells == Spec => []CellsKept
<1>1. Init => RootsInv /\ CellInv
    BY InitRoots, InitCells
<1>2. RootsInv /\ CellInv /\ [Next]_vars => RootsInv' /\ CellInv'
    BY NextRoots, NextCells
<1>3. RootsInv /\ CellInv => CellsKept
    BY CellsAreKept
<1> QED
    BY <1>1, <1>2, <1>3, PTL DEF Spec

-----------------------------------------------------------------------------
(* The characters of a text.                                               *)

IsText(t) == \E S : t \in Seq(S) /\ NUL \notin S
Positions(t) == 1..Len(t) + 1

LEMMA TextIs ==
    ASSUME NEW t, IsText(t)
    PROVE  /\ Len(t) \in Nat
           /\ \A p \in 1..Len(t) : At(t, p) = t[p] /\ At(t, p) # NUL
           /\ At(t, Len(t) + 1) = NUL
<1>1. Len(t) \in Nat /\ \A p \in 1..Len(t) : t[p] # NUL
    BY DEF IsText
<1>2. \A p \in 1..Len(t) : p # Len(t) + 1
    BY <1>1
<1> QED
    BY <1>1, <1>2 DEF At

\* A walk up to the first place of a set.
LEMMA FirstPlace ==
    ASSUME NEW a \in Int, NEW S, NEW b \in Int, a <= b, b \in S
    PROVE  \E q \in a..b : q \in S /\ \A r \in a..(q - 1) : r \notin S
<1>1. SUFFICES ASSUME \A q \in a..b : q \in S => \E r \in a..(q - 1) : r \in S
               PROVE  FALSE
    OBVIOUS
<1> DEFINE Good == {n \in Nat : \A r \in a..(a + n) : r <= b => r \notin S}
<1>2. 0 \in Good
    <2>1. a \notin S
        BY <1>1
    <2> QED
        BY <2>1
<1>3. ASSUME NEW n \in Nat, n \in Good PROVE n + 1 \in Good
    <2>1. ASSUME NEW r \in a..(a + (n + 1)), r <= b, r \in S PROVE FALSE
        <3>1. PICK s \in a..(r - 1) : s \in S
            BY <1>1, <2>1
        <3>2. s \in a..(a + n) /\ s <= b
            BY <2>1, <3>1
        <3> QED
            BY <1>3, <3>1, <3>2
    <2> QED
        BY <2>1
<1>4. Nat \subseteq Good
    <2> HIDE DEF Good
    <2> QED
        BY <1>2, <1>3, Induction
<1>5. b - a \in Nat /\ b \in a..(a + (b - a))
    OBVIOUS
<1>6. b - a \in Good
    BY <1>4, <1>5
<1> QED
    BY <1>5, <1>6

\* q is the first position from p on whose character is in S.
FirstIn(t, p, S, q) ==
    q \in p..Len(t) + 1 /\ At(t, q) \in S /\ \A r \in p..q - 1 : At(t, r) \notin S

FirstOut(t, p, S, q) ==
    q \in p..Len(t) + 1 /\ At(t, q) \notin S /\ \A r \in p..q - 1 : At(t, r) \in S

LEMMA FindIs ==
    ASSUME NEW t, IsText(t), NEW p \in Positions(t), NEW S, NUL \in S
    PROVE  FirstIn(t, p, S, Find(t, p, S))
<1> DEFINE F == {q \in p..Len(t) + 1 : At(t, q) \in S}
<1>1. Len(t) + 1 \in Int /\ p \in Int /\ p <= Len(t) + 1 /\ Len(t) + 1 \in F
    BY TextIs DEF Positions
<1>2. PICK q \in p..(Len(t) + 1) : q \in F /\ \A r \in p..(q - 1) : r \notin F
    <2> HIDE DEF F
    <2> QED
        BY <1>1, FirstPlace
<1>3. \A r \in p..(q - 1) : r \in p..Len(t) + 1
    BY <1>1, <1>2
<1>4. FirstIn(t, p, S, q)
    BY <1>2, <1>3 DEF FirstIn
<1> QED
    BY <1>4 DEF FirstIn, Find

LEMMA SkipIs ==
    ASSUME NEW t, IsText(t), NEW p \in Positions(t), NEW S, NUL \notin S
    PROVE  FirstOut(t, p, S, SkipAll(t, p, S))
<1> DEFINE F == {q \in p..Len(t) + 1 : At(t, q) \notin S}
<1>1. Len(t) + 1 \in Int /\ p \in Int /\ p <= Len(t) + 1 /\ Len(t) + 1 \in F
    BY TextIs DEF Positions
<1>2. PICK q \in p..(Len(t) + 1) : q \in F /\ \A r \in p..(q - 1) : r \notin F
    <2> HIDE DEF F
    <2> QED
        BY <1>1, FirstPlace
<1>3. \A r \in p..(q - 1) : r \in p..Len(t) + 1
    BY <1>1, <1>2
<1>4. FirstOut(t, p, S, q)
    BY <1>2, <1>3 DEF FirstOut
<1> QED
    BY <1>4 DEF FirstOut, SkipAll

\* There is only one first position, also of another text with the same characters there.
LEMMA FirstInOnce ==
    ASSUME NEW t, IsText(t), NEW p \in Positions(t), NEW S, NEW q, FirstIn(t, p, S, q),
           NEW u, IsText(u), NEW r, FirstIn(u, p, S, r), Len(t) <= Len(u),
           \A k \in p..q : At(u, k) \in S <=> At(t, k) \in S
    PROVE  r = q
<1>1. p \in Int /\ q \in Int /\ r \in Int /\ p <= q /\ p <= r
    BY TextIs DEF FirstIn, Positions
<1>2. CASE r < q
    <2>1. r \in p..q - 1 /\ r \in p..q
        BY <1>1, <1>2
    <2> QED
        BY <2>1 DEF FirstIn
<1>3. CASE q < r
    <2>1. q \in p..r - 1 /\ q \in p..q
        BY <1>1, <1>3
    <2> QED
        BY <2>1 DEF FirstIn
<1> QED
    BY <1>1, <1>2, <1>3

LEMMA FirstOutOnce ==
    ASSUME NEW t, IsText(t), NEW p \in Positions(t), NEW S, NEW q, FirstOut(t, p, S, q),
           NEW u, IsText(u), NEW r, FirstOut(u, p, S, r), Len(t) <= Len(u),
           \A k \in p..q : At(u, k) \in S <=> At(t, k) \in S
    PROVE  r = q
<1>1. p \in Int /\ q \in Int /\ r \in Int /\ p <= q /\ p <= r
    BY TextIs DEF FirstOut, Positions
<1>2. CASE r < q
    <2>1. r \in p..q - 1 /\ r \in p..q
        BY <1>1, <1>2
    <2> QED
        BY <2>1 DEF FirstOut
<1>3. CASE q < r
    <2>1. q \in p..r - 1 /\ q \in p..q
        BY <1>1, <1>3
    <2> QED
        BY <2>1 DEF FirstOut
<1> QED
    BY <1>1, <1>2, <1>3

-----------------------------------------------------------------------------
(* Recursion from the end of a text: what is defined at a position from    *)
(* what is defined behind it.                                              *)

LEMMA Backwards ==
    ASSUME NEW n \in Nat, NEW S, \A q \in 1..n : (\A r \in (q + 1)..n : r \in S) => q \in S
    PROVE  1..n \subseteq S
<1> DEFINE Good == {d \in Nat : \A r \in (n - d + 1)..n : r \in 1..n => r \in S}
<1>1. 0 \in Good
    OBVIOUS
<1>2. ASSUME NEW d \in Nat, d \in Good PROVE d + 1 \in Good
    <2>1. ASSUME NEW r \in (n - (d + 1) + 1)..n, r \in 1..n PROVE r \in S
        <3>1. \A s \in (r + 1)..n : s \in (n - d + 1)..n /\ s \in 1..n
            BY <2>1
        <3>2. \A s \in (r + 1)..n : s \in S
            BY <1>2, <3>1
        <3> QED
            BY <2>1, <3>2
    <2> QED
        BY <2>1
<1>3. Nat \subseteq Good
    <2> HIDE DEF Good
    <2> QED
        BY <1>1, <1>2, Induction
<1>4. n \in Good
    BY <1>3
<1> QED
    BY <1>4

\* Where the places lead on to: 0 is nowhere.
LeadsOn(next, n) == next \in [1..n -> Nat] /\ \A q \in 1..n : next[q] # 0 => q < next[q] /\ next[q] <= n

Leads(f, n, next, stop, op) ==
    f = [q \in 1..n |-> IF next[q] = 0 THEN stop[q] ELSE op[<<stop[q], f[next[q]]>>]]

LEMMA Descending ==
    ASSUME NEW n \in Nat, NEW next, LeadsOn(next, n),
           NEW V, NEW stop \in [1..n -> V], NEW op \in [V \X V -> V]
    PROVE  \E f \in [1..n -> V] : Leads(f, n, next, stop, op)
<1> DEFINE At1(f, q) == IF next[q] = 0 THEN stop[q] ELSE op[<<stop[q], f[next[q]]>>]
           Good == {d \in Nat : d <= n => \E f \in [(n - d + 1)..n -> V] :
                                              \A q \in (n - d + 1)..n : f[q] = At1(f, q)}
<1>1. 0 \in Good
    <2>1. (n - 0 + 1)..n = {}
        OBVIOUS
    <2>2. PICK f : f = [q \in (n - 0 + 1)..n |-> stop[q]]
        OBVIOUS
    <2>3. f \in [(n - 0 + 1)..n -> V] /\ \A q \in (n - 0 + 1)..n : f[q] = At1(f, q)
        BY <2>1, <2>2
    <2> QED
        BY <2>3
<1>2. ASSUME NEW d \in Nat, d \in Good, d + 1 <= n PROVE d + 1 \in Good
    <2>1. PICK f \in [(n - d + 1)..n -> V] : \A q \in (n - d + 1)..n : f[q] = At1(f, q)
        BY <1>2
    <2>2. PICK p : p = n - d
        OBVIOUS
    <2>3. p \in 1..n /\ (n - d + 1)..n = (p + 1)..n /\ (n - (d + 1) + 1)..n = p..n
        BY <1>2, <2>2
    <2>4. PICK h : h = [q \in p..n |-> IF q = p THEN At1(f, p) ELSE f[q]]
        OBVIOUS
    <2>5. At1(f, p) \in V
        <3>1. CASE next[p] = 0
            BY <2>3, <3>1
        <3>2. CASE next[p] # 0
            <4>1. next[p] \in (p + 1)..n
                BY <2>3, <3>2 DEF LeadsOn
            <4>2. f[next[p]] \in V /\ stop[p] \in V
                BY <2>1, <2>3, <4>1
            <4> QED
                BY <3>2, <4>2
        <3> QED
            BY <3>1, <3>2
    <2>6. \A q \in (p + 1)..n : q \in p..n /\ q # p /\ q \in 1..n
        BY <2>3
    <2>7. h \in [p..n -> V]
        <3> HIDE DEF At1
        <3>1. \A q \in p..n : q = p \/ q \in (p + 1)..n
            BY <2>3
        <3>2. \A q \in p..n : (IF q = p THEN At1(f, p) ELSE f[q]) \in V
            BY <2>1, <2>3, <2>5, <3>1
        <3> QED
            BY <2>4, <3>2
    <2>8. ASSUME NEW q \in p..n PROVE h[q] = At1(h, q)
        <3>1. q \in 1..n /\ (q = p \/ q \in (p + 1)..n)
            BY <2>3
        <3>2. next[q] # 0 => next[q] \in (p + 1)..n
            BY <3>1, <2>3 DEF LeadsOn
        <3>3. next[q] # 0 => h[next[q]] = f[next[q]]
            BY <3>2, <2>4, <2>6
        <3>4. At1(h, q) = At1(f, q)
            BY <3>3
        <3>5. h[q] = At1(f, q)
            <4> HIDE DEF At1
            <4> QED
                BY <2>1, <2>3, <2>4, <2>6, <3>1
        <3> QED
            BY <3>4, <3>5
    <2>9. h \in [(n - (d + 1) + 1)..n -> V] /\ \A q \in (n - (d + 1) + 1)..n : h[q] = At1(h, q)
        <3> HIDE DEF At1
        <3> QED
            BY <2>3, <2>7, <2>8
    <2> QED
        <3> HIDE DEF At1
        <3> QED
            BY <2>9
<1>3. ASSUME NEW d \in Nat, d \in Good PROVE d + 1 \in Good
    <2>1. CASE d + 1 <= n
        <3> HIDE DEF Good
        <3> QED
            BY <1>2, <1>3, <2>1
    <2>2. CASE ~(d + 1 <= n)
        <3> HIDE DEF At1
        <3> QED
            BY <2>2
    <2> QED
        BY <2>1, <2>2
<1>4. n \in Good
    <2>1. Nat \subseteq Good
        <3> HIDE DEF Good
        <3> QED
            BY <1>1, <1>3, Induction
    <2> QED
        BY <2>1
<1>5. PICK f \in [(n - n + 1)..n -> V] : \A q \in (n - n + 1)..n : f[q] = At1(f, q)
    BY <1>4
<1>6. (n - n + 1)..n = 1..n
    OBVIOUS
<1>7. f \in [1..n -> V] /\ f = [q \in 1..n |-> At1(f, q)]
    <2> HIDE DEF At1
    <2> QED
        BY <1>5, <1>6
<1> QED
    BY <1>7 DEF Leads

-----------------------------------------------------------------------------
(* Blanks and comments.                                                    *)

\* Characters and sets of them that the solvers need not look into.
IsComment(c) == c = ";"
LineEnds == {"\n", NUL}

LEMMA Characters ==
    /\ NUL \notin Spaces /\ NUL \notin Digits /\ ~IsComment(NUL)
    /\ NUL \in LineEnds /\ NUL \in Delimiters
    /\ \A c : IsComment(c) => c \notin LineEnds
    BY Zenon DEF Spaces, Digits, IsComment, LineEnds, Delimiters, NUL

LEMMA SkipLineIs ==
    \A t, s : SkipLine(t, s) = IF At(t, Find(t, s, LineEnds)) = NUL THEN Find(t, s, LineEnds)
                               ELSE Find(t, s, LineEnds) + 1
    BY Zenon DEF SkipLine, LineEnds

\* TokenStart at all positions.
Starts(t) ==
    LET start[q \in 1..Len(t) + 1] ==
            LET s == SkipAll(t, q, Spaces)
            IN  IF At(t, s) = ";" THEN start[SkipLine(t, s)] ELSE s
    IN  start

\* skip_line goes forward, up to the terminator at most.
LEMMA SkipLineForward ==
    ASSUME NEW t, IsText(t), NEW s \in Positions(t), IsComment(At(t, s))
    PROVE  SkipLine(t, s) \in Positions(t) /\ s < SkipLine(t, s)
<1> DEFINE e == Find(t, s, LineEnds)
<1>1. FirstIn(t, s, LineEnds, e)
    BY FindIs, Characters
<1> HIDE DEF e
<1>2. e \in s..Len(t) + 1 /\ At(t, e) \in LineEnds /\ e # s
    BY <1>1, Characters DEF FirstIn
<1>3. Len(t) \in Nat /\ At(t, Len(t) + 1) = NUL
    BY TextIs
<1>4. s \in Int /\ 1 <= s
    BY <1>3 DEF Positions
<1>5. e \in Int /\ s < e /\ e <= Len(t) + 1
    BY <1>2, <1>3, <1>4
<1>6. SkipLine(t, s) = IF At(t, e) = NUL THEN e ELSE e + 1
    BY SkipLineIs DEF e
<1>7. CASE At(t, e) = NUL
    BY <1>3, <1>4, <1>5, <1>6, <1>7 DEF Positions
<1>8. CASE At(t, e) # NUL
    <2>1. e # Len(t) + 1
        BY <1>3, <1>8
    <2> QED
        BY <1>3, <1>4, <1>5, <1>6, <1>8, <2>1 DEF Positions
<1> QED
    BY <1>7, <1>8

LEMMA StartsIs ==
    ASSUME NEW t, IsText(t)
    PROVE  /\ Starts(t) \in [Positions(t) -> Positions(t)]
           /\ \A q \in Positions(t) :
                 LET s == SkipAll(t, q, Spaces)
                 IN  Starts(t)[q] = IF IsComment(At(t, s)) THEN Starts(t)[SkipLine(t, s)] ELSE s
<1> DEFINE n == Len(t) + 1
           skip(q) == SkipAll(t, q, Spaces)
           Step(f, q) == IF IsComment(At(t, skip(q))) THEN f[SkipLine(t, skip(q))] ELSE skip(q)
           Is(f) == f = [q \in 1..n |-> LET s == SkipAll(t, q, Spaces)
                                        IN  IF At(t, s) = ";" THEN f[SkipLine(t, s)] ELSE s]
<1>1. n \in Nat /\ Positions(t) = 1..n
    BY TextIs DEF Positions
<1>2. \A q \in 1..n : skip(q) \in 1..n /\ q <= skip(q)
    <2>2. \A q \in Positions(t) : FirstOut(t, q, Spaces, skip(q))
        BY Characters, SkipIs
    <2> QED
        BY <1>1, <2>2 DEF FirstOut
<1>3. \A q \in 1..n : IsComment(At(t, skip(q))) => /\ SkipLine(t, skip(q)) \in 1..n
                                               /\ skip(q) < SkipLine(t, skip(q))
    BY <1>1, <1>2, SkipLineForward
<1> HIDE DEF skip, Is
<1>4. PICK next : next = [q \in 1..n |-> IF IsComment(At(t, skip(q))) THEN SkipLine(t, skip(q)) ELSE 0]
    OBVIOUS
<1>5. LeadsOn(next, n)
    <2>1. \A q \in 1..n : (IsComment(At(t, skip(q))) => next[q] = SkipLine(t, skip(q)))
                          /\ (~IsComment(At(t, skip(q))) => next[q] = 0)
        BY <1>4
    <2>2. ASSUME NEW q \in 1..n PROVE next[q] \in Nat /\ (next[q] # 0 => q < next[q] /\ next[q] <= n)
        <3>1. CASE IsComment(At(t, skip(q)))
            <4>1. /\ next[q] \in 1..n /\ skip(q) < next[q]
                  /\ skip(q) \in 1..n /\ q <= skip(q)
                BY <1>2, <1>3, <2>1, <3>1
            <4> QED
                BY <1>1, <4>1
        <3>2. CASE ~IsComment(At(t, skip(q)))
            BY <2>1, <3>2
        <3> QED
            BY <3>1, <3>2
    <2> QED
        BY <1>4, <2>2 DEF LeadsOn
<1>6. PICK stop : stop = [q \in 1..n |-> skip(q)]
    OBVIOUS
<1>7. PICK op : op = [x \in (1..n) \X (1..n) |-> x[2]]
    OBVIOUS
<1>8. stop \in [1..n -> 1..n] /\ op \in [(1..n) \X (1..n) -> 1..n]
    BY <1>2, <1>6, <1>7
<1>9. PICK f \in [1..n -> 1..n] : Leads(f, n, next, stop, op)
    BY <1>1, <1>5, <1>8, Descending
<1>10. \A q \in 1..n : f[q] = Step(f, q)
    <2> TAKE q \in 1..n
    <2>1. f[q] = IF next[q] = 0 THEN stop[q] ELSE op[<<stop[q], f[next[q]]>>]
        BY <1>9 DEF Leads
    <2>2. CASE IsComment(At(t, skip(q)))
        <3>0. next[q] = SkipLine(t, skip(q)) /\ SkipLine(t, skip(q)) \in 1..n
            BY <1>3, <1>4, <2>2
        <3>1. next[q] = SkipLine(t, skip(q)) /\ next[q] \in 1..n /\ next[q] # 0
            BY <1>1, <3>0
        <3>2. stop[q] \in 1..n /\ f[next[q]] \in 1..n
            BY <1>8, <1>9, <3>1
        <3>3. op[<<stop[q], f[next[q]]>>] = f[next[q]]
            BY <1>7, <3>2
        <3> QED
            BY <2>1, <2>2, <3>1, <3>3
    <2>3. CASE ~IsComment(At(t, skip(q)))
        BY <1>4, <1>6, <2>1, <2>3
    <2> QED
        BY <2>2, <2>3
<1>11. Is(f)
    <2>1. f = [q \in 1..n |-> f[q]]
        BY <1>9
    <2>2. f = [q \in 1..n |-> Step(f, q)]
        BY <1>10, <2>1, Zenon
    <2> QED
        BY <2>2, Zenon DEF skip, Is, IsComment
<1>12. PICK h : h = CHOOSE start : Is(start)
    OBVIOUS
<1>13. Is(h)
    BY <1>11, <1>12, Zenon
<1>14. Starts(t) = h
    BY <1>12, Zenon DEF Starts, Is
<1>a. h = [q \in 1..n |-> Step(h, q)]
    BY <1>13, Zenon DEF skip, Is, IsComment
<1> HIDE DEF Is
<1>15. DOMAIN h = 1..n /\ \A q \in 1..n : h[q] = Step(h, q)
    BY <1>a, Zenon
<1>16. h = [q \in 1..n |-> h[q]]
    BY <1>a, Zenon
<1>17. \A q \in 1..n : h[q] \in 1..n
    <2>1. PICK S : S = {q \in 1..n : h[q] \in 1..n}
        OBVIOUS
    <2>2. ASSUME NEW q \in 1..n, \A r \in (q + 1)..n : r \in S PROVE q \in S
        <3>1. h[q] = Step(h, q)
            BY <1>15
        <3>2. CASE IsComment(At(t, skip(q)))
            <4>1. PICK r : r = SkipLine(t, skip(q))
                OBVIOUS
            <4>2. r \in 1..n /\ skip(q) < r /\ skip(q) \in 1..n /\ q <= skip(q)
                BY <1>2, <1>3, <3>2, <4>1
            <4>3. r \in (q + 1)..n
                BY <1>1, <4>2
            <4> QED
                BY <2>1, <2>2, <3>1, <3>2, <4>1, <4>3
        <3>3. CASE ~IsComment(At(t, skip(q)))
            BY <1>2, <2>1, <3>1, <3>3
        <3> QED
            BY <3>2, <3>3
    <2>3. 1..n \subseteq S
        BY <1>1, <2>2, Backwards
    <2> QED
        BY <2>1, <2>3
<1>18. h \in [1..n -> 1..n]
    BY <1>16, <1>17
<1> QED
    BY <1>1, <1>14, <1>15, <1>18 DEF skip

LEMMA TokenStartIs == \A t, p : TokenStart(t, p) = Starts(t)[p]
    BY Zenon DEF TokenStart, Starts

\* A token starts at no blank and at no comment, here or further on.
LEMMA TokenStartAhead ==
    ASSUME NEW t, IsText(t), NEW p \in Positions(t)
    PROVE  /\ TokenStart(t, p) \in Positions(t) /\ p <= TokenStart(t, p)
           /\ At(t, TokenStart(t, p)) \notin Spaces /\ ~IsComment(At(t, TokenStart(t, p)))
<1> DEFINE n == Len(t) + 1
           s(q) == SkipAll(t, q, Spaces)
           Ahead(q) == /\ Starts(t)[q] \in 1..n /\ q <= Starts(t)[q]
                       /\ At(t, Starts(t)[q]) \notin Spaces /\ ~IsComment(At(t, Starts(t)[q]))
<1>1. n \in Nat /\ Positions(t) = 1..n
    BY TextIs DEF Positions
<1>2. \A q \in 1..n : s(q) \in 1..n /\ q <= s(q) /\ At(t, s(q)) \notin Spaces
    <2>2. \A q \in Positions(t) : FirstOut(t, q, Spaces, s(q))
        BY Characters, SkipIs
    <2> QED
        BY <1>1, <2>2 DEF FirstOut
<1>3. \A q \in 1..n : IsComment(At(t, s(q))) => SkipLine(t, s(q)) \in 1..n /\ s(q) < SkipLine(t, s(q))
    BY <1>1, <1>2, SkipLineForward
<1>4. \A q \in 1..n : Starts(t)[q] = IF IsComment(At(t, s(q))) THEN Starts(t)[SkipLine(t, s(q))] ELSE s(q)
    BY <1>1, StartsIs
<1> HIDE DEF s
<1>5. PICK S : S = {q \in 1..n : Ahead(q)}
    OBVIOUS
<1>6. ASSUME NEW q \in 1..n, \A r \in (q + 1)..n : r \in S PROVE q \in S
    <2>1. CASE IsComment(At(t, s(q)))
        <3>1. PICK r : r = SkipLine(t, s(q))
            OBVIOUS
        <3>a. r \in 1..n /\ s(q) < r /\ s(q) \in 1..n /\ q <= s(q)
            BY <1>2, <1>3, <2>1, <3>1
        <3>b. Starts(t)[q] = Starts(t)[r]
            BY <1>4, <2>1, <3>1
        <3>2. r \in (q + 1)..n /\ Starts(t)[q] = Starts(t)[r] /\ q < r
            BY <1>1, <3>a, <3>b
        <3>3. Ahead(r)
            BY <1>5, <1>6, <3>2
        <3>4. Starts(t)[q] \in 1..n /\ q <= Starts(t)[q]
            <4>1. Starts(t)[r] \in 1..n /\ r <= Starts(t)[r]
                BY <3>3
            <4> QED
                BY <1>1, <3>a, <3>2, <4>1
        <3>5. Ahead(q)
            BY <3>2, <3>3, <3>4
        <3> QED
            BY <1>5, <3>5
    <2>2. CASE ~IsComment(At(t, s(q)))
        BY <1>2, <1>4, <1>5, <2>2
    <2> QED
        BY <2>1, <2>2
<1>7. 1..n \subseteq S
    BY <1>1, <1>6, Backwards
<1> QED
    BY <1>1, <1>5, <1>7, TokenStartIs

-----------------------------------------------------------------------------
(* Recursion forward, and the int that digits make.                        *)

Climbs(f, a, b, start, g) == f = [k \in a..b |-> IF k = a THEN start ELSE g[<<k, f[k - 1]>>]]

LEMMA Ascending ==
    ASSUME NEW a \in Int, NEW b \in Int, a <= b, NEW V, NEW start \in V, NEW g \in [Int \X V -> V]
    PROVE  \E f \in [a..b -> V] : Climbs(f, a, b, start, g)
<1> DEFINE Good == {n \in Nat : \E f \in [a..(a + n) -> V] : Climbs(f, a, a + n, start, g)}
<1>1. 0 \in Good
    <2>1. PICK f : f = [k \in a..(a + 0) |-> start]
        OBVIOUS
    <2>2. \A k \in a..(a + 0) : k = a
        OBVIOUS
    <2>3. f \in [a..(a + 0) -> V] /\ Climbs(f, a, a + 0, start, g)
        BY <2>1, <2>2 DEF Climbs
    <2> QED
        BY <2>3
<1>2. ASSUME NEW n \in Nat, n \in Good PROVE n + 1 \in Good
    <2>1. PICK f \in [a..(a + n) -> V] : Climbs(f, a, a + n, start, g)
        BY <1>2
    <2>2. PICK m \in Int : m = a + n + 1
        OBVIOUS
    <2>3. PICK h : h = [k \in a..m |-> IF k = m THEN g[<<m, f[m - 1]>>] ELSE f[k]]
        OBVIOUS
    <2>4. m - 1 \in a..(a + n) /\ a + (n + 1) = m /\ m # a
        BY <2>2
    <2>5. f[m - 1] \in V /\ g[<<m, f[m - 1]>>] \in V
        BY <2>1, <2>4
    <2>6. \A k \in a..m : k = m \/ k \in a..(a + n)
        BY <2>2
    <2>7. h \in [a..m -> V]
        BY <2>1, <2>3, <2>5, <2>6
    <2>8. \A k \in a..(a + n) : k \in a..m /\ k # m /\ h[k] = f[k]
        BY <2>2, <2>3
    <2>9. ASSUME NEW k \in a..m PROVE h[k] = IF k = a THEN start ELSE g[<<k, h[k - 1]>>]
        <3>1. CASE k = m
            BY <2>3, <2>4, <2>8, <3>1
        <3>2. CASE k # m
            <4>1. k \in a..(a + n)
                BY <2>6, <3>2
            <4>2. f[k] = IF k = a THEN start ELSE g[<<k, f[k - 1]>>]
                BY <2>1, <4>1 DEF Climbs
            <4>3. k # a => k - 1 \in a..(a + n)
                BY <4>1
            <4> QED
                BY <2>8, <4>1, <4>2, <4>3
        <3> QED
            BY <3>1, <3>2
    <2>10. h = [k \in a..m |-> h[k]]
        BY <2>7
    <2>11. h = [k \in a..m |-> IF k = a THEN start ELSE g[<<k, h[k - 1]>>]]
        BY <2>9, <2>10
    <2>12. h \in [a..(a + (n + 1)) -> V] /\ Climbs(h, a, a + (n + 1), start, g)
        BY <2>4, <2>7, <2>11 DEF Climbs
    <2> QED
        BY <2>12
<1>3. Nat \subseteq Good
    <2> HIDE DEF Good
    <2> QED
        BY <1>1, <1>2, Induction
<1>4. b - a \in Nat /\ a + (b - a) = b
    OBVIOUS
<1>5. b - a \in Good
    <2> HIDE DEF Good
    <2> QED
        BY <1>3, <1>4
<1> QED
    BY <1>4, <1>5

\* What f has at the end of the climb, wherever f is known step by step.
LEMMA Climbing ==
    ASSUME NEW a \in Int, NEW b \in Int, a <= b, NEW S, NEW P, P = a..b,
           a \in S, \A k \in P : k # a /\ k - 1 \in S => k \in S
    PROVE  P \subseteq S
<1> DEFINE Good == {n \in Nat : a + n <= b => a + n \in S}
<1>1. 0 \in Good
    OBVIOUS
<1>2. ASSUME NEW n \in Nat, n \in Good PROVE n + 1 \in Good
    <2>1. CASE a + (n + 1) <= b
        <3>1. a + (n + 1) \in P /\ a + (n + 1) # a /\ (a + (n + 1)) - 1 = a + n
            BY <2>1
        <3>2. a + n \in S
            BY <1>2, <2>1
        <3> QED
            BY <2>1, <3>1, <3>2
    <2> QED
        BY <2>1
<1>3. Nat \subseteq Good
    <2> HIDE DEF Good
    <2> QED
        BY <1>1, <1>2, Induction
<1>4. \A k \in P : k - a \in Nat /\ a + (k - a) = k /\ k <= b
    OBVIOUS
<1> QED
    BY <1>3, <1>4

LEMMA PowersOf2 ==
    /\ PowerOf2[IntBits - 1] \in Nat \ {0} /\ PowerOf2[IntBits] \in Nat \ {0}
    /\ PowerOf2[IntBits] = 2 * PowerOf2[IntBits - 1]
<1> DEFINE Is(f) == f = [n \in 0..IntBits |-> IF n = 0 THEN 1 ELSE 2 * f[n - 1]]
<1>1. IntBits \in Nat /\ IntBits >= 2 /\ 0 <= IntBits /\ 0 \in Int /\ IntBits \in Int
    BY IntBitsAssumption
<1>2. PICK g : g = [x \in Int \X (Nat \ {0}) |-> 2 * x[2]]
    OBVIOUS
<1>3. g \in [Int \X (Nat \ {0}) -> Nat \ {0}] /\ 1 \in Nat \ {0}
    BY <1>2
<1>4. PICK f \in [0..IntBits -> Nat \ {0}] : Climbs(f, 0, IntBits, 1, g)
    BY <1>1, <1>3, Ascending
<1>5. ASSUME NEW n \in 0..IntBits PROVE f[n] = IF n = 0 THEN 1 ELSE 2 * f[n - 1]
    <2>1. f[n] = IF n = 0 THEN 1 ELSE g[<<n, f[n - 1]>>]
        BY <1>4 DEF Climbs
    <2>2. n # 0 => n - 1 \in 0..IntBits
        BY <1>1
    <2>3. n # 0 => f[n - 1] \in Nat \ {0}
        BY <1>4, <2>2
    <2> QED
        BY <1>1, <1>2, <2>1, <2>3
<1>6. Is(f)
    <2>1. f = [n \in 0..IntBits |-> f[n]]
        BY <1>4
    <2> QED
        BY <1>5, <2>1
<1>7. PICK h : h = CHOOSE powers : Is(powers)
    OBVIOUS
<1>8. Is(h) /\ PowerOf2 = h
    BY <1>6, <1>7, Zenon DEF PowerOf2
<1>9. \A n \in 0..IntBits : h[n] = IF n = 0 THEN 1 ELSE 2 * h[n - 1]
    BY <1>8
<1> HIDE DEF Is
<1>10. PICK S : S = {n \in 0..IntBits : h[n] \in Nat \ {0}}
    OBVIOUS
<1>11. 0 \in S
    BY <1>1, <1>9, <1>10
<1>12. ASSUME NEW n \in 0..IntBits, n # 0, n - 1 \in S PROVE n \in S
    <2>1. h[n] = 2 * h[n - 1] /\ h[n - 1] \in Nat \ {0}
        BY <1>9, <1>10, <1>12
    <2> QED
        BY <1>10, <2>1
<1>13. 0..IntBits \subseteq S
    BY <1>1, <1>11, <1>12, Climbing
<1>14. IntBits \in 0..IntBits /\ IntBits - 1 \in 0..IntBits /\ IntBits # 0
    BY <1>1
<1> QED
    BY <1>8, <1>9, <1>10, <1>13, <1>14

Congruent(a, b) == \E q \in Int : a - b = q * PowerOf2[IntBits]

\* Wrap changes a number by a multiple of 2^IntBits.
LEMMA WrapIs ==
    ASSUME NEW n \in Int
    PROVE  Wrap(n) \in IntMin..-IntMin - 1 /\ Wrap(n) \in Int /\ Congruent(Wrap(n), n)
<1>1. PICK p \in Nat \ {0}, d \in Nat \ {0} :
          p = PowerOf2[IntBits - 1] /\ d = PowerOf2[IntBits] /\ d = 2 * p /\ IntMin = -p
    BY PowersOf2 DEF IntMin
<1>2. PICK a \in Int : a = n + p
    BY <1>1
<1>3. a \div d \in Int /\ a % d \in 0..d - 1
    OBVIOUS
<1>4. a % d = a - d * (a \div d)
    BY SMTT(30)
<1>5. PICK q \in Int, r \in 0..d - 1 : r = a % d /\ r = a - d * q
    BY <1>3, <1>4, Zenon
<1>6. Wrap(n) = r - p
    <2>1. n - IntMin = a
        BY <1>1, <1>2
    <2> QED
        BY <1>1, <1>5, <2>1 DEF Wrap
<1>7. PICK c \in Int : c = d * q
    OBVIOUS
<1>8. Wrap(n) - n = (-q) * d
    <2>1. (-q) * d = -c
        BY <1>7
    <2> QED
        BY <1>2, <1>5, <1>6, <1>7, <2>1
<1>9. Congruent(Wrap(n), n)
    <2>1. -q \in Int
        OBVIOUS
    <2> QED
        BY <1>1, <1>8, <2>1 DEF Congruent
<1> QED
    BY <1>1, <1>6, <1>9

LEMMA WrapCongruent ==
    ASSUME NEW a \in Int, NEW b \in Int, NEW c \in Int, Congruent(a, b)
    PROVE  Congruent(Wrap(10 * a + c), 10 * b + c) /\ Congruent(Wrap(-a), -b)
<1>1. PICK d \in Nat : d = PowerOf2[IntBits]
    BY PowersOf2
<1>2. PICK q \in Int : a - b = q * d
    BY <1>1 DEF Congruent
<1>3. PICK qd \in Int : qd = q * d
    BY <1>1
<1>4. ASSUME NEW x \in Int, NEW y \in Int, NEW e \in Int, x - y = e * d
      PROVE  Congruent(Wrap(x), y)
    <2>1. PICK w \in Int, f \in Int : w = Wrap(x) /\ w - x = f * d
        <3>1. Wrap(x) \in Int /\ Congruent(Wrap(x), x)
            BY WrapIs
        <3> QED
            BY <1>1, <3>1, Zenon DEF Congruent
    <2>2. PICK ed \in Int, fd \in Int : ed = e * d /\ fd = f * d
        BY <1>1
    <2>3. (e + f) * d = ed + fd
        BY <1>1, <2>2
    <2>4. w - y = (e + f) * d /\ e + f \in Int
        BY <1>4, <2>1, <2>2, <2>3
    <2> QED
        BY <1>1, <2>1, <2>4 DEF Congruent
<1>5. Congruent(Wrap(10 * a + c), 10 * b + c)
    <2>1. PICK x \in Int, y \in Int, e \in Int : x = 10 * a + c /\ y = 10 * b + c /\ e = 10 * q
        OBVIOUS
    <2>2. e * d = 10 * qd
        BY <1>1, <1>3, <2>1
    <2>3. x - y = e * d
        BY <1>2, <1>3, <2>1, <2>2
    <2> QED
        BY <1>4, <2>1, <2>3
<1>6. Congruent(Wrap(-a), -b)
    <2>1. PICK x \in Int, y \in Int, e \in Int : x = -a /\ y = -b /\ e = -q
        OBVIOUS
    <2>2. e * d = -qd
        BY <1>1, <1>3, <2>1
    <2>3. x - y = e * d
        BY <1>2, <1>3, <2>1, <2>2
    <2> QED
        BY <1>4, <2>1, <2>3
<1> QED
    BY <1>5, <1>6

LEMMA CongruentSelf ==
    ASSUME NEW a \in Int
    PROVE  Congruent(a, a)
<1>1. PICK d \in Nat : d = PowerOf2[IntBits]
    BY PowersOf2
<1>2. a - a = 0 * d
    BY <1>1
<1> QED
    BY <1>1, <1>2 DEF Congruent

LEMMA CongruentRemainder ==
    ASSUME NEW a \in Int, NEW b \in Int, Congruent(a, b)
    PROVE  (a - b) % PowerOf2[IntBits] = 0
<1>1. PICK d \in Nat \ {0} : d = PowerOf2[IntBits]
    BY PowersOf2
<1>2. PICK q \in Int : a - b = q * d
    BY <1>1 DEF Congruent
<1>3. PICK e \in Int : e = a - b
    OBVIOUS
<1>4. e % d \in 0..d - 1 /\ e \div d \in Int
    OBVIOUS
<1>5. e % d = e - d * (e \div d)
    BY SMTT(30)
<1>6. PICK p \in Int, r \in 0..d - 1 : r = e % d /\ r = e - d * p
    BY <1>4, <1>5, Zenon
<1>7. PICK k \in Int : k = q - p
    OBVIOUS
<1>8. r = d * k
    <2>1. d * k = q * d - d * p
        BY <1>7
    <2> QED
        BY <1>2, <1>3, <1>6, <2>1
<1>9. r = 0
    <2>1. k >= 1 => d * k >= d
        OBVIOUS
    <2>2. k <= -1 => d * k < 0
        OBVIOUS
    <2>3. k = 0 => d * k = 0
        OBVIOUS
    <2> QED
        BY <1>6, <1>8, <2>1, <2>2, <2>3
<1> QED
    BY <1>1, <1>3, <1>6, <1>9

LEMMA DigitValues == \A c \in Digits : DigitValue[c] \in Int
    BY DEF Digits, DigitValue

LEMMA NoDigits == "-" \notin Digits /\ "." \notin Digits
    BY DEF Digits

\* f has what IntValue adds up.
Sums(f, t, first, end) ==
    /\ f \in [first..end -> Int] /\ f[first] = 0
    /\ \A k \in first..end : k # first => f[k] = Wrap(10 * f[k - 1] + DigitValue[t[k - 1]])

LEMMA IntValueIs ==
    ASSUME NEW t, NEW first \in Int, NEW end \in Int, first <= end,
           \A k \in first..end - 1 : t[k] \in Digits
    PROVE  \E f : Sums(f, t, first, end) /\ IntValue(t, first, end) = f[end]
<1> DEFINE Step(k, v) == Wrap(10 * v + DigitValue[t[k - 1]])
           Is(f) == f = [k \in first..end |->
                            IF k = first THEN 0
                            ELSE Wrap(10 * f[k - 1] + DigitValue[t[k - 1]])]
<1>1. PICK g : g = [x \in Int \X Int |-> IF x[1] \in first..end /\ x[1] # first
                                         THEN Step(x[1], x[2]) ELSE 0]
    OBVIOUS
<1>2. ASSUME NEW k \in first..end, k # first, NEW v \in Int PROVE Step(k, v) \in Int
    <2>1. k - 1 \in first..end - 1
        BY <1>2
    <2>2. DigitValue[t[k - 1]] \in Int
        BY <2>1, DigitValues
    <2> QED
        BY <2>2, WrapIs
<1>3. g \in [Int \X Int -> Int]
    <2> HIDE DEF Step
    <2> QED
        BY <1>1, <1>2
<1>4. PICK f \in [first..end -> Int] : Climbs(f, first, end, 0, g)
    <2>1. 0 \in Int
        OBVIOUS
    <2> HIDE DEF Step
    <2> QED
        BY <1>3, <2>1, Ascending
<1>5. ASSUME NEW k \in first..end PROVE f[k] = IF k = first THEN 0 ELSE Step(k, f[k - 1])
    <2>1. f[k] = IF k = first THEN 0 ELSE g[<<k, f[k - 1]>>]
        BY <1>4 DEF Climbs
    <2>2. CASE k # first
        <3>1. k - 1 \in first..end /\ k \in Int
            BY <2>2
        <3>2. f[k - 1] \in Int
            BY <1>4, <3>1
        <3>3. g[<<k, f[k - 1]>>] = Step(k, f[k - 1])
            <4> HIDE DEF Step
            <4> QED
                BY <1>1, <2>2, <3>1, <3>2
        <3> QED
            BY <2>1, <2>2, <3>3
    <2> QED
        BY <2>1, <2>2
<1>6. Is(f)
    <2>1. f = [k \in first..end |-> f[k]]
        BY <1>4
    <2> QED
        BY <1>5, <2>1
<1>7. PICK h : h = CHOOSE value : Is(value)
    OBVIOUS
<1>8. Is(h) /\ IntValue(t, first, end) = h[end]
    BY <1>6, <1>7, Zenon DEF IntValue
<1>9. \A k \in first..end : h[k] = IF k = first THEN 0 ELSE Step(k, h[k - 1])
    BY <1>8
<1>10. h = [k \in first..end |-> h[k]]
    BY <1>8, Zenon
<1> HIDE DEF Is, Step
<1>11. PICK S : S = {k \in first..end : h[k] \in Int}
    OBVIOUS
<1>12. first \in S
    BY <1>9, <1>11
<1>13. ASSUME NEW k \in first..end, k # first, k - 1 \in S PROVE k \in S
    <2>1. h[k] = Step(k, h[k - 1]) /\ h[k - 1] \in Int
        BY <1>9, <1>11, <1>13
    <2> QED
        BY <1>2, <1>11, <1>13, <2>1
<1>14. first..end \subseteq S
    BY <1>12, <1>13, Climbing
<1>15. h \in [first..end -> Int]
    <2>1. \A k \in first..end : h[k] \in Int
        BY <1>11, <1>14
    <2> QED
        BY <1>10, <2>1
<1>16. Sums(h, t, first, end)
    BY <1>9, <1>15 DEF Sums, Step
<1> QED
    BY <1>8, <1>16

\* The same digits have the same value.
LEMMA IntValueSame ==
    ASSUME NEW t, NEW u, NEW first \in Int, NEW end \in Int, first <= end,
           \A k \in first..end - 1 : t[k] \in Digits /\ u[k] = t[k]
    PROVE  IntValue(u, first, end) = IntValue(t, first, end)
<1>1. PICK f : Sums(f, t, first, end) /\ IntValue(t, first, end) = f[end]
    BY IntValueIs
<1>2. PICK h : Sums(h, u, first, end) /\ IntValue(u, first, end) = h[end]
    BY IntValueIs
<1>3. PICK S : S = {k \in first..end : h[k] = f[k]}
    OBVIOUS
<1>4. first \in S
    BY <1>1, <1>2, <1>3 DEF Sums
<1>5. ASSUME NEW k \in first..end, k # first, k - 1 \in S PROVE k \in S
    <2>1. k - 1 \in first..end - 1
        BY <1>5
    <2>2. u[k - 1] = t[k - 1] /\ h[k - 1] = f[k - 1]
        BY <1>3, <1>5, <2>1
    <2>3. h[k] = Wrap(10 * h[k - 1] + DigitValue[u[k - 1]])
          /\ f[k] = Wrap(10 * f[k - 1] + DigitValue[t[k - 1]])
        BY <1>1, <1>2, <1>5 DEF Sums
    <2> QED
        BY <1>3, <2>2, <2>3
<1>6. first..end \subseteq S
    BY <1>4, <1>5, Climbing
<1>7. end \in S
    BY <1>6
<1> QED
    BY <1>1, <1>2, <1>3, <1>7

\* The digits of a token, as a decimal number.
Decimal(source) ==
    LET decimal[n \in 0..Len(source)] ==
            IF n = 0 THEN 0
            ELSE IF source[n] \in Digits THEN 10 * decimal[n - 1] + DigitValue[source[n]]
            ELSE decimal[n - 1]
    IN  decimal

LEMMA DecimalIs ==
    ASSUME NEW source, Len(source) \in Nat
    PROVE  /\ Decimal(source) \in [0..Len(source) -> Int]
           /\ \A n \in 0..Len(source) :
                 Decimal(source)[n] =
                     IF n = 0 THEN 0
                     ELSE IF source[n] \in Digits
                     THEN 10 * Decimal(source)[n - 1] + DigitValue[source[n]]
                     ELSE Decimal(source)[n - 1]
<1> DEFINE N == Len(source)
           Step(n, v) == IF source[n] \in Digits THEN 10 * v + DigitValue[source[n]] ELSE v
           Is(f) == f = [n \in 0..Len(source) |->
                            IF n = 0 THEN 0
                            ELSE IF source[n] \in Digits THEN 10 * f[n - 1] + DigitValue[source[n]]
                            ELSE f[n - 1]]
<1>1. PICK g : g = [x \in Int \X Int |-> Step(x[1], x[2])]
    OBVIOUS
<1>2. ASSUME NEW k, NEW v \in Int PROVE Step(k, v) \in Int
    BY DigitValues
<1>3. g \in [Int \X Int -> Int]
    <2> HIDE DEF Step
    <2> QED
        BY <1>1, <1>2
<1>4. 0 \in Int /\ N \in Int /\ 0 <= N
    OBVIOUS
<1>5. PICK f \in [0..N -> Int] : Climbs(f, 0, N, 0, g)
    <2> HIDE DEF N
    <2> QED
        BY <1>3, <1>4, Ascending
<1>6. ASSUME NEW k \in 0..N PROVE f[k] = IF k = 0 THEN 0 ELSE Step(k, f[k - 1])
    <2>1. f[k] = IF k = 0 THEN 0 ELSE g[<<k, f[k - 1]>>]
        BY <1>5 DEF Climbs
    <2>2. CASE k # 0
        <3>1. k - 1 \in 0..N /\ k \in Int
            BY <2>2
        <3>2. f[k - 1] \in Int
            BY <1>5, <3>1
        <3>3. g[<<k, f[k - 1]>>] = Step(k, f[k - 1])
            <4> HIDE DEF Step
            <4> QED
                BY <1>1, <2>2, <3>1, <3>2
        <3> QED
            BY <2>1, <2>2, <3>3
    <2> QED
        BY <2>1, <2>2
<1>7. Is(f)
    <2>1. f = [k \in 0..N |-> f[k]]
        BY <1>5
    <2> QED
        BY <1>6, <2>1, Zenon
<1>8. PICK h : h = CHOOSE decimal : Is(decimal)
    OBVIOUS
<1>9. Is(h) /\ Decimal(source) = h
    BY <1>7, <1>8, Zenon DEF Decimal
<1>10. \A k \in 0..N : h[k] = IF k = 0 THEN 0 ELSE Step(k, h[k - 1])
    BY <1>9, Zenon
<1>11. h = [k \in 0..N |-> h[k]]
    BY <1>9, Zenon
<1> HIDE DEF Is, Step, N
<1>12. PICK S : S = {k \in 0..N : h[k] \in Int}
    OBVIOUS
<1>13. 0 \in S
    BY <1>4, <1>10, <1>12
<1>14. ASSUME NEW k \in 0..N, k # 0, k - 1 \in S PROVE k \in S
    <2>1. h[k] = Step(k, h[k - 1]) /\ h[k - 1] \in Int
        BY <1>10, <1>12, <1>14
    <2> QED
        BY <1>2, <1>12, <2>1
<1>15. 0..N \subseteq S
    BY <1>4, <1>13, <1>14, Climbing
<1>16. h \in [0..N -> Int]
    <2>1. \A k \in 0..N : h[k] \in Int
        BY <1>12, <1>15
    <2> QED
        BY <1>11, <2>1
<1> QED
    BY <1>9, <1>10, <1>16, Zenon DEF N, Step

-----------------------------------------------------------------------------
(* What a token is, and where.                                             *)

IsQuoteMark(c) == c = "\""

\* The parts of get_next_token_inner, one by one.
LEMMA TokenKinds ==
    ASSUME NEW t, NEW p, NEW b, b = TokenStart(t, p), NEW c, c = At(t, b)
    PROVE  /\ c = NUL => NextToken(t, p) = Simple("eof", b, b)
           /\ IsQuoteMark(c) => NextToken(t, p) = StringToken(t, b)
           /\ c \in Digits \/ (c = "-" /\ At(t, b + 1) \in Digits) => NextToken(t, p) = NumberToken(t, b)
           /\ c \in Alpha => NextToken(t, p) = WordToken(t, b)
           /\ c = "(" => NextToken(t, p) = Simple("open", b, b + 1)
           /\ c = ")" => NextToken(t, p) = Simple("close", b, b + 1)
           /\ c = "#" => NextToken(t, p) = Simple("array", b, b + 1)
           /\ c = "'" => NextToken(t, p) = Simple("quote", b, b + 1)
           /\ c = "." => NextToken(t, p) = PointToken(t, b)
           /\ (/\ c # NUL /\ ~IsQuoteMark(c) /\ c \notin Digits /\ c \notin Alpha
               /\ ~(c = "-" /\ At(t, b + 1) \in Digits)
               /\ c \notin {"(", ")", "#", "'", "."})
              => NextToken(t, p) = OperatorToken(t, b)
<1> DEFINE next == CASE c = NUL -> Simple("eof", b, b)
                     [] IsQuoteMark(c) -> StringToken(t, b)
                     [] c \in Digits \/ (c = "-" /\ At(t, b + 1) \in Digits) -> NumberToken(t, b)
                     [] c \in Alpha -> WordToken(t, b)
                     [] c = "(" -> Simple("open", b, b + 1)
                     [] c = ")" -> Simple("close", b, b + 1)
                     [] c = "#" -> Simple("array", b, b + 1)
                     [] c = "'" -> Simple("quote", b, b + 1)
                     [] c = "." -> PointToken(t, b)
                     [] OTHER -> OperatorToken(t, b)
<1>1. NextToken(t, p) = next
    BY Zenon DEF NextToken, IsQuoteMark
<1>2. /\ ~IsQuoteMark(NUL) /\ ~IsQuoteMark("(") /\ ~IsQuoteMark(")") /\ ~IsQuoteMark("#")
      /\ ~IsQuoteMark("'") /\ ~IsQuoteMark(".") /\ ~IsQuoteMark("-")
    BY Zenon DEF IsQuoteMark, NUL
<1>3. \A d : IsQuoteMark(d) => d \notin Digits /\ d \notin Alpha
    BY Zenon DEF IsQuoteMark, Digits, Alpha, Lower, Upper
<1>4. \A d \in Digits : d \notin Alpha \cup {NUL, "(", ")", "#", "'", ".", "-"}
    BY DEF Digits, Alpha, Lower, Upper, NUL
<1>5. \A d \in Alpha : d \notin {NUL, "(", ")", "#", "'", ".", "-"}
    BY DEF Alpha, Lower, Upper, NUL
<1>6. NUL \notin {"(", ")", "#", "'", ".", "-"}
    BY DEF NUL
<1> HIDE DEF next
<1> QED
    BY <1>1, <1>2, <1>3, <1>4, <1>5, <1>6 DEF next

\* A token that begins at b, and where scanning goes on behind it.
Shape(tok, t, b) ==
    /\ tok = Token(tok.type, tok.val, b, tok.to)
    /\ tok.to \in Positions(t) /\ b <= tok.to
    /\ ~IsEnd(tok) => b < tok.to

LEMMA SimpleShape ==
    ASSUME NEW t, IsText(t), NEW type, NEW val, NEW b \in Positions(t), NEW to \in Positions(t),
           b <= to, b < to \/ type \in {"eof", "error"}
    PROVE  Shape(Token(type, val, b, to), t, b)
    BY DEF Shape, Token, IsEnd

LEMMA StringShape ==
    ASSUME NEW t, IsText(t), NEW b \in 1..Len(t), IsQuoteMark(At(t, b))
    PROVE  Shape(StringToken(t, b), t, b)
<1> DEFINE Ends == {"\"", NUL}
           e == Find(t, b + 1, Ends)
<1>1. StringToken(t, b) = IF At(t, e) = NUL THEN Token("error", <<>>, b, e)
                          ELSE Token("string", SubSeq(t, b + 1, e - 1), b, e + 1)
    BY Zenon DEF StringToken, Simple
<1>2. NUL \in Ends
    BY Zenon
<1> HIDE DEF Ends
<1>3. Len(t) \in Nat /\ At(t, Len(t) + 1) = NUL
    BY TextIs
<1>4. b + 1 \in Positions(t) /\ b \in Positions(t) /\ b \in Int
    BY <1>3 DEF Positions
<1>5. FirstIn(t, b + 1, Ends, e)
    BY <1>2, <1>4, FindIs
<1> HIDE DEF e
<1>6. e \in b + 1..Len(t) + 1 /\ (At(t, e) # NUL => e # Len(t) + 1)
    BY <1>3, <1>5 DEF FirstIn
<1>7. e \in Positions(t) /\ b < e /\ (At(t, e) # NUL => e + 1 \in Positions(t) /\ b < e + 1)
    BY <1>3, <1>4, <1>6 DEF Positions
<1>8. CASE At(t, e) = NUL
    BY <1>1, <1>4, <1>7, <1>8, SimpleShape
<1>9. CASE At(t, e) # NUL
    <2>1. e + 1 \in Positions(t) /\ b < e + 1 /\ b <= e + 1
        BY <1>3, <1>4, <1>6, <1>7, <1>9 DEF Positions
    <2> QED
        BY <1>1, <1>4, <1>9, <2>1, SimpleShape
<1> QED
    BY <1>8, <1>9

LEMMA FloatShape ==
    ASSUME NEW t, IsText(t), NEW negative, NEW n, NEW b \in 1..Len(t), NEW point \in 1..Len(t),
           b <= point
    PROVE  Shape(Float(negative, n, t, b, point), t, b)
<1> DEFINE e == SkipAll(t, point + 1, Digits)
<1>1. Len(t) \in Nat
    BY TextIs
<1>2. point + 1 \in Positions(t) /\ b \in Positions(t)
    BY <1>1 DEF Positions
<1>3. FirstOut(t, point + 1, Digits, e)
    BY <1>2, Characters, SkipIs
<1>4. Float(negative, n, t, b, point) = Token("float", <<negative, n, SubSeq(t, point + 1, e - 1)>>, b, e)
    BY DEF Float
<1> HIDE DEF e
<1>5. e \in Positions(t) /\ b < e /\ b <= e
    BY <1>1, <1>3 DEF FirstOut, Positions
<1> QED
    BY <1>2, <1>4, <1>5, SimpleShape

LEMMA WordShape ==
    ASSUME NEW t, IsText(t), NEW b \in 1..Len(t), At(t, b) \in Alpha
    PROVE  Shape(WordToken(t, b), t, b)
<1> DEFINE e == Find(t, b, Delimiters)
           word == StringToUpper(SubSeq(t, b, e - 1))
<1>1. WordToken(t, b) = CASE word = <<"N", "I", "L">> -> Token("nil", <<>>, b, e)
                          [] word = <<"T">> -> Token("T", <<>>, b, e)
                          [] OTHER -> Token("symbol", word, b, e)
    BY Zenon DEF WordToken, Simple
<1>2. PICK type, val : WordToken(t, b) = Token(type, val, b, e)
    <2> HIDE DEF word, e
    <2>1. CASE word = <<"N", "I", "L">>
        <3>1. WordToken(t, b) = Token("nil", <<>>, b, e)
            <4>1. <<"N", "I", "L">> # <<"T">>
                OBVIOUS
            <4> QED
                BY <1>1, <2>1, <4>1
        <3> QED
            BY <3>1
    <2>2. CASE word # <<"N", "I", "L">> /\ word = <<"T">>
        BY <1>1, <2>2
    <2>3. CASE word # <<"N", "I", "L">> /\ word # <<"T">>
        BY <1>1, <2>3
    <2> QED
        BY <2>1, <2>2, <2>3
<1>3. Len(t) \in Nat /\ b \in Positions(t)
    BY TextIs DEF Positions
<1>4. FirstIn(t, b, Delimiters, e)
    BY <1>3, Characters, FindIs
<1>5. At(t, b) \notin Delimiters
    BY Zenon DEF Alpha, Lower, Upper, Delimiters, NUL
<1> HIDE DEF e
<1>6. e \in Positions(t) /\ b < e /\ b <= e
    BY <1>3, <1>4, <1>5 DEF FirstIn, Positions
<1> QED
    BY <1>2, <1>3, <1>6, SimpleShape

Pauses == {" ", "\n", "\t"}

LEMMA PointIs ==
    ASSUME NEW t, NEW b, NEW c, c = At(t, b + 1)
    PROVE  /\ c \in Pauses => PointToken(t, b) = Token("dot", <<>>, b, b + 1)
           /\ c \in Digits => PointToken(t, b) = Float(FALSE, 0, t, b, b)
           /\ c = NUL => PointToken(t, b) = Token("eof", <<>>, b, b + 1)
           /\ c \notin Pauses /\ c \notin Digits /\ c # NUL => PointToken(t, b) = Token("error", <<>>, b, b + 1)
<1>1. PointToken(t, b) = CASE c \in Pauses -> Token("dot", <<>>, b, b + 1)
                           [] c \in Digits -> Float(FALSE, 0, t, b, b)
                           [] c = NUL -> Token("eof", <<>>, b, b + 1)
                           [] OTHER -> Token("error", <<>>, b, b + 1)
    BY Zenon DEF PointToken, Pauses, Simple
<1>2. \A d \in Pauses : d \notin Digits /\ d # NUL
    BY Zenon DEF Pauses, Digits, NUL
<1>3. c \in Pauses => PointToken(t, b) = Token("dot", <<>>, b, b + 1)
    BY <1>1, <1>2
<1>4. c \notin Pauses /\ c \in Digits => PointToken(t, b) = Float(FALSE, 0, t, b, b)
    BY <1>1, Characters
<1>5. c \notin Pauses /\ c \notin Digits /\ c = NUL => PointToken(t, b) = Token("eof", <<>>, b, b + 1)
    BY <1>1
<1>6. c \notin Pauses /\ c \notin Digits /\ c # NUL => PointToken(t, b) = Token("error", <<>>, b, b + 1)
    BY <1>1
<1> QED
    BY <1>2, <1>3, <1>4, <1>5, <1>6, Characters

LEMMA PointShape ==
    ASSUME NEW t, IsText(t), NEW b \in 1..Len(t), At(t, b) = "."
    PROVE  Shape(PointToken(t, b), t, b)
<1>1. Len(t) \in Nat /\ b \in Positions(t) /\ b + 1 \in Positions(t) /\ b < b + 1 /\ b <= b
    BY TextIs DEF Positions
<1>2. \A type, val : Shape(Token(type, val, b, b + 1), t, b)
    BY <1>1, SimpleShape
<1>3. Shape(Float(FALSE, 0, t, b, b), t, b)
    BY <1>1, FloatShape
<1> QED
    BY <1>2, <1>3, PointIs

\* The two-letter and the one-letter operators.
Twice == {<<"<", "=">>, <<">", "=">>, <<"=", "=">>, <<"/", "=">>}
Once == {"<", ">", "=", "+", "-", "*", "/"}

IsTwice(t, b) == <<At(t, b), At(t, b + 1)>> \in Twice /\ At(t, b + 2) \in Delimiters
IsOnce(t, b) == At(t, b) \in Once /\ At(t, b + 1) \in Delimiters

LEMMA OperatorIs ==
    ASSUME NEW t, NEW b
    PROVE  /\ IsTwice(t, b) => OperatorToken(t, b) = Token("symbol", SubSeq(t, b, b + 1), b, b + 2)
           /\ IsOnce(t, b) => OperatorToken(t, b) = Token("symbol", SubSeq(t, b, b), b, b + 1)
           /\ ~IsTwice(t, b) /\ ~IsOnce(t, b) => OperatorToken(t, b) = Token("error", <<>>, b, b)
<1>1. OperatorToken(t, b) = CASE IsTwice(t, b) -> Token("symbol", SubSeq(t, b, b + 1), b, b + 2)
                              [] IsOnce(t, b) -> Token("symbol", SubSeq(t, b, b), b, b + 1)
                              [] OTHER -> Token("error", <<>>, b, b)
    BY Zenon DEF OperatorToken, IsTwice, IsOnce, Twice, Once, Simple
<1>2. \A c, d : <<c, d>> \in Twice => d = "="
    BY DEF Twice
<1>3. "=" \notin Delimiters
    BY Zenon DEF Delimiters, NUL
<1>4. ~(IsTwice(t, b) /\ IsOnce(t, b))
    BY <1>2, <1>3 DEF IsTwice, IsOnce
<1> QED
    BY <1>1, <1>4

LEMMA OperatorShape ==
    ASSUME NEW t, IsText(t), NEW b \in 1..Len(t)
    PROVE  Shape(OperatorToken(t, b), t, b)
<1>1. Len(t) \in Nat /\ At(t, Len(t) + 1) = NUL /\ b \in Positions(t) /\ b + 1 \in Positions(t) /\ b \in Int
    BY TextIs DEF Positions
<1>2. CASE IsTwice(t, b)
    <2>1. \A c : <<c, NUL>> \notin Twice
        BY DEF Twice, NUL
    <2>2. b + 1 # Len(t) + 1
        BY <1>1, <1>2, <2>1 DEF IsTwice
    <2>3. b + 2 \in Positions(t) /\ b < b + 2 /\ b <= b + 2
        BY <1>1, <2>2 DEF Positions
    <2> QED
        BY <1>1, <1>2, <2>3, OperatorIs, SimpleShape
<1>3. CASE IsOnce(t, b)
    <2>1. b < b + 1 /\ b <= b + 1
        BY <1>1
    <2> QED
        BY <1>1, <1>3, <2>1, OperatorIs, SimpleShape
<1>4. CASE ~IsTwice(t, b) /\ ~IsOnce(t, b)
    <2>1. b <= b
        BY <1>1
    <2> QED
        BY <1>1, <1>4, <2>1, OperatorIs, SimpleShape
<1> QED
    BY <1>2, <1>3, <1>4

\* Where a number begins: at a digit, or at the sign of one.
StartsNumber(t, b) == At(t, b) \in Digits \/ (At(t, b) = "-" /\ At(t, b + 1) \in Digits)
FirstDigit(t, b) == IF At(t, b) = "-" THEN b + 1 ELSE b
DigitsEnd(t, b) == SkipAll(t, FirstDigit(t, b), Digits)
Magnitude(t, b) == IntValue(t, FirstDigit(t, b), DigitsEnd(t, b))

LEMMA NumberIs ==
    ASSUME NEW t, NEW b, NEW e, e = DigitsEnd(t, b)
    PROVE  NumberToken(t, b) =
               IF At(t, e) = "."
               THEN IF At(t, e + 1) \in Digits THEN Float(At(t, b) = "-", Magnitude(t, b), t, b, e)
                    ELSE Token("int", Magnitude(t, b), b, e + 1)
               ELSE IF At(t, e) \in NumberEnds
               THEN Token("int", IF At(t, b) = "-" THEN Wrap(-Magnitude(t, b)) ELSE Magnitude(t, b), b, e)
               ELSE Token("error", <<>>, b, e)
    BY Zenon DEF NumberToken, DigitsEnd, FirstDigit, Magnitude, Simple

\* The digits of a number.
LEMMA DigitsAre ==
    ASSUME NEW t, IsText(t), NEW b \in 1..Len(t), StartsNumber(t, b),
           NEW first, first = FirstDigit(t, b), NEW e, e = DigitsEnd(t, b)
    PROVE  /\ first \in b..b + 1 /\ first \in 1..Len(t) /\ e \in first + 1..Len(t) + 1
           /\ At(t, e) \notin Digits
           /\ \A k \in first..e - 1 : t[k] \in Digits /\ k \in 1..Len(t)
           /\ first = b + 1 => t[b] = "-"
           /\ first = b => At(t, b) # "-"
<1>1. Len(t) \in Nat /\ At(t, Len(t) + 1) = NUL /\ \A k \in 1..Len(t) : At(t, k) = t[k]
    BY TextIs
<1>2. b \in Int /\ first \in b..b + 1 /\ At(t, first) \in Digits
    BY NoDigits DEF FirstDigit, StartsNumber
<1>3. first \in 1..Len(t)
    <2>1. first # Len(t) + 1
        BY <1>1, <1>2, Characters
    <2> QED
        BY <1>1, <1>2, <2>1
<1>4. first \in Positions(t)
    BY <1>1, <1>3 DEF Positions
<1>5. FirstOut(t, first, Digits, e)
    BY <1>4, Characters, SkipIs DEF DigitsEnd
<1>6. e \in first..Len(t) + 1 /\ At(t, e) \notin Digits /\ \A k \in first..e - 1 : At(t, k) \in Digits
    BY <1>5 DEF FirstOut
<1>7. e # first
    BY <1>2, <1>6
<1>8. e \in first + 1..Len(t) + 1
    BY <1>1, <1>3, <1>6, <1>7
<1>9. \A k \in first..e - 1 : k \in 1..Len(t)
    BY <1>1, <1>3, <1>8
<1>10. first = b + 1 => t[b] = "-"
    <2>1. b # b + 1
        BY <1>2
    <2> QED
        BY <1>1, <2>1 DEF FirstDigit
<1>11. first = b => At(t, b) # "-"
    BY <1>2 DEF FirstDigit
<1> QED
    BY <1>1, <1>2, <1>3, <1>6, <1>8, <1>9, <1>10, <1>11

LEMMA NumberShape ==
    ASSUME NEW t, IsText(t), NEW b \in 1..Len(t), StartsNumber(t, b)
    PROVE  Shape(NumberToken(t, b), t, b)
<1>1. PICK first, e : first = FirstDigit(t, b) /\ e = DigitsEnd(t, b)
    OBVIOUS
<1>2. /\ first \in b..b + 1 /\ first \in 1..Len(t) /\ e \in first + 1..Len(t) + 1
    BY <1>1, DigitsAre
<1>3. Len(t) \in Nat /\ At(t, Len(t) + 1) = NUL /\ b \in Positions(t)
    BY TextIs DEF Positions
<1>4. e \in Positions(t) /\ b < e /\ b <= e
    BY <1>2, <1>3 DEF Positions
<1>5. CASE At(t, e) = "."
    <2>1. e # Len(t) + 1
        BY <1>3, <1>5 DEF NUL
    <2>2. e \in 1..Len(t) /\ e + 1 \in Positions(t) /\ b < e + 1 /\ b <= e + 1
        BY <1>2, <1>3, <1>4, <2>1 DEF Positions
    <2>3. CASE At(t, e + 1) \in Digits
        <3>1. Shape(Float(At(t, b) = "-", Magnitude(t, b), t, b, e), t, b)
            BY <1>4, <2>2, FloatShape
        <3> QED
            BY <1>1, <1>5, <2>3, <3>1, NumberIs
    <2>4. CASE At(t, e + 1) \notin Digits
        BY <1>1, <1>3, <1>5, <2>2, <2>4, NumberIs, SimpleShape
    <2> QED
        BY <2>3, <2>4
<1>6. CASE At(t, e) # "."
    <2>1. \E type, val : NumberToken(t, b) = Token(type, val, b, e)
        <3>1. CASE At(t, e) \in NumberEnds
            BY <1>1, <1>6, <3>1, NumberIs
        <3>2. CASE At(t, e) \notin NumberEnds
            BY <1>1, <1>6, <3>2, NumberIs
        <3> QED
            BY <3>1, <3>2
    <2> QED
        BY <1>3, <1>4, <2>1, SimpleShape
<1> QED
    BY <1>5, <1>6

\* The scan goes on behind a token, which takes at least a character.
LEMMA TokenShape ==
    ASSUME NEW t, IsText(t), NEW p \in Positions(t)
    PROVE  TokenStart(t, p) \in Positions(t) /\ Shape(NextToken(t, p), t, TokenStart(t, p))
<1>1. PICK b, c : b = TokenStart(t, p) /\ c = At(t, b)
    OBVIOUS
<1>2. b \in Positions(t)
    BY <1>1, TokenStartAhead
<1>3. Len(t) \in Nat /\ At(t, Len(t) + 1) = NUL
    BY TextIs
<1>4. CASE c = NUL
    <2>1. b <= b
        BY <1>2, <1>3 DEF Positions
    <2>2. NextToken(t, p) = Token("eof", <<>>, b, b)
        BY <1>1, <1>4, TokenKinds DEF Simple
    <2> QED
        BY <1>1, <1>2, <2>1, <2>2, SimpleShape
<1>5. CASE c # NUL
    <2>1. b \in 1..Len(t) /\ b + 1 \in Positions(t) /\ b < b + 1 /\ b <= b + 1
        <3>1. b # Len(t) + 1
            BY <1>1, <1>3, <1>5
        <3> QED
            BY <1>2, <1>3, <3>1 DEF Positions
    <2>2. CASE IsQuoteMark(c)
        BY <1>1, <1>2, <2>1, <2>2, TokenKinds, StringShape
    <2>3. CASE StartsNumber(t, b)
        BY <1>1, <1>2, <2>1, <2>3, TokenKinds, NumberShape DEF StartsNumber
    <2>4. CASE c \in Alpha
        BY <1>1, <1>2, <2>1, <2>4, TokenKinds, WordShape
    <2>5. CASE c \in {"(", ")", "#", "'"}
        <3>1. \E type : NextToken(t, p) = Token(type, <<>>, b, b + 1)
            BY <1>1, <2>5, TokenKinds DEF Simple
        <3> QED
            BY <1>1, <1>2, <2>1, <3>1, SimpleShape
    <2>6. CASE c = "."
        <3>1. NextToken(t, p) = PointToken(t, b)
            BY <1>1, <2>6, TokenKinds
        <3>2. Shape(PointToken(t, b), t, b)
            BY <1>1, <2>1, <2>6, PointShape
        <3> QED
            BY <1>1, <1>2, <3>1, <3>2
    <2>7. CASE /\ ~IsQuoteMark(c) /\ ~StartsNumber(t, b) /\ c \notin Alpha
               /\ c \notin {"(", ")", "#", "'"} /\ c # "."
        <3>1. NextToken(t, p) = OperatorToken(t, b)
            BY <1>1, <1>5, <2>7, TokenKinds DEF StartsNumber
        <3> QED
            BY <1>1, <1>2, <2>1, <3>1, OperatorShape
    <2> QED
        BY <2>2, <2>3, <2>4, <2>5, <2>6, <2>7
<1> QED
    BY <1>4, <1>5

\* An integer is a number.
LEMMA IntegersAreNumbers ==
    ASSUME NEW t, IsText(t), NEW p \in Positions(t), NextToken(t, p).type = "int"
    PROVE  LET b == TokenStart(t, p)
           IN  b \in 1..Len(t) /\ StartsNumber(t, b) /\ NextToken(t, p) = NumberToken(t, b)
<1>1. PICK b, c : b = TokenStart(t, p) /\ c = At(t, b)
    OBVIOUS
<1>2. b \in Positions(t)
    BY <1>1, TokenStartAhead
<1>3. Len(t) \in Nat /\ At(t, Len(t) + 1) = NUL
    BY TextIs
<1>4. \A type, val, from, to : Token(type, val, from, to).type = type
    BY DEF Token
<1>5. c # NUL
    <2>1. ASSUME c = NUL PROVE NextToken(t, p).type = "eof"
        <3>1. NextToken(t, p) = Token("eof", <<>>, b, b)
            BY <1>1, <2>1, TokenKinds DEF Simple
        <3> QED
            BY <1>4, <3>1
    <2> QED
        BY <2>1
<1>6. b \in 1..Len(t)
    <2>1. b # Len(t) + 1
        BY <1>1, <1>3, <1>5
    <2> QED
        BY <1>2, <1>3, <2>1 DEF Positions
<1>7. ~IsQuoteMark(c)
    <2>1. StringToken(t, b).type \in {"error", "string"}
        <3>1. PICK e, val : \/ StringToken(t, b) = Token("error", <<>>, b, e)
                            \/ StringToken(t, b) = Token("string", val, b, e)
            BY Zenon DEF StringToken, Simple
        <3> QED
            BY <1>4, <3>1
    <2> QED
        BY <1>1, <2>1, TokenKinds
<1>8. \A negative, n, from, point : Float(negative, n, t, from, point).type = "float"
    BY <1>4, Zenon DEF Float
<1>9. c \notin Alpha
    <2>1. PICK e, word : WordToken(t, b) = CASE word = <<"N", "I", "L">> -> Token("nil", <<>>, b, e)
                                             [] word = <<"T">> -> Token("T", <<>>, b, e)
                                             [] OTHER -> Token("symbol", word, b, e)
        BY Zenon DEF WordToken, Simple
    <2>2. WordToken(t, b).type \in {"nil", "T", "symbol"}
        <3>1. <<"N", "I", "L">> # <<"T">>
            OBVIOUS
        <3> QED
            BY <1>4, <2>1, <3>1
    <2> QED
        BY <1>1, <2>2, TokenKinds
<1>10. c \notin {"(", ")", "#", "'"}
    <2>1. ASSUME c \in {"(", ")", "#", "'"} PROVE NextToken(t, p).type \in {"open", "close", "array", "quote"}
        BY <1>1, <1>4, <2>1, TokenKinds DEF Simple
    <2> QED
        BY <2>1
<1>11. c # "."
    <2>3. PointToken(t, b).type \in {"dot", "float", "eof", "error"}
        <3>1. \/ PointToken(t, b) = Float(FALSE, 0, t, b, b)
              \/ \E type \in {"dot", "eof", "error"} : PointToken(t, b) = Token(type, <<>>, b, b + 1)
            BY PointIs
        <3>2. CASE PointToken(t, b) = Float(FALSE, 0, t, b, b)
            BY <1>8, <3>2
        <3>3. ASSUME NEW type \in {"dot", "eof", "error"}, PointToken(t, b) = Token(type, <<>>, b, b + 1)
              PROVE  PointToken(t, b).type \in {"dot", "float", "eof", "error"}
            <4>1. PointToken(t, b).type = type
                BY <1>4, <3>3
            <4> QED
                BY <4>1
        <3> QED
            BY <3>1, <3>2, <3>3
    <2> QED
        BY <1>1, <2>3, TokenKinds
<1>12. StartsNumber(t, b)
    <2>1. OperatorToken(t, b).type \in {"symbol", "error"}
        BY <1>4, OperatorIs
    <2>2. ASSUME ~StartsNumber(t, b) PROVE NextToken(t, p) = OperatorToken(t, b)
        BY <1>1, <1>5, <1>7, <1>9, <1>10, <1>11, <2>2, TokenKinds DEF StartsNumber
    <2> QED
        BY <2>1, <2>2
<1>13. NextToken(t, p) = NumberToken(t, b)
    BY <1>1, <1>12, TokenKinds DEF StartsNumber
<1> QED
    BY <1>1, <1>6, <1>12, <1>13

\* The value of an integer: that of its digits, modulo 2^IntBits.
Exact(t, tok) ==
    LET source == SubSeq(t, tok.from, tok.to - 1)
        sign == IF source[1] = "-" /\ Last(source) # "." THEN -1 ELSE 1
    IN  /\ (tok.val - sign * Decimal(source)[Len(source)]) % PowerOf2[IntBits] = 0
        /\ tok.val \in IntMin..-IntMin - 1

\* The part of a text that a token takes.
LEMMA Source ==
    ASSUME NEW t, IsText(t), NEW b \in 1..Len(t), NEW to \in b + 1..Len(t) + 1,
           NEW source, source = SubSeq(t, b, to - 1)
    PROVE  /\ Len(source) = to - b /\ Len(source) \in Nat
           /\ \A i \in 1..to - b : source[i] = t[b + i - 1]
           /\ source[1] = t[b] /\ Last(source) = t[to - 1]
<1>1. PICK S : Len(t) \in Nat /\ t \in Seq(S)
    BY TextIs DEF IsText
<1>2. b \in 1..Len(t) + 1 /\ to - 1 \in b - 1..Len(t)
    BY <1>1
<1>3. /\ Len(source) = IF b <= to - 1 THEN to - 1 - b + 1 ELSE 0
      /\ \A i \in 1..(to - 1) - b + 1 : source[i] = t[b + i - 1]
    BY <1>1, <1>2, SubSeqProperties
<1>4. Len(source) = to - b /\ Len(source) \in Nat /\ \A i \in 1..to - b : source[i] = t[b + i - 1]
    BY <1>1, <1>3
<1>5. 1 \in 1..to - b /\ to - b \in 1..to - b /\ b + 1 - 1 = b /\ b + (to - b) - 1 = to - 1
    BY <1>1
<1>6. source[1] = t[b] /\ source[to - b] = t[to - 1]
    BY <1>4, <1>5
<1> QED
    BY <1>4, <1>6 DEF Last

\* What IntValue and Decimal make of the same digits.
LEMMA DigitsAgree ==
    ASSUME NEW t, IsText(t), NEW b \in 1..Len(t), StartsNumber(t, b),
           NEW first, first = FirstDigit(t, b), NEW e, e = DigitsEnd(t, b),
           NEW to \in {e, e + 1}, to <= Len(t) + 1,
           NEW source, source = SubSeq(t, b, to - 1)
    PROVE  /\ Decimal(source)[e - b] \in Int /\ Magnitude(t, b) \in Int
           /\ Congruent(Magnitude(t, b), Decimal(source)[e - b])
<1>1. /\ first \in b..b + 1 /\ first \in 1..Len(t) /\ e \in first + 1..Len(t) + 1
      /\ \A k \in first..e - 1 : t[k] \in Digits /\ k \in 1..Len(t)
      /\ first = b + 1 => t[b] = "-"
    BY DigitsAre
<1>2. Len(t) \in Nat /\ b \in Int /\ first \in Int /\ e \in Int /\ to \in Int
    BY <1>1, TextIs
<1>3. to \in b + 1..Len(t) + 1 /\ first <= e
    BY <1>1, <1>2
<1>4. /\ Len(source) = to - b /\ Len(source) \in Nat
      /\ \A i \in 1..to - b : source[i] = t[b + i - 1]
    BY <1>3, Source
<1>5. PICK D : D = Decimal(source)
    OBVIOUS
<1>6. /\ D \in [0..to - b -> Int]
      /\ \A n \in 0..to - b : D[n] = IF n = 0 THEN 0
                                     ELSE IF source[n] \in Digits THEN 10 * D[n - 1] + DigitValue[source[n]]
                                     ELSE D[n - 1]
    BY <1>4, <1>5, DecimalIs
<1>7. PICK f : Sums(f, t, first, e) /\ Magnitude(t, b) = f[e]
    <2>1. Magnitude(t, b) = IntValue(t, first, e)
        BY DEF Magnitude
    <2>2. \A k \in first..e - 1 : t[k] \in Digits
        BY <1>1
    <2>3. \E f : Sums(f, t, first, e) /\ IntValue(t, first, e) = f[e]
        BY <1>2, <1>3, <2>2, IntValueIs
    <2> QED
        BY <2>1, <2>3
<1>8. /\ f \in [first..e -> Int] /\ f[first] = 0
      /\ \A k \in first..e : k # first => f[k] = Wrap(10 * f[k - 1] + DigitValue[t[k - 1]])
    BY <1>7 DEF Sums
<1>9. PICK S : S = {k \in first..e : Congruent(f[k], D[k - b])}
    OBVIOUS
<1>10. first \in S
    <2>1. D[0] = 0
        BY <1>2, <1>3, <1>6
    <2>2. D[first - b] = 0
        <3>1. CASE first = b
            BY <1>2, <2>1, <3>1
        <3>2. CASE first = b + 1
            <4>1. first - b = 1 /\ 1 \in 0..to - b /\ 1 \in 1..to - b /\ b + 1 - 1 = b
                BY <1>2, <1>3, <3>2
            <4>2. source[1] = t[b]
                BY <1>4, <4>1
            <4>3. D[1] = D[1 - 1]
                BY <1>1, <1>6, <3>2, <4>1, <4>2, NoDigits
            <4> QED
                BY <2>1, <4>1, <4>3
        <3> QED
            BY <1>1, <1>2, <3>1, <3>2
    <2>3. Congruent(0, 0)
        BY CongruentSelf
    <2> QED
        BY <1>2, <1>3, <1>8, <1>9, <2>2, <2>3
<1>11. ASSUME NEW k \in first..e, k # first, k - 1 \in S PROVE k \in S
    <2>1. k \in Int /\ k - 1 \in first..e - 1 /\ k - 1 \in first..e
        BY <1>2, <1>11
    <2>2. PICK i \in Int : i = k - b
        BY <1>2, <2>1
    <2>3. i \in 1..to - b /\ i \in 0..to - b /\ i # 0 /\ b + i - 1 = k - 1 /\ i - 1 = k - 1 - b /\ i - 1 \in 0..to - b
        BY <1>1, <1>2, <2>1, <2>2, <1>11
    <2>4. source[i] = t[k - 1] /\ t[k - 1] \in Digits
        BY <1>1, <1>4, <2>1, <2>3
    <2>5. PICK x \in Int, y \in Int, d \in Int :
              x = f[k - 1] /\ y = D[i - 1] /\ d = DigitValue[t[k - 1]]
        BY <1>6, <1>8, <2>1, <2>3, <2>4, DigitValues
    <2>6. D[i] = 10 * y + d
        BY <1>6, <2>3, <2>4, <2>5
    <2>7. f[k] = Wrap(10 * x + d)
        BY <1>8, <1>11, <2>5
    <2>8. Congruent(x, y)
        BY <1>9, <1>11, <2>3, <2>5
    <2>9. Congruent(f[k], D[i])
        BY <2>6, <2>7, <2>8, WrapCongruent
    <2> QED
        BY <1>9, <2>2, <2>9
<1>12. first..e \subseteq S
    BY <1>2, <1>3, <1>10, <1>11, Climbing
<1>13. e \in S /\ e - b \in 0..to - b /\ e \in first..e
    BY <1>1, <1>2, <1>3, <1>12
<1> QED
    BY <1>5, <1>6, <1>7, <1>8, <1>9, <1>13

LEMMA IntegersExact ==
    ASSUME NEW t, IsText(t), NEW p \in Positions(t), NextToken(t, p).type = "int"
    PROVE  Exact(t, NextToken(t, p))
<1>1. PICK b : b = TokenStart(t, p)
    OBVIOUS
<1>2. b \in 1..Len(t) /\ StartsNumber(t, b) /\ NextToken(t, p) = NumberToken(t, b)
    BY <1>1, IntegersAreNumbers
<1>3. PICK first, e : first = FirstDigit(t, b) /\ e = DigitsEnd(t, b)
    OBVIOUS
<1>4. /\ first \in b..b + 1 /\ first \in 1..Len(t) /\ e \in first + 1..Len(t) + 1
      /\ At(t, e) \notin Digits
      /\ \A k \in first..e - 1 : t[k] \in Digits /\ k \in 1..Len(t)
      /\ first = b + 1 => t[b] = "-"
      /\ first = b => At(t, b) # "-"
    BY <1>2, <1>3, DigitsAre
<1>5. /\ Len(t) \in Nat /\ b \in Int /\ first \in Int /\ e \in Int
      /\ At(t, Len(t) + 1) = NUL /\ \A k \in 1..Len(t) : At(t, k) = t[k]
    BY <1>2, <1>4, TextIs
<1>6. PICK n : n = Magnitude(t, b)
    OBVIOUS
<1>7. /\ \A type, val, to : Token(type, val, b, to).type = type /\ Token(type, val, b, to).val = val
      /\ \A type, val, to : Token(type, val, b, to).from = b /\ Token(type, val, b, to).to = to
      /\ \A negative, m, point : Float(negative, m, t, b, point).type = "float"
    BY DEF Token, Float
<1>8. PICK tok : tok = NextToken(t, p)
    OBVIOUS
<1>9. tok.type = "int"
    BY <1>8
<1>10. \/ At(t, e) = "." /\ tok = Token("int", n, b, e + 1)
       \/ At(t, e) # "." /\ tok = Token("int", IF At(t, b) = "-" THEN Wrap(-n) ELSE n, b, e)
    <2>1. CASE At(t, e) = "."
        <3>1. At(t, e + 1) \notin Digits
            BY <1>2, <1>3, <1>7, <1>8, <1>9, <2>1, NumberIs
        <3> QED
            BY <1>2, <1>3, <1>6, <1>8, <2>1, <3>1, NumberIs
    <2>2. CASE At(t, e) # "."
        <3>1. At(t, e) \in NumberEnds
            BY <1>2, <1>3, <1>7, <1>8, <1>9, <2>2, NumberIs
        <3> QED
            BY <1>2, <1>3, <1>6, <1>8, <2>2, <3>1, NumberIs
    <2> QED
        BY <2>1, <2>2
<1>11. PICK to : to = tok.to
    OBVIOUS
<1>12. tok.from = b /\ (At(t, e) = "." => to = e + 1) /\ (At(t, e) # "." => to = e)
    BY <1>7, <1>10, <1>11
<1>13. At(t, e) = "." => e \in 1..Len(t) /\ t[e] = "."
    <2>1. At(t, e) = "." => e # Len(t) + 1
        BY <1>5 DEF NUL
    <2> QED
        BY <1>4, <1>5, <2>1
<1>14. to \in {e, e + 1} /\ to <= Len(t) + 1 /\ to \in b + 1..Len(t) + 1
    BY <1>4, <1>5, <1>12, <1>13
<1>15. PICK source : source = SubSeq(t, b, to - 1)
    OBVIOUS
<1>16. /\ Len(source) = to - b /\ Len(source) \in Nat
       /\ \A i \in 1..to - b : source[i] = t[b + i - 1]
       /\ source[1] = t[b] /\ Last(source) = t[to - 1]
    <2>1. b \in 1..Len(t) /\ to \in b + 1..Len(t) + 1
        BY <1>2, <1>14, Zenon
    <2> QED
        <3>1. Len(source) = to - b /\ Len(source) \in Nat
            BY <1>15, <2>1, Source
        <3>2. \A i \in 1..to - b : source[i] = t[b + i - 1]
            BY <1>15, <2>1, Source
        <3>3. source[1] = t[b]
            BY <1>15, <2>1, Source
        <3>4. Last(source) = t[to - 1]
            BY <1>15, <2>1, Source
        <3> QED
            BY <3>1, <3>2, <3>3, <3>4
<1>17. PICK y \in Int : y = Decimal(source)[e - b]
    BY <1>2, <1>3, <1>14, <1>15, DigitsAgree
<1>18. n \in Int /\ Congruent(n, y)
    BY <1>2, <1>3, <1>6, <1>14, <1>15, <1>17, DigitsAgree
<1>19. Decimal(source)[Len(source)] = y
    <2>1. CASE to = e
        BY <1>16, <1>17, <2>1
    <2>2. CASE to = e + 1
        <3>1. At(t, e) = "."
            BY <1>5, <1>12, <2>2
        <3>2. PICK i \in Int : i = to - b
            BY <1>5, <2>2
        <3>3. i \in 1..to - b /\ i \in 0..Len(source) /\ i # 0 /\ b + i - 1 = e /\ i - 1 = e - b
            BY <1>4, <1>5, <1>16, <2>2, <3>2
        <3>4. source[i] = "." /\ source[i] \notin Digits
            BY <1>13, <1>16, <3>1, <3>3, NoDigits
        <3>5. Decimal(source)[i] = Decimal(source)[i - 1]
            BY <1>16, <3>3, <3>4, DecimalIs
        <3> QED
            BY <1>16, <1>17, <3>2, <3>3, <3>5
    <2> QED
        BY <1>14, <2>1, <2>2
<1>20. (At(t, b) = "-") = (source[1] = "-")
    BY <1>2, <1>5, <1>16
<1>21. Last(source) = "." <=> At(t, e) = "."
    <2>1. CASE At(t, e) = "."
        <3>1. to - 1 = e
            BY <1>5, <1>12, <2>1
        <3> QED
            BY <1>13, <1>16, <2>1, <3>1
    <2>2. CASE At(t, e) # "."
        <3>1. to - 1 = e - 1 /\ e - 1 \in first..e - 1
            BY <1>4, <1>5, <1>12, <2>2
        <3> QED
            BY <1>4, <1>16, <2>2, <3>1, NoDigits
    <2> QED
        BY <2>1, <2>2
<1>22. PICK sign : sign = IF source[1] = "-" /\ Last(source) # "." THEN -1 ELSE 1
    OBVIOUS
<1>23. /\ sign \in Int /\ tok.val \in Int /\ Congruent(tok.val, sign * y)
    <2>1. CASE source[1] = "-" /\ Last(source) # "."
        <3>1. tok.val = Wrap(-n)
            BY <1>7, <1>10, <1>20, <1>21, <2>1
        <3>2. sign * y = -y /\ sign \in Int
            BY <1>22, <2>1
        <3>3. Congruent(Wrap(-n), -y) /\ Wrap(-n) \in Int
            <4>1. -n \in Int /\ 0 \in Int
                BY <1>18
            <4> QED
                BY <1>18, <4>1, WrapCongruent, WrapIs
        <3> QED
            BY <3>1, <3>2, <3>3
    <2>2. CASE ~(source[1] = "-" /\ Last(source) # ".")
        <3>1. tok.val = n
            BY <1>7, <1>10, <1>20, <1>21, <2>2
        <3>2. sign * y = y /\ sign \in Int
            BY <1>22, <2>2
        <3> QED
            BY <1>18, <3>1, <3>2
    <2> QED
        BY <2>1, <2>2
<1>24. (tok.val - sign * y) % PowerOf2[IntBits] = 0
    <2>1. PICK sy \in Int : sy = sign * y
        BY <1>23
    <2> QED
        BY <1>23, <2>1, CongruentRemainder
<1>25. tok.val \in IntMin..-IntMin - 1
    <2>1. n \in IntMin..-IntMin - 1
        <3>1. PICK f : Sums(f, t, first, e) /\ IntValue(t, first, e) = f[e]
            <4>1. first <= e /\ \A k \in first..e - 1 : t[k] \in Digits
                BY <1>4, <1>5
            <4> QED
                BY <1>5, <4>1, IntValueIs
        <3>2. e \in first..e /\ e # first /\ e - 1 \in first..e /\ e - 1 \in first..e - 1
            BY <1>4, <1>5
        <3>3. f[e] = Wrap(10 * f[e - 1] + DigitValue[t[e - 1]]) /\ f[e - 1] \in Int
            BY <3>1, <3>2 DEF Sums
        <3>4. DigitValue[t[e - 1]] \in Int
            BY <1>4, <3>2, DigitValues
        <3>5. 10 * f[e - 1] + DigitValue[t[e - 1]] \in Int
            BY <3>3, <3>4
        <3>6. f[e] \in IntMin..-IntMin - 1
            BY <3>3, <3>5, WrapIs
        <3>7. n = IntValue(t, first, e)
            BY <1>3, <1>6 DEF Magnitude
        <3> QED
            BY <3>1, <3>6, <3>7
    <2>2. Wrap(-n) \in IntMin..-IntMin - 1
        <3>1. -n \in Int
            BY <1>18
        <3> QED
            BY <3>1, WrapIs
    <2>3. tok.val \in {n, Wrap(-n)}
        BY <1>7, <1>10
    <2> QED
        BY <2>1, <2>2, <2>3
<1> QED
    BY <1>8, <1>11, <1>12, <1>15, <1>19, <1>22, <1>24, <1>25 DEF Exact

-----------------------------------------------------------------------------
(* All tokens of a text.                                                   *)

\* Tokens at all positions.
Rest(t) ==
    LET from[p \in 1..Len(t) + 1] ==
            LET token == NextToken(t, p)
            IN  IF IsEnd(token) THEN <<token>> ELSE <<token>> \o from[token.to]
    IN  from

TokensOf(t) == {NextToken(t, p) : p \in Positions(t)}

LEMMA TokensAre == \A t : Tokens(t) = Rest(t)[1]
    BY Zenon DEF Tokens, Rest

LEMMA RestIs ==
    ASSUME NEW t, IsText(t)
    PROVE  \A p \in Positions(t) :
              /\ Rest(t)[p] \in Seq(TokensOf(t))
              /\ IsEnd(NextToken(t, p)) => Rest(t)[p] = <<NextToken(t, p)>>
              /\ ~IsEnd(NextToken(t, p)) => Rest(t)[p] = <<NextToken(t, p)>> \o Rest(t)[NextToken(t, p).to]
<1> DEFINE n == Len(t) + 1
           tok(p) == NextToken(t, p)
           V == Seq(TokensOf(t))
           Step(f, p) == IF IsEnd(tok(p)) THEN <<tok(p)>> ELSE <<tok(p)>> \o f[tok(p).to]
           Is(f) == f = [p \in 1..Len(t) + 1 |->
                            LET token == NextToken(t, p)
                            IN  IF IsEnd(token) THEN <<token>> ELSE <<token>> \o f[token.to]]
<1>1. n \in Nat /\ Positions(t) = 1..n
    BY TextIs DEF Positions
<1>2. \A p \in 1..n : tok(p).to \in 1..n /\ (~IsEnd(tok(p)) => p < tok(p).to)
    <2> TAKE p \in 1..n
    <2>1. PICK b : b = TokenStart(t, p)
        OBVIOUS
    <2>2. b \in 1..n /\ p <= b /\ Shape(tok(p), t, b)
        BY <1>1, <2>1, TokenStartAhead, TokenShape
    <2>3. PICK to : to = tok(p).to
        OBVIOUS
    <2>4. to \in 1..n /\ (~IsEnd(tok(p)) => b < to)
        BY <1>1, <2>2, <2>3 DEF Shape
    <2>5. ~IsEnd(tok(p)) => p < to
        BY <1>1, <2>2, <2>4
    <2> QED
        BY <2>3, <2>4, <2>5
<1>3. \A p \in 1..n : tok(p) \in TokensOf(t)
    BY <1>1 DEF TokensOf
<1> HIDE DEF tok
<1>4. PICK next : next = [p \in 1..n |-> IF IsEnd(tok(p)) THEN 0 ELSE tok(p).to]
    OBVIOUS
<1>5. LeadsOn(next, n)
    <2>1. ASSUME NEW p \in 1..n PROVE next[p] \in Nat /\ (next[p] # 0 => p < next[p] /\ next[p] <= n)
        <3>1. CASE IsEnd(tok(p))
            BY <1>4, <3>1
        <3>2. CASE ~IsEnd(tok(p))
            <4>1. next[p] = tok(p).to /\ tok(p).to \in 1..n /\ p < tok(p).to
                BY <1>2, <1>4, <3>2
            <4> QED
                BY <1>1, <4>1
        <3> QED
            BY <3>1, <3>2
    <2> QED
        BY <1>4, <2>1 DEF LeadsOn
<1>6. PICK stop : stop = [p \in 1..n |-> <<tok(p)>>]
    OBVIOUS
<1>7. PICK op : op = [x \in V \X V |-> x[1] \o x[2]]
    OBVIOUS
<1>8. stop \in [1..n -> V] /\ op \in [V \X V -> V]
    <2>1. \A p \in 1..n : <<tok(p)>> \in V
        BY <1>3
    <2>2. \A x, y \in V : x \o y \in V
        BY ConcatProperties
    <2> QED
        BY <1>6, <1>7, <2>1, <2>2
<1>9. PICK f \in [1..n -> V] : Leads(f, n, next, stop, op)
    <2> HIDE DEF V
    <2> QED
        BY <1>1, <1>5, <1>8, Descending
<1>10. \A p \in 1..n : f[p] = Step(f, p)
    <2> TAKE p \in 1..n
    <2>1. f[p] = IF next[p] = 0 THEN stop[p] ELSE op[<<stop[p], f[next[p]]>>]
        BY <1>9 DEF Leads
    <2>2. CASE ~IsEnd(tok(p))
        <3>1. next[p] = tok(p).to /\ tok(p).to \in 1..n
            BY <1>2, <1>4, <2>2
        <3>2. next[p] # 0
            BY <1>1, <3>1
        <3>3. stop[p] \in V /\ f[next[p]] \in V
            BY <1>8, <1>9, <3>1
        <3>4. op[<<stop[p], f[next[p]]>>] = stop[p] \o f[next[p]]
            <4> HIDE DEF V
            <4> QED
                BY <1>7, <3>3
        <3> QED
            BY <1>6, <2>1, <2>2, <3>1, <3>2, <3>4
    <2>3. CASE IsEnd(tok(p))
        BY <1>4, <1>6, <2>1, <2>3
    <2> QED
        BY <2>2, <2>3
<1>11. Is(f)
    <2>1. f = [p \in 1..n |-> f[p]]
        BY <1>9
    <2>2. f = [p \in 1..n |-> Step(f, p)]
        BY <1>10, <2>1, Zenon
    <2> QED
        BY <2>2, Zenon DEF tok
<1> HIDE DEF Is
<1>12. PICK h : h = CHOOSE from : Is(from)
    OBVIOUS
<1>13. Is(h)
    BY <1>11, <1>12, Zenon
<1>14. Rest(t) = h
    BY <1>12, Zenon DEF Rest, Is
<1>15. h = [p \in 1..n |-> Step(h, p)]
    BY <1>13, Zenon DEF tok, Is
<1>16. \A p \in 1..n : h[p] = Step(h, p)
    BY <1>15, Zenon
<1>17. PICK S : S = {p \in 1..n : h[p] \in V}
    OBVIOUS
<1>18. ASSUME NEW p \in 1..n, \A r \in (p + 1)..n : r \in S PROVE p \in S
    <2>1. h[p] = Step(h, p) /\ <<tok(p)>> \in V
        BY <1>3, <1>16
    <2>2. CASE ~IsEnd(tok(p))
        <3>1. PICK r : r = tok(p).to
            OBVIOUS
        <3>2. r \in (p + 1)..n
            BY <1>1, <1>2, <2>2, <3>1
        <3>3. h[r] \in V
            BY <1>17, <1>18, <3>2
        <3>4. <<tok(p)>> \o h[r] \in V
            BY <2>1, <3>3, ConcatProperties
        <3> QED
            BY <1>17, <2>1, <2>2, <3>1, <3>4
    <2>3. CASE IsEnd(tok(p))
        BY <1>17, <2>1, <2>3
    <2> QED
        BY <2>2, <2>3
<1>19. 1..n \subseteq S
    BY <1>1, <1>18, Backwards
<1> QED
    BY <1>1, <1>14, <1>16, <1>17, <1>19 DEF tok

-----------------------------------------------------------------------------
(* The scan.                                                               *)

Read(t, found, p) ==
    /\ IsText(t) /\ p \in Positions(t)
    /\ found \in Seq(TokensOf(t))
    /\ \A k \in 1..Len(found) :
          /\ 1 <= found[k].from /\ found[k].from <= found[k].to /\ found[k].to <= p
          /\ ~IsEnd(found[k]) => found[k].from < found[k].to
          /\ k > 1 => found[k - 1].to <= found[k].from
    /\ found # <<>> => p = Last(found).to
    /\ IF found # <<>> /\ IsEnd(Last(found)) THEN Tokens(t) = found
       ELSE Tokens(t) = found \o Rest(t)[p]

\* What is read, and what is to be read: together all found of the text.
ScanInv == text \in Texts /\ Read(text, read, current_char)

LEMMA ScanStarts == TextsAssumption /\ ScanInit => ScanInv
<1>1. SUFFICES ASSUME TextsAssumption, ScanInit PROVE ScanInv
    OBVIOUS
<1>2. PICK t : t = text
    OBVIOUS
<1>3. t \in Texts /\ read = <<>> /\ current_char = 1 /\ IsText(t)
    BY <1>1, <1>2 DEF ScanInit, TextsAssumption, IsText
<1>4. 1 \in Positions(t)
    BY <1>3, TextIs DEF Positions
<1>5. Rest(t)[1] \in Seq(TokensOf(t))
    BY <1>3, <1>4, RestIs
<1>6. Tokens(t) = <<>> \o Rest(t)[1]
    BY <1>5, TokensAre, ConcatEmptySeq
<1>7. <<>> \in Seq(TokensOf(t)) /\ Len(<<>>) = 0
    OBVIOUS
<1>8. Read(t, <<>>, 1)
    BY <1>3, <1>4, <1>6, <1>7 DEF Read
<1> QED
    BY <1>2, <1>3, <1>8 DEF ScanInv

LEMMA ReadOn ==
    ASSUME NEW t, NEW found, NEW p, Read(t, found, p), ~(found # <<>> /\ IsEnd(Last(found))),
           NEW tok, tok = NextToken(t, p), NEW more, more = Append(found, tok)
    PROVE  Read(t, more, tok.to)
<1>1. /\ IsText(t) /\ p \in Positions(t) /\ found \in Seq(TokensOf(t))
      /\ \A k \in 1..Len(found) :
            /\ 1 <= found[k].from /\ found[k].from <= found[k].to /\ found[k].to <= p
            /\ ~IsEnd(found[k]) => found[k].from < found[k].to
            /\ k > 1 => found[k - 1].to <= found[k].from
      /\ found # <<>> => p = Last(found).to
      /\ Tokens(t) = found \o Rest(t)[p]
    BY DEF Read
<1>2. tok \in TokensOf(t)
    BY <1>1 DEF TokensOf
<1>3. PICK n \in Nat : n = Len(found)
    BY <1>1
<1>4. /\ more \in Seq(TokensOf(t)) /\ Len(more) = n + 1 /\ more[n + 1] = tok
      /\ \A k \in 1..n : more[k] = found[k]
    BY <1>1, <1>2, <1>3, AppendProperties
<1>5. PICK b : b = TokenStart(t, p)
    OBVIOUS
<1>6. b \in Positions(t) /\ p <= b /\ Shape(tok, t, b)
    BY <1>1, <1>5, TokenStartAhead, TokenShape
<1>7. Len(t) \in Nat /\ p \in Int /\ 1 <= p
    BY <1>1, TextIs DEF Positions
<1>8. tok.from = b /\ tok.to \in Positions(t) /\ b <= tok.to /\ (~IsEnd(tok) => b < tok.to)
    <2>1. tok = Token(tok.type, tok.val, b, tok.to)
        BY <1>6 DEF Shape
    <2>2. tok.from = b
        BY <2>1 DEF Token
    <2> QED
        BY <1>6, <2>2 DEF Shape
<1>9. tok.to \in Int /\ b \in Int /\ 1 <= b /\ p <= tok.to
    BY <1>6, <1>7, <1>8 DEF Positions
<1>10. \A q \in TokensOf(t) : q.to \in Int /\ q.from \in Int
    <2>1. ASSUME NEW r \in Positions(t) PROVE NextToken(t, r).to \in Int /\ NextToken(t, r).from \in Int
        <3>1. PICK s : s = TokenStart(t, r)
            OBVIOUS
        <3>2. s \in Positions(t) /\ Shape(NextToken(t, r), t, s)
            BY <1>1, <3>1, TokenShape
        <3>3. NextToken(t, r).from = s
            <4>1. NextToken(t, r) = Token(NextToken(t, r).type, NextToken(t, r).val, s, NextToken(t, r).to)
                BY <3>2 DEF Shape
            <4> QED
                BY <4>1 DEF Token
        <3> QED
            BY <1>7, <3>2, <3>3 DEF Shape, Positions
    <2> QED
        BY <2>1 DEF TokensOf
<1>11. ASSUME NEW k \in 1..Len(more)
       PROVE  /\ 1 <= more[k].from /\ more[k].from <= more[k].to /\ more[k].to <= tok.to
              /\ ~IsEnd(more[k]) => more[k].from < more[k].to
              /\ k > 1 => more[k - 1].to <= more[k].from
    <2>1. CASE k = n + 1
        <3>1. more[k] = tok
            BY <1>4, <2>1
        <3>2. k > 1 => more[k - 1].to = p
            <4>1. ASSUME k > 1 PROVE k - 1 = n /\ n \in 1..n /\ found # <<>>
                BY <1>3, <2>1, <4>1
            <4>2. Last(found) = found[n]
                BY <1>3 DEF Last
            <4> QED
                BY <1>1, <1>4, <4>1, <4>2
        <3> QED
            BY <1>6, <1>7, <1>8, <1>9, <3>1, <3>2
    <2>2. CASE k # n + 1
        <3>1. k \in 1..n /\ (k > 1 => k - 1 \in 1..n)
            BY <1>4, <2>2
        <3>2. more[k] = found[k] /\ (k > 1 => more[k - 1] = found[k - 1])
            BY <1>4, <3>1
        <3>3. found[k] \in TokensOf(t)
            BY <1>1, <1>3, <3>1
        <3>4. found[k].to \in Int /\ found[k].to <= p
            BY <1>1, <1>3, <1>10, <3>1, <3>3
        <3>5. found[k].to <= tok.to
            BY <1>7, <1>9, <3>4
        <3> QED
            BY <1>1, <1>3, <3>1, <3>2, <3>5
    <2> QED
        BY <2>1, <2>2
<1>12. more # <<>> /\ Last(more) = tok
    BY <1>4 DEF Last
<1>13. found \in Seq(TokensOf(t)) /\ <<tok>> \in Seq(TokensOf(t)) /\ more = found \o <<tok>>
    BY <1>1, <1>2, AppendIsConcat
<1>14. Rest(t)[p] \in Seq(TokensOf(t)) /\ Rest(t)[tok.to] \in Seq(TokensOf(t))
    BY <1>1, <1>8, RestIs
<1>15. IsEnd(tok) => Tokens(t) = more
    BY <1>1, <1>13, RestIs
<1>16. ~IsEnd(tok) => Tokens(t) = more \o Rest(t)[tok.to]
    <2>1. ~IsEnd(tok) => Rest(t)[p] = <<tok>> \o Rest(t)[tok.to]
        BY <1>1, RestIs
    <2>2. PICK one, rest : one = <<tok>> /\ rest = Rest(t)[tok.to]
        OBVIOUS
    <2>3. PICK S : S = TokensOf(t)
        OBVIOUS
    <2>4. found \in Seq(S) /\ one \in Seq(S) /\ rest \in Seq(S)
        BY <1>13, <1>14, <2>2, <2>3, Zenon
    <2>5. (found \o one) \o rest = found \o (one \o rest)
        BY <2>4, ConcatAssociative
    <2>6. more = found \o one
        BY <1>13, <2>2, Zenon
    <2>7. ASSUME ~IsEnd(tok) PROVE Tokens(t) = found \o (one \o rest)
        BY <1>1, <2>1, <2>2, <2>7, Zenon
    <2> QED
        BY <2>2, <2>5, <2>6, <2>7, Zenon
<1> QED
    BY <1>1, <1>4, <1>8, <1>11, <1>12, <1>15, <1>16 DEF Read

LEMMA ScanGoesOn == ScanInv /\ [GetNextToken]_scanVars => ScanInv'
<1>1. SUFFICES ASSUME ScanInv, [GetNextToken]_scanVars PROVE ScanInv'
    OBVIOUS
<1>2. CASE GetNextToken
    <2>1. PICK tok : tok = NextToken(text, current_char)
        OBVIOUS
    <2>2. /\ ~(read # <<>> /\ IsEnd(Last(read))) /\ text' = text
          /\ current_char' = tok.to /\ read' = Append(read, tok)
        BY <1>2, <2>1 DEF GetNextToken, Ended
    <2>3. Read(text, Append(read, tok), tok.to)
        BY <1>1, <2>1, <2>2, ReadOn DEF ScanInv
    <2> QED
        BY <1>1, <2>2, <2>3 DEF ScanInv
<1>3. CASE UNCHANGED scanVars
    <2>1. text' = text /\ read' = read /\ current_char' = current_char
        BY <1>3 DEF scanVars
    <2> QED
        BY <1>1, <2>1 DEF ScanInv
<1> QED
    BY <1>1, <1>2, <1>3

LEMMA ScanHolds == TextsAssumption => (ScanSpec => []ScanInv)
<1>1. SUFFICES ASSUME TextsAssumption PROVE ScanSpec => []ScanInv
    OBVIOUS
<1>2. ScanInit => ScanInv
    BY <1>1, ScanStarts
<1>3. ScanInv /\ [GetNextToken]_scanVars => ScanInv'
    BY ScanGoesOn
<1> QED
    BY <1>2, <1>3, PTL DEF ScanSpec

\* An integer token has the value of its digits, however many there are and wherever
\* int overflows (parser.c, lines 73 to 97).
THEOREM IntegersHaveTheirValue == TextsAssumption => (ScanSpec => []IntegerValue)
<1>1. ScanInv => IntegerValue
    <2>1. SUFFICES ASSUME ScanInv, NEW k \in DOMAIN read, read[k].type = "int"
                   PROVE  Exact(text, read[k])
        BY Zenon DEF IntegerValue, Exact, Decimal
    <2>2. IsText(text) /\ read \in Seq(TokensOf(text))
        BY <2>1 DEF ScanInv, Read
    <2>3. read[k] \in TokensOf(text)
        BY <2>2
    <2>4. PICK p \in Positions(text) : read[k] = NextToken(text, p)
        BY <2>3 DEF TokensOf
    <2> QED
        BY <2>1, <2>2, <2>4, IntegersExact
<1> QED
    BY <1>1, ScanHolds, PTL

-----------------------------------------------------------------------------
(* Texts that differ only in capitals, in their blanks or by one blank at  *)
(* the end.                                                                *)

Gaps == Pauses \cup {NUL}
Marks == Digits \cup Once \cup {"(", ")", "#", "'", "."}

\* Characters between which the tokenizer hardly ever distinguishes.
Akin(c, d) ==
    \/ c = d
    \/ c \in Alpha /\ d \in Alpha /\ ToUpper(c) = ToUpper(d)
    \/ c \in Gaps /\ d \in Gaps

LEMMA AlphaIs ==
    \A c \in Alpha : /\ c \notin Marks /\ c \notin Delimiters /\ c \notin Spaces /\ c \notin Pauses
                     /\ c # NUL /\ ~IsComment(c) /\ ~IsQuoteMark(c) /\ c \notin NumberEnds /\ c \notin LineEnds
<1>1. \A c \in Alpha : c \notin Marks
    BY DEF Alpha, Lower, Upper, Marks, Digits, Once
<1>2. \A c \in Alpha : c \notin Delimiters /\ c \notin NumberEnds
    BY Zenon DEF Alpha, Lower, Upper, Delimiters, NumberEnds, NUL
<1>3. \A c \in Alpha : c \notin Spaces /\ c \notin Pauses /\ c # NUL /\ c \notin LineEnds
    BY Zenon DEF Alpha, Lower, Upper, Spaces, Pauses, NUL, LineEnds
<1>4. \A c \in Alpha : ~IsComment(c) /\ ~IsQuoteMark(c)
    BY Zenon DEF Alpha, Lower, Upper, IsComment, IsQuoteMark
<1> QED
    BY <1>1, <1>2, <1>3, <1>4

LEMMA GapsAre ==
    \A c \in Gaps : /\ c \notin Marks /\ c \in Delimiters
                    /\ c # NUL => c \in Spaces /\ c \in Pauses
                    /\ ~IsComment(c) /\ ~IsQuoteMark(c)
<1>1. \A c \in Gaps : c \notin Marks
    BY Zenon DEF Gaps, Pauses, NUL, Marks, Digits, Once
<1>2. \A c \in Gaps : c \in Delimiters
    BY Zenon DEF Gaps, Pauses, NUL, Delimiters
<1>3. \A c \in Gaps : c # NUL => c \in Spaces /\ c \in Pauses
    BY Zenon DEF Gaps, Pauses, NUL, Spaces
<1>4. \A c \in Gaps : ~IsComment(c) /\ ~IsQuoteMark(c)
    BY Zenon DEF Gaps, Pauses, NUL, IsComment, IsQuoteMark
<1> QED
    BY <1>1, <1>2, <1>3, <1>4

LEMMA AkinCharacters ==
    ASSUME NEW c, NEW d, Akin(c, d)
    PROVE  /\ d \in Alpha <=> c \in Alpha
           /\ d \in Delimiters <=> c \in Delimiters
           /\ IsComment(d) <=> IsComment(c)
           /\ IsQuoteMark(d) <=> IsQuoteMark(c)
           /\ c # NUL /\ d # NUL => (d \in Spaces <=> c \in Spaces) /\ (d \in Pauses <=> c \in Pauses)
           /\ c \notin Delimiters => ToUpper(d) = ToUpper(c)
           /\ c \in Marks \/ d \in Marks => d = c
           /\ d \in Digits <=> c \in Digits
<1>1. CASE c = d
    BY <1>1
<1>2. CASE c \in Alpha /\ d \in Alpha /\ ToUpper(c) = ToUpper(d)
    BY <1>2, AlphaIs DEF Marks
<1>3. CASE c \in Gaps /\ d \in Gaps
    <2>1. d \notin Alpha /\ c \notin Alpha
        BY <1>3, GapsAre, AlphaIs
    <2> QED
        BY <1>3, <2>1, GapsAre DEF Marks
<1> QED
    BY <1>1, <1>2, <1>3 DEF Akin

Similar(t, u) ==
    /\ IsText(t) /\ IsText(u)
    /\ \/ Len(u) = Len(t)
       \/ Len(u) = Len(t) + 1 /\ u[Len(u)] \in Pauses /\ u[Len(u)] \in NumberEnds
          /\ u[Len(u)] \notin LineEnds /\ (t # <<>> => t[Len(t)] # ".")
    /\ \A k \in 1..Len(t) :
          /\ Akin(t[k], u[k])
          /\ k > 1 /\ t[k - 1] \in Digits => (u[k] \in NumberEnds <=> t[k] \in NumberEnds)
    /\ (\E k \in 1..Len(t) : IsQuoteMark(t[k])) => \A k \in 1..Len(t) : u[k] = t[k]
    /\ (\E k \in 1..Len(t) : IsComment(t[k])) =>
           \A k \in 1..Len(t) : u[k] \in LineEnds <=> t[k] \in LineEnds

\* Positions in the two texts with the same text before them, and the same or only
\* blanks behind them.
Parallel(t, u, p, q) == p \in Positions(t) /\ (q = p \/ (p = Len(t) + 1 /\ q = Len(u) + 1))
\* The same character, or the end of both.
SamePlace(t, u, b, c) == (b \in 1..Len(t) /\ c = b) \/ (b = Len(t) + 1 /\ c = Len(u) + 1)

LEMMA SimilarTexts ==
    ASSUME NEW t, NEW u, Similar(t, u)
    PROVE  /\ Len(t) \in Nat /\ Len(u) \in Nat /\ Len(u) \in {Len(t), Len(t) + 1}
           /\ \A k \in 1..Len(t) : /\ At(t, k) = t[k] /\ At(u, k) = u[k] /\ k \in 1..Len(u)
                                   /\ At(t, k) # NUL /\ At(u, k) # NUL
                                   /\ Akin(At(t, k), At(u, k))
           /\ At(t, Len(t) + 1) = NUL /\ At(u, Len(u) + 1) = NUL
           /\ Len(u) = Len(t) + 1 => At(u, Len(t) + 1) \in Pauses /\ At(u, Len(t) + 1) # NUL
           /\ Akin(At(t, Len(t) + 1), At(u, Len(t) + 1))
<1>1. /\ Len(t) \in Nat /\ Len(u) \in Nat /\ Len(u) \in {Len(t), Len(t) + 1}
      /\ At(t, Len(t) + 1) = NUL /\ At(u, Len(u) + 1) = NUL
    BY TextIs DEF Similar
<1>2. \A k \in 1..Len(t) : k \in 1..Len(u)
    BY <1>1
<1>3. \A k \in 1..Len(t) : At(t, k) = t[k] /\ At(t, k) # NUL
    BY TextIs DEF Similar
<1>4. \A k \in 1..Len(u) : At(u, k) = u[k] /\ At(u, k) # NUL
    BY TextIs DEF Similar
<1>5. \A k \in 1..Len(t) : Akin(t[k], u[k])
    BY DEF Similar
<1>6. Len(u) = Len(t) + 1 => At(u, Len(t) + 1) \in Pauses /\ At(u, Len(t) + 1) # NUL
    <2>1. SUFFICES ASSUME Len(u) = Len(t) + 1 PROVE At(u, Len(u)) \in Pauses /\ At(u, Len(u)) # NUL
        OBVIOUS
    <2>2. Len(u) \in 1..Len(u)
        BY <1>1, <2>1
    <2>3. u[Len(u)] \in Pauses
        BY <1>1, <2>1 DEF Similar
    <2> QED
        BY <1>4, <2>2, <2>3
<1>7. Akin(At(t, Len(t) + 1), At(u, Len(t) + 1))
    <2>1. CASE Len(u) = Len(t)
        BY <1>1, <2>1 DEF Akin
    <2>2. CASE Len(u) = Len(t) + 1
        BY <1>1, <1>6, <2>2 DEF Akin, Gaps
    <2> QED
        BY <1>1, <2>1, <2>2
<1> QED
    BY <1>1, <1>2, <1>3, <1>4, <1>5, <1>6, <1>7

\* What the code asks of characters, it finds in both texts alike.
LEMMA SimilarCharacters ==
    ASSUME NEW t, NEW u, Similar(t, u), NEW k \in Positions(t)
    PROVE  Akin(At(t, k), At(u, k))
<1>1. k \in 1..Len(t) \/ k = Len(t) + 1
    BY SimilarTexts DEF Positions
<1> QED
    BY <1>1, SimilarTexts

\* skip over a set that holds digits only, or delimiters, is the same.
LEMMA SameFind ==
    ASSUME NEW t, NEW u, Similar(t, u), NEW p \in Positions(t), NEW S, NUL \in S,
           \A k \in Positions(t) : At(u, k) \in S <=> At(t, k) \in S
    PROVE  Find(u, p, S) = Find(t, p, S) /\ FirstIn(t, p, S, Find(t, p, S))
<1>1. IsText(t) /\ IsText(u) /\ Len(t) \in Nat /\ Len(u) \in Nat /\ Len(t) <= Len(u)
    BY SimilarTexts DEF Similar
<1>2. p \in Positions(u)
    BY <1>1 DEF Positions
<1>3. PICK e, f : e = Find(t, p, S) /\ f = Find(u, p, S)
    OBVIOUS
<1>4. FirstIn(t, p, S, e) /\ FirstIn(u, p, S, f)
    BY <1>1, <1>2, <1>3, FindIs
<1>5. \A k \in p..e : At(u, k) \in S <=> At(t, k) \in S
    BY <1>1, <1>4 DEF FirstIn, Positions
<1>6. f = e
    BY <1>1, <1>4, <1>5, FirstInOnce
<1> QED
    BY <1>3, <1>4, <1>6

LEMMA SameSkip ==
    ASSUME NEW t, NEW u, Similar(t, u), NEW p \in Positions(t)
    PROVE  SkipAll(u, p, Digits) = SkipAll(t, p, Digits) /\ FirstOut(t, p, Digits, SkipAll(t, p, Digits))
<1>1. IsText(t) /\ IsText(u) /\ Len(t) \in Nat /\ Len(u) \in Nat /\ Len(t) <= Len(u)
    BY SimilarTexts DEF Similar
<1>2. p \in Positions(u)
    BY <1>1 DEF Positions
<1>3. PICK e, f : e = SkipAll(t, p, Digits) /\ f = SkipAll(u, p, Digits)
    OBVIOUS
<1>4. FirstOut(t, p, Digits, e) /\ FirstOut(u, p, Digits, f)
    BY <1>1, <1>2, <1>3, Characters, SkipIs
<1>5. \A k \in p..e : k \in Positions(t)
    BY <1>1, <1>4 DEF FirstOut, Positions
<1>6. \A k \in p..e : At(u, k) \in Digits <=> At(t, k) \in Digits
    BY <1>5, SimilarCharacters, AkinCharacters
<1>7. f = e
    BY <1>1, <1>4, <1>6, FirstOutOnce
<1> QED
    BY <1>3, <1>4, <1>7

\* The blanks, and the one that is behind the shorter text.
LEMMA SkipsAlike ==
    ASSUME NEW t, NEW u, Similar(t, u), NEW q \in Positions(t)
    PROVE  SamePlace(t, u, SkipAll(t, q, Spaces), SkipAll(u, q, Spaces))
<1>1. IsText(t) /\ IsText(u) /\ Len(t) \in Nat /\ Len(u) \in Nat /\ Len(u) \in {Len(t), Len(t) + 1}
    BY SimilarTexts DEF Similar
<1>2. q \in Positions(u) /\ q \in Int /\ 1 <= q /\ q <= Len(t) + 1
    BY <1>1 DEF Positions
<1>3. PICK s, r : s = SkipAll(t, q, Spaces) /\ r = SkipAll(u, q, Spaces)
    OBVIOUS
<1>4. FirstOut(t, q, Spaces, s) /\ FirstOut(u, q, Spaces, r)
    BY <1>1, <1>2, <1>3, Characters, SkipIs
<1>5. \A k \in 1..Len(t) : At(u, k) \in Spaces <=> At(t, k) \in Spaces
    BY SimilarTexts, AkinCharacters
<1>6. CASE s \in 1..Len(t)
    <2>1. \A k \in q..s : k \in 1..Len(t)
        BY <1>1, <1>2, <1>6
    <2>2. \A k \in q..s : At(u, k) \in Spaces <=> At(t, k) \in Spaces
        BY <1>5, <2>1
    <2>3. r = s
        BY <1>1, <1>4, <2>2, FirstOutOnce
    <2> QED
        BY <1>3, <1>6, <2>3 DEF SamePlace
<1>7. CASE s = Len(t) + 1
    <2>1. \A k \in q..Len(t) : At(u, k) \in Spaces
        <3>1. ASSUME NEW k \in q..Len(t) PROVE k \in q..s - 1 /\ k \in 1..Len(t)
            BY <1>1, <1>2, <1>7
        <3>2. ASSUME NEW k \in q..Len(t) PROVE At(t, k) \in Spaces /\ k \in 1..Len(t)
            BY <1>4, <3>1 DEF FirstOut
        <3> QED
            BY <1>5, <3>2
    <2>2. \A k \in q..Len(u) : At(u, k) \in Spaces
        <3>1. CASE Len(u) = Len(t)
            BY <2>1, <3>1
        <3>2. CASE Len(u) = Len(t) + 1
            <4>1. At(u, Len(t) + 1) \in Pauses
                BY <3>2, SimilarTexts
            <4>2. \A c \in Pauses : c \in Spaces
                BY Zenon DEF Pauses, Spaces
            <4>3. \A k \in q..Len(u) : k \in q..Len(t) \/ k = Len(t) + 1
                BY <1>1, <1>2, <3>2
            <4> QED
                BY <2>1, <4>1, <4>2, <4>3
        <3> QED
            BY <1>1, <3>1, <3>2
    <2>3. r \in q..Len(u) + 1 /\ At(u, r) \notin Spaces
        BY <1>4 DEF FirstOut
    <2>4. r \notin q..Len(u)
        BY <2>2, <2>3
    <2>5. r = Len(u) + 1
        BY <1>1, <1>2, <2>3, <2>4
    <2> QED
        BY <1>3, <1>7, <2>5 DEF SamePlace
<1>8. s \in q..Len(t) + 1
    BY <1>4 DEF FirstOut
<1> QED
    BY <1>1, <1>2, <1>6, <1>7, <1>8

\* The rest of a line.
LEMMA LinesAlike ==
    ASSUME NEW t, NEW u, Similar(t, u), NEW s \in 1..Len(t), IsComment(t[s])
    PROVE  Parallel(t, u, SkipLine(t, s), SkipLine(u, s))
<1>1. /\ IsText(t) /\ IsText(u) /\ Len(t) \in Nat /\ Len(u) \in Nat /\ Len(u) \in {Len(t), Len(t) + 1}
      /\ At(t, Len(t) + 1) = NUL /\ At(u, Len(u) + 1) = NUL
    BY SimilarTexts DEF Similar
<1>2. s \in Positions(t) /\ s \in Positions(u) /\ s \in Int /\ 1 <= s /\ s <= Len(t)
    BY <1>1 DEF Positions
<1>3. PICK e, f : e = Find(t, s, LineEnds) /\ f = Find(u, s, LineEnds)
    OBVIOUS
<1>4. FirstIn(t, s, LineEnds, e) /\ FirstIn(u, s, LineEnds, f)
    BY <1>1, <1>2, <1>3, Characters, FindIs
<1>5. \A k \in 1..Len(t) : At(u, k) \in LineEnds <=> At(t, k) \in LineEnds
    BY SimilarTexts DEF Similar
<1>6. /\ SkipLine(t, s) = IF At(t, e) = NUL THEN e ELSE e + 1
      /\ SkipLine(u, s) = IF At(u, f) = NUL THEN f ELSE f + 1
    BY <1>3, SkipLineIs
<1>7. CASE e \in 1..Len(t)
    <2>1. \A k \in s..e : k \in 1..Len(t)
        BY <1>1, <1>2, <1>7
    <2>2. \A k \in s..e : At(u, k) \in LineEnds <=> At(t, k) \in LineEnds
        BY <1>5, <2>1
    <2>3. f = e
        BY <1>1, <1>2, <1>4, <2>2, FirstInOnce
    <2>4. At(t, e) # NUL /\ At(u, e) # NUL
        BY <1>7, SimilarTexts
    <2>5. e + 1 \in Positions(t)
        BY <1>1, <1>7 DEF Positions
    <2> QED
        BY <1>6, <2>3, <2>4, <2>5 DEF Parallel
<1>8. CASE e = Len(t) + 1
    <2>1. \A k \in s..Len(t) : At(u, k) \notin LineEnds
        <3>1. \A k \in s..Len(t) : k \in s..e - 1 /\ k \in 1..Len(t)
            BY <1>1, <1>2, <1>8
        <3> QED
            BY <1>4, <1>5, <3>1 DEF FirstIn
    <2>2. \A k \in s..Len(u) : At(u, k) \notin LineEnds
        <3>1. CASE Len(u) = Len(t)
            BY <2>1, <3>1
        <3>2. CASE Len(u) = Len(t) + 1
            <4>1. At(u, Len(t) + 1) \notin LineEnds
                <5>1. Len(u) \in 1..Len(u)
                    BY <1>1, <3>2
                <5>2. At(u, Len(u)) = u[Len(u)]
                    BY <1>1, <5>1, TextIs
                <5>3. u[Len(u)] \notin LineEnds
                    BY <1>1, <3>2 DEF Similar
                <5> QED
                    BY <3>2, <5>2, <5>3
            <4>2. \A k \in s..Len(u) : k \in s..Len(t) \/ k = Len(t) + 1
                BY <1>1, <1>2, <3>2
            <4> QED
                BY <2>1, <4>1, <4>2
        <3> QED
            BY <1>1, <3>1, <3>2
    <2>3. f \in s..Len(u) + 1 /\ At(u, f) \in LineEnds
        BY <1>4 DEF FirstIn
    <2>4. f \notin s..Len(u)
        BY <2>2, <2>3
    <2>5. f = Len(u) + 1
        BY <1>1, <1>2, <2>3, <2>4
    <2>6. Len(t) + 1 \in Positions(t)
        BY <1>1 DEF Positions
    <2> QED
        BY <1>1, <1>6, <1>8, <2>5, <2>6 DEF Parallel
<1>9. e \in s..Len(t) + 1
    BY <1>4 DEF FirstIn
<1> QED
    BY <1>1, <1>2, <1>7, <1>8, <1>9

\* So tokens begin at the same places.
LEMMA StartsAlike ==
    ASSUME NEW t, NEW u, Similar(t, u), NEW p, NEW q, Parallel(t, u, p, q)
    PROVE  SamePlace(t, u, TokenStart(t, p), TokenStart(u, q))
<1>1. /\ IsText(t) /\ IsText(u) /\ Len(t) \in Nat /\ Len(u) \in Nat /\ Len(u) \in {Len(t), Len(t) + 1}
      /\ At(t, Len(t) + 1) = NUL /\ At(u, Len(u) + 1) = NUL
    BY SimilarTexts DEF Similar
<1>2. PICK n \in Nat : n = Len(t) + 1 /\ Positions(t) = 1..n
    BY <1>1 DEF Positions
<1>3. PICK f, g : f = Starts(t) /\ g = Starts(u)
    OBVIOUS
<1>4. ASSUME NEW v, IsText(v), NEW k \in Positions(v)
      PROVE  Starts(v)[k] = IF IsComment(At(v, SkipAll(v, k, Spaces)))
                            THEN Starts(v)[SkipLine(v, SkipAll(v, k, Spaces))] ELSE SkipAll(v, k, Spaces)
    BY <1>4, StartsIs
<1>5. SamePlace(t, u, f[n], g[Len(u) + 1])
    <2>1. ASSUME NEW v, IsText(v), Len(v) \in Nat, At(v, Len(v) + 1) = NUL
          PROVE  Starts(v)[Len(v) + 1] = Len(v) + 1
        <3>1. Len(v) + 1 \in Positions(v)
            BY <2>1 DEF Positions
        <3>2. PICK s : s = SkipAll(v, Len(v) + 1, Spaces)
            OBVIOUS
        <3>3. FirstOut(v, Len(v) + 1, Spaces, s)
            BY <2>1, <3>1, <3>2, Characters, SkipIs
        <3>4. s = Len(v) + 1
            BY <2>1, <3>3 DEF FirstOut
        <3>5. ~IsComment(At(v, s))
            BY <2>1, <3>4, Characters
        <3> QED
            BY <1>4, <2>1, <3>1, <3>2, <3>4, <3>5
    <2>2. f[n] = Len(t) + 1 /\ g[Len(u) + 1] = Len(u) + 1
        BY <1>1, <1>2, <1>3, <2>1
    <2> QED
        BY <2>2 DEF SamePlace
<1>6. PICK S : S = {k \in 1..n : SamePlace(t, u, f[k], g[k])}
    OBVIOUS
<1>7. ASSUME NEW k \in 1..n, \A r \in (k + 1)..n : r \in S PROVE k \in S
    <2>1. k \in Positions(t) /\ k \in Positions(u)
        BY <1>1, <1>2 DEF Positions
    <2>2. PICK s, r : s = SkipAll(t, k, Spaces) /\ r = SkipAll(u, k, Spaces)
        OBVIOUS
    <2>3. SamePlace(t, u, s, r)
        BY <2>1, <2>2, SkipsAlike
    <2>4. /\ f[k] = IF IsComment(At(t, s)) THEN f[SkipLine(t, s)] ELSE s
          /\ g[k] = IF IsComment(At(u, r)) THEN g[SkipLine(u, r)] ELSE r
        BY <1>1, <1>3, <1>4, <2>1, <2>2
    <2>5. IsComment(At(u, r)) <=> IsComment(At(t, s))
        <3>1. CASE s \in 1..Len(t) /\ r = s
            BY <3>1, SimilarTexts, AkinCharacters
        <3>2. CASE s = Len(t) + 1 /\ r = Len(u) + 1
            BY <1>1, <3>2
        <3> QED
            BY <2>3, <3>1, <3>2 DEF SamePlace
    <2>6. CASE ~IsComment(At(t, s))
        BY <1>6, <2>3, <2>4, <2>5, <2>6
    <2>7. CASE IsComment(At(t, s))
        <3>1. s \in 1..Len(t) /\ r = s
            BY <1>1, <2>3, <2>7, Characters DEF SamePlace
        <3>2. IsComment(t[s])
            BY <2>7, <3>1, SimilarTexts
        <3>3. PICK a, b : a = SkipLine(t, s) /\ b = SkipLine(u, s)
            OBVIOUS
        <3>4. Parallel(t, u, a, b)
            BY <3>1, <3>2, <3>3, LinesAlike
        <3>5. a \in Positions(t) /\ s < a /\ k <= s
            <4>1. FirstOut(t, k, Spaces, s)
                BY <1>1, <2>1, <2>2, Characters, SkipIs
            <4>2. s \in Positions(t)
                BY <1>1, <3>1 DEF Positions
            <4>3. k <= s
                BY <1>1, <1>2, <4>1 DEF FirstOut
            <4> QED
                BY <1>1, <2>7, <3>3, <4>2, <4>3, SkipLineForward
        <3>6. a \in (k + 1)..n
            BY <1>1, <1>2, <3>1, <3>5
        <3>7. SamePlace(t, u, f[a], g[b])
            <4>1. CASE b = a
                BY <1>6, <1>7, <3>6, <4>1
            <4>2. CASE a = Len(t) + 1 /\ b = Len(u) + 1
                BY <1>2, <1>5, <4>2
            <4> QED
                BY <3>4, <4>1, <4>2 DEF Parallel
        <3> QED
            BY <1>6, <2>4, <2>5, <2>7, <3>1, <3>3, <3>7
    <2> QED
        BY <2>6, <2>7
<1>8. 1..n \subseteq S
    BY <1>7, Backwards
<1>9. SamePlace(t, u, f[p], g[q])
    <2>1. CASE q = p
        <3>1. p \in S
            BY <1>2, <1>8 DEF Parallel
        <3> QED
            BY <1>6, <2>1, <3>1
    <2>2. CASE p = Len(t) + 1 /\ q = Len(u) + 1
        BY <1>2, <1>5, <2>2
    <2> QED
        BY <2>1, <2>2 DEF Parallel
<1> QED
    BY <1>3, <1>9, TokenStartIs

\* The same part of both texts.
LEMMA SamePart ==
    ASSUME NEW t, NEW u, Similar(t, u), NEW a \in 1..Len(t) + 1, NEW m \in Int, m <= Len(t),
           \A k \in a..m : u[k] = t[k]
    PROVE  SubSeq(u, a, m) = SubSeq(t, a, m)
<1>1. IsText(t) /\ IsText(u) /\ Len(t) \in Nat /\ Len(u) \in Nat /\ Len(t) <= Len(u)
    BY SimilarTexts DEF Similar
<1> QED
    BY <1>1 DEF IsText

\* The same word, but for capitals.
LEMMA SameWord ==
    ASSUME NEW t, NEW u, Similar(t, u), NEW a \in 1..Len(t), NEW m \in Int, m <= Len(t),
           \A k \in a..m : ToUpper(u[k]) = ToUpper(t[k])
    PROVE  StringToUpper(SubSeq(u, a, m)) = StringToUpper(SubSeq(t, a, m))
<1>1. IsText(t) /\ IsText(u) /\ Len(t) \in Nat /\ Len(u) \in Nat /\ Len(t) <= Len(u)
    BY SimilarTexts DEF Similar
<1>2. PICK v, w : v = SubSeq(t, a, m) /\ w = SubSeq(u, a, m)
    OBVIOUS
<1>3. DOMAIN w = DOMAIN v /\ \A k \in DOMAIN v : ToUpper(w[k]) = ToUpper(v[k])
    BY <1>1, <1>2 DEF IsText
<1> QED
    BY <1>2, <1>3 DEF StringToUpper

\* What a program sees of two tokens is the same, and so is the place behind them.
Twins(t, u, x, y) ==
    /\ x.type = y.type /\ x.val = y.val
    /\ IsEnd(x) \/ Parallel(t, u, x.to, y.to)

LEMMA TwinsAre ==
    ASSUME NEW t, NEW u, NEW type, NEW val, NEW b, NEW c, NEW x, NEW y,
           Parallel(t, u, x, y) \/ type \in {"eof", "error"}
    PROVE  Twins(t, u, Token(type, val, b, x), Token(type, val, c, y))
    BY DEF Twins, Token, IsEnd

LEMMA StringsAlike ==
    ASSUME NEW t, NEW u, Similar(t, u), NEW b \in 1..Len(t), IsQuoteMark(t[b])
    PROVE  Twins(t, u, StringToken(t, b), StringToken(u, b))
<1> DEFINE Ends == {"\"", NUL}
           e == Find(t, b + 1, Ends)
           f == Find(u, b + 1, Ends)
<1>1. /\ StringToken(t, b) = IF At(t, e) = NUL THEN Token("error", <<>>, b, e)
                             ELSE Token("string", SubSeq(t, b + 1, e - 1), b, e + 1)
      /\ StringToken(u, b) = IF At(u, f) = NUL THEN Token("error", <<>>, b, f)
                             ELSE Token("string", SubSeq(u, b + 1, f - 1), b, f + 1)
    BY Zenon DEF StringToken, Simple
<1>2. NUL \in Ends /\ \A c \in Ends : c # NUL => IsQuoteMark(c)
    BY Zenon DEF IsQuoteMark
<1>3. \A k \in 1..Len(t) : u[k] = t[k]
    BY DEF Similar
<1> HIDE DEF Ends
<1>4. /\ IsText(t) /\ IsText(u) /\ Len(t) \in Nat /\ Len(u) \in Nat /\ Len(u) \in {Len(t), Len(t) + 1}
      /\ At(t, Len(t) + 1) = NUL /\ At(u, Len(u) + 1) = NUL
    BY SimilarTexts DEF Similar
<1>5. b + 1 \in Positions(t) /\ b + 1 \in Positions(u) /\ b \in Int /\ 1 <= b
    BY <1>4 DEF Positions
<1>6. FirstIn(t, b + 1, Ends, e) /\ FirstIn(u, b + 1, Ends, f)
    BY <1>2, <1>4, <1>5, FindIs
<1> HIDE DEF e, f
<1>7. \A k \in 1..Len(t) : At(u, k) = At(t, k)
    BY <1>3, SimilarTexts
<1>8. e \in b + 1..Len(t) + 1
    BY <1>6 DEF FirstIn
<1>9. CASE e \in 1..Len(t)
    <2>1. \A k \in b + 1..e : k \in 1..Len(t)
        BY <1>4, <1>5, <1>9
    <2>2. \A k \in b + 1..e : At(u, k) \in Ends <=> At(t, k) \in Ends
        BY <1>7, <2>1
    <2>3. f = e
        BY <1>4, <1>5, <1>6, <2>2, FirstInOnce
    <2>4. At(t, e) # NUL /\ At(u, e) # NUL
        BY <1>9, SimilarTexts
    <2>5. SubSeq(u, b + 1, e - 1) = SubSeq(t, b + 1, e - 1)
        <3>1. e - 1 \in Int /\ e - 1 <= Len(t) /\ b + 1 \in 1..Len(t) + 1
            BY <1>4, <1>5, <1>9
        <3>2. \A k \in b + 1..e - 1 : u[k] = t[k]
            BY <1>3, <1>4, <1>5, <1>9
        <3> QED
            BY <3>1, <3>2, SamePart
    <2>6. Parallel(t, u, e + 1, e + 1)
        BY <1>4, <1>9 DEF Parallel, Positions
    <2> QED
        BY <1>1, <2>3, <2>4, <2>5, <2>6, TwinsAre
<1>10. CASE e = Len(t) + 1
    <2>1. At(u, f) = NUL
        <3>1. ASSUME NEW k \in b + 1..Len(u) PROVE ~IsQuoteMark(At(u, k))
            <4>1. CASE k \in b + 1..Len(t)
                <5>1. k \in b + 1..e - 1 /\ k \in 1..Len(t)
                    BY <1>4, <1>5, <1>10, <4>1
                <5>2. At(t, k) \notin Ends
                    BY <1>6, <5>1 DEF FirstIn
                <5>3. \A c : IsQuoteMark(c) => c \in Ends
                    BY Zenon DEF IsQuoteMark, Ends
                <5> QED
                    BY <1>7, <5>1, <5>2, <5>3
            <4>2. CASE k = Len(t) + 1 /\ Len(u) = Len(t) + 1
                <5>1. At(u, k) \in Pauses
                    BY <4>2, SimilarTexts
                <5> QED
                    BY <5>1, GapsAre DEF Gaps
            <4> QED
                BY <1>4, <1>5, <4>1, <4>2
        <3>2. f \in b + 1..Len(u) + 1 /\ At(u, f) \in Ends
            BY <1>6 DEF FirstIn
        <3>3. f \notin b + 1..Len(u) => f = Len(u) + 1
            BY <1>4, <1>5, <3>2
        <3> QED
            BY <1>2, <1>4, <3>1, <3>2, <3>3
    <2> QED
        BY <1>1, <1>4, <1>10, <2>1, TwinsAre
<1> QED
    BY <1>4, <1>5, <1>8, <1>9, <1>10

\* Digits are the same in both.
LEMMA SameDigits ==
    ASSUME NEW t, NEW u, Similar(t, u), NEW p \in Positions(t)
    PROVE  LET e == SkipAll(t, p, Digits)
           IN  /\ e \in p..Len(t) + 1 /\ e \in Int /\ SkipAll(u, p, Digits) = e
               /\ \A k \in p..e - 1 : t[k] \in Digits /\ u[k] = t[k]
<1>1. PICK e : e = SkipAll(t, p, Digits)
    OBVIOUS
<1>2. FirstOut(t, p, Digits, e) /\ SkipAll(u, p, Digits) = e
    BY <1>1, SameSkip
<1>3. Len(t) \in Nat /\ p \in Int /\ 1 <= p
    BY SimilarTexts DEF Positions
<1>4. e \in p..Len(t) + 1 /\ e \in Int
    BY <1>2, <1>3 DEF FirstOut
<1>5. ASSUME NEW k \in p..e - 1 PROVE t[k] \in Digits /\ u[k] = t[k]
    <2>1. k \in 1..Len(t)
        BY <1>3, <1>4
    <2>2. At(t, k) \in Digits
        BY <1>2 DEF FirstOut
    <2>3. At(t, k) = t[k] /\ At(u, k) = u[k] /\ Akin(At(t, k), At(u, k))
        BY <2>1, SimilarTexts
    <2> QED
        BY <2>2, <2>3, AkinCharacters DEF Marks
<1> QED
    BY <1>1, <1>2, <1>4, <1>5

LEMMA FloatsAlike ==
    ASSUME NEW t, NEW u, Similar(t, u), NEW negative, NEW n, NEW b, NEW point \in 1..Len(t)
    PROVE  Twins(t, u, Float(negative, n, t, b, point), Float(negative, n, u, b, point))
<1>1. point + 1 \in Positions(t) /\ point + 1 \in 1..Len(t) + 1 /\ Len(t) \in Nat /\ point \in Int
    BY SimilarTexts DEF Positions
<1>2. PICK e : e = SkipAll(t, point + 1, Digits)
    OBVIOUS
<1>3. /\ e \in point + 1..Len(t) + 1 /\ e \in Int /\ SkipAll(u, point + 1, Digits) = e
      /\ \A k \in point + 1..e - 1 : u[k] = t[k]
    BY <1>1, <1>2, SameDigits
<1>4. SubSeq(u, point + 1, e - 1) = SubSeq(t, point + 1, e - 1)
    <2>1. e - 1 \in Int /\ e - 1 <= Len(t)
        BY <1>1, <1>3
    <2> QED
        BY <1>1, <1>3, <2>1, SamePart
<1>5. Parallel(t, u, e, e)
    BY <1>1, <1>3 DEF Parallel, Positions
<1> QED
    BY <1>2, <1>3, <1>4, <1>5, TwinsAre DEF Float

LEMMA NumbersAlike ==
    ASSUME NEW t, NEW u, Similar(t, u), NEW b \in 1..Len(t), StartsNumber(t, b)
    PROVE  StartsNumber(u, b) /\ Twins(t, u, NumberToken(t, b), NumberToken(u, b))
<1>1. /\ IsText(t) /\ IsText(u) /\ Len(t) \in Nat /\ Len(u) \in Nat /\ Len(u) \in {Len(t), Len(t) + 1}
      /\ At(t, Len(t) + 1) = NUL /\ At(u, Len(u) + 1) = NUL
    BY SimilarTexts DEF Similar
<1>2. b \in Positions(t) /\ b + 1 \in Positions(t) /\ b \in Int
    BY <1>1 DEF Positions
<1>3. \A k \in Positions(t) : /\ At(u, k) \in Digits <=> At(t, k) \in Digits
                              /\ At(t, k) \in Marks \/ At(u, k) \in Marks => At(u, k) = At(t, k)
    BY SimilarCharacters, AkinCharacters
<1>4. "-" \in Marks /\ "." \in Marks
    BY Zenon DEF Marks, Once
<1>5. (At(u, b) = "-") <=> (At(t, b) = "-")
    BY <1>2, <1>3, <1>4
<1>6. StartsNumber(u, b)
    BY <1>2, <1>3, <1>5 DEF StartsNumber
<1>7. PICK first, e : first = FirstDigit(t, b) /\ e = DigitsEnd(t, b)
    OBVIOUS
<1>8. /\ first \in b..b + 1 /\ first \in 1..Len(t) /\ e \in first + 1..Len(t) + 1
      /\ \A k \in first..e - 1 : t[k] \in Digits /\ k \in 1..Len(t)
    BY <1>1, <1>7, DigitsAre
<1>9. first \in Positions(t) /\ e \in Positions(t) /\ first \in Int /\ e \in Int /\ first <= e
    BY <1>1, <1>2, <1>8 DEF Positions
<1>10. FirstDigit(u, b) = first
    BY <1>5, <1>7 DEF FirstDigit
<1>11. /\ SkipAll(t, first, Digits) = e /\ SkipAll(u, first, Digits) = e
       /\ \A k \in first..e - 1 : t[k] \in Digits /\ u[k] = t[k]
    BY <1>7, <1>9, SameDigits DEF DigitsEnd
<1>12. DigitsEnd(u, b) = e
    BY <1>10, <1>11 DEF DigitsEnd
<1>13. PICK n : n = Magnitude(t, b)
    OBVIOUS
<1>14. Magnitude(u, b) = n
    <2>1. IntValue(u, first, e) = IntValue(t, first, e)
        BY <1>9, <1>11, IntValueSame
    <2> QED
        BY <1>7, <1>10, <1>12, <1>13, <2>1 DEF Magnitude
<1>15. (At(u, e) = ".") <=> (At(t, e) = ".")
    BY <1>3, <1>4, <1>9
<1>16. At(u, e) \in NumberEnds <=> At(t, e) \in NumberEnds
    <2>1. CASE e \in 1..Len(t)
        <3>1. e > 1 /\ e - 1 \in first..e - 1
            BY <1>1, <1>8, <1>9
        <3>2. t[e - 1] \in Digits
            BY <1>8, <3>1
        <3>3. u[e] \in NumberEnds <=> t[e] \in NumberEnds
            BY <2>1, <3>1, <3>2 DEF Similar
        <3> QED
            BY <2>1, <3>3, SimilarTexts
    <2>2. CASE e = Len(t) + 1
        <3>1. NUL \in NumberEnds
            BY Zenon DEF NumberEnds
        <3>2. At(u, e) \in NumberEnds
            <4>1. CASE Len(u) = Len(t)
                BY <1>1, <2>2, <3>1, <4>1
            <4>2. CASE Len(u) = Len(t) + 1
                <5>1. Len(u) \in 1..Len(u)
                    BY <1>1, <4>2
                <5>2. At(u, Len(u)) = u[Len(u)]
                    BY <1>1, <5>1, TextIs
                <5>3. u[Len(u)] \in NumberEnds
                    BY <1>1, <4>2 DEF Similar
                <5> QED
                    BY <2>2, <4>2, <5>2, <5>3
            <4> QED
                BY <1>1, <4>1, <4>2
        <3> QED
            BY <1>1, <2>2, <3>1, <3>2
    <2> QED
        BY <1>1, <1>9, <2>1, <2>2 DEF Positions
<1>17. Parallel(t, u, e, e)
    BY <1>9 DEF Parallel
<1>18. CASE At(t, e) = "."
    <2>1. e # Len(t) + 1
        BY <1>1, <1>18 DEF NUL
    <2>2. e \in 1..Len(t) /\ e + 1 \in Positions(t)
        BY <1>1, <1>9, <2>1 DEF Positions
    <2>3. CASE At(t, e + 1) \in Digits
        <3>1. At(u, e + 1) \in Digits
            BY <1>3, <2>2, <2>3
        <3>2. /\ NumberToken(t, b) = Float(At(t, b) = "-", n, t, b, e)
              /\ NumberToken(u, b) = Float(At(u, b) = "-", n, u, b, e)
            BY <1>7, <1>12, <1>13, <1>14, <1>15, <1>18, <2>3, <3>1, NumberIs
        <3>3. (At(u, b) = "-") = (At(t, b) = "-")
            BY <1>5
        <3> QED
            BY <1>6, <2>2, <3>2, <3>3, FloatsAlike
    <2>4. CASE At(t, e + 1) \notin Digits
        <3>1. At(u, e + 1) \notin Digits
            BY <1>3, <2>2, <2>4
        <3>2. NumberToken(t, b) = Token("int", n, b, e + 1) /\ NumberToken(u, b) = Token("int", n, b, e + 1)
            BY <1>7, <1>12, <1>13, <1>14, <1>15, <1>18, <2>4, <3>1, NumberIs
        <3>3. Parallel(t, u, e + 1, e + 1)
            BY <2>2 DEF Parallel
        <3> QED
            BY <1>6, <3>2, <3>3, TwinsAre
    <2> QED
        BY <2>3, <2>4
<1>19. CASE At(t, e) # "."
    <2>1. CASE At(t, e) \in NumberEnds
        <3>1. PICK m : m = IF At(t, b) = "-" THEN Wrap(-n) ELSE n
            OBVIOUS
        <3>2. m = IF At(u, b) = "-" THEN Wrap(-n) ELSE n
            BY <1>5, <3>1
        <3>3. NumberToken(t, b) = Token("int", m, b, e)
            BY <1>7, <1>13, <1>19, <2>1, <3>1, NumberIs
        <3>4. NumberToken(u, b) = Token("int", m, b, e)
            BY <1>12, <1>14, <1>15, <1>16, <1>19, <2>1, <3>2, NumberIs
        <3> QED
            BY <1>6, <1>17, <3>3, <3>4, TwinsAre
    <2>2. CASE At(t, e) \notin NumberEnds
        <3>1. NumberToken(t, b) = Token("error", <<>>, b, e) /\ NumberToken(u, b) = Token("error", <<>>, b, e)
            BY <1>7, <1>12, <1>13, <1>14, <1>15, <1>16, <1>19, <2>2, NumberIs
        <3> QED
            BY <1>6, <3>1, TwinsAre
    <2> QED
        BY <2>1, <2>2
<1> QED
    BY <1>18, <1>19

LEMMA WordsAlike ==
    ASSUME NEW t, NEW u, Similar(t, u), NEW b \in 1..Len(t), At(t, b) \in Alpha
    PROVE  Twins(t, u, WordToken(t, b), WordToken(u, b))
<1> DEFINE Kind(word, e) == CASE word = <<"N", "I", "L">> -> Token("nil", <<>>, b, e)
                              [] word = <<"T">> -> Token("T", <<>>, b, e)
                              [] OTHER -> Token("symbol", word, b, e)
<1>1. PICK e : e = Find(t, b, Delimiters)
    OBVIOUS
<1>2. /\ WordToken(t, b) = Kind(StringToUpper(SubSeq(t, b, e - 1)), e)
      /\ WordToken(u, b) = LET f == Find(u, b, Delimiters) IN Kind(StringToUpper(SubSeq(u, b, f - 1)), f)
    BY <1>1, Zenon DEF WordToken, Simple
<1>3. Len(t) \in Nat /\ b \in Positions(t) /\ b \in Int
    BY SimilarTexts DEF Positions
<1>4. \A k \in Positions(t) : At(u, k) \in Delimiters <=> At(t, k) \in Delimiters
    BY SimilarCharacters, AkinCharacters
<1>5. Find(u, b, Delimiters) = e /\ FirstIn(t, b, Delimiters, e)
    BY <1>1, <1>3, <1>4, Characters, SameFind
<1>6. e \in b..Len(t) + 1 /\ \A k \in b..e - 1 : At(t, k) \notin Delimiters
    BY <1>5 DEF FirstIn
<1>7. ASSUME NEW k \in b..e - 1 PROVE ToUpper(u[k]) = ToUpper(t[k])
    <2>1. k \in 1..Len(t)
        BY <1>3, <1>6
    <2>2. At(t, k) = t[k] /\ At(u, k) = u[k] /\ Akin(At(t, k), At(u, k)) /\ At(t, k) \notin Delimiters
        BY <1>6, <2>1, SimilarTexts
    <2> QED
        BY <2>2, AkinCharacters
<1>8. StringToUpper(SubSeq(u, b, e - 1)) = StringToUpper(SubSeq(t, b, e - 1))
    <2>1. e - 1 \in Int /\ e - 1 <= Len(t)
        BY <1>3, <1>6
    <2> QED
        BY <1>7, <2>1, SameWord
<1>9. Parallel(t, u, e, e)
    BY <1>3, <1>6 DEF Parallel, Positions
<1>10. PICK word : word = StringToUpper(SubSeq(t, b, e - 1))
    OBVIOUS
<1>11. WordToken(t, b) = Kind(word, e) /\ WordToken(u, b) = Kind(word, e)
    <2> HIDE DEF Kind
    <2> QED
        BY <1>2, <1>5, <1>8, <1>10
<1>12. Twins(t, u, Kind(word, e), Kind(word, e))
    <2>1. \A type, val : Twins(t, u, Token(type, val, b, e), Token(type, val, b, e))
        BY <1>9, TwinsAre
    <2>2. CASE word = <<"N", "I", "L">>
        <3>1. word # <<"T">>
            BY <2>2
        <3> QED
            BY <2>1, <2>2, <3>1
    <2>3. CASE word # <<"N", "I", "L">> /\ word = <<"T">>
        BY <2>1, <2>3
    <2>4. CASE word # <<"N", "I", "L">> /\ word # <<"T">>
        BY <2>1, <2>4
    <2> QED
        BY <2>2, <2>3, <2>4
<1> QED
    BY <1>11, <1>12

\* A point at the end of a text would read as a dot if a blank followed it.
LEMMA PointsAlike ==
    ASSUME NEW t, NEW u, Similar(t, u), NEW b \in 1..Len(t), At(t, b) = "."
    PROVE  Twins(t, u, PointToken(t, b), PointToken(u, b))
<1>1. /\ Len(t) \in Nat /\ Len(u) \in Nat /\ Len(u) \in {Len(t), Len(t) + 1}
      /\ At(t, Len(t) + 1) = NUL /\ At(u, Len(u) + 1) = NUL
    BY SimilarTexts
<1>2. b + 1 \in Positions(t) /\ b \in Int
    BY <1>1 DEF Positions
<1>3. PICK c, d : c = At(t, b + 1) /\ d = At(u, b + 1)
    OBVIOUS
<1>4. /\ d \in Digits <=> c \in Digits
      /\ d \in Pauses <=> c \in Pauses
      /\ d = NUL <=> c = NUL
    <2>1. d \in Digits <=> c \in Digits
        BY <1>2, <1>3, SimilarCharacters, AkinCharacters
    <2>2. CASE b + 1 \in 1..Len(t)
        <3>1. c # NUL /\ d # NUL /\ Akin(c, d)
            BY <1>3, <2>2, SimilarTexts
        <3> QED
            BY <2>1, <3>1, AkinCharacters
    <2>3. CASE b = Len(t)
        <3>1. t[Len(t)] = "."
            BY <2>3, SimilarTexts
        <3>2. t # <<>>
            BY <1>1, <2>3
        <3>3. Len(u) = Len(t)
            BY <1>1, <3>1, <3>2 DEF Similar
        <3> QED
            BY <1>1, <1>3, <2>3, <3>3
    <2> QED
        BY <1>1, <1>2, <2>2, <2>3
<1>5. Parallel(t, u, b + 1, b + 1)
    BY <1>2 DEF Parallel
<1>6. \A type : Twins(t, u, Token(type, <<>>, b, b + 1), Token(type, <<>>, b, b + 1))
    BY <1>5, TwinsAre
<1>7. Twins(t, u, Float(FALSE, 0, t, b, b), Float(FALSE, 0, u, b, b))
    BY FloatsAlike
<1>8. CASE c \in Pauses
    BY <1>3, <1>4, <1>6, <1>8, PointIs
<1>9. CASE c \in Digits
    BY <1>3, <1>4, <1>7, <1>9, PointIs
<1>10. CASE c = NUL
    BY <1>3, <1>4, <1>6, <1>10, PointIs
<1>11. CASE c \notin Pauses /\ c \notin Digits /\ c # NUL
    BY <1>3, <1>4, <1>6, <1>11, PointIs
<1> QED
    BY <1>8, <1>9, <1>10, <1>11

LEMMA OperatorsAlike ==
    ASSUME NEW t, NEW u, Similar(t, u), NEW b \in 1..Len(t)
    PROVE  Twins(t, u, OperatorToken(t, b), OperatorToken(u, b))
<1>1. /\ Len(t) \in Nat /\ Len(u) \in Nat /\ Len(u) \in {Len(t), Len(t) + 1}
      /\ At(t, Len(t) + 1) = NUL
    BY SimilarTexts
<1>2. b \in Positions(t) /\ b + 1 \in Positions(t) /\ b \in Int /\ 1 <= b
    BY <1>1 DEF Positions
<1>3. \A k \in Positions(t) : /\ At(u, k) \in Delimiters <=> At(t, k) \in Delimiters
                              /\ At(t, k) \in Marks \/ At(u, k) \in Marks => At(u, k) = At(t, k)
    BY SimilarCharacters, AkinCharacters
<1>4. \A c \in Once : c \in Marks
    BY DEF Marks
<1>5. \A c, d : <<c, d>> \in Twice => c \in Once /\ d \in Once
    BY DEF Twice, Once
<1>6. PICK c1, c2, d1, d2 : c1 = At(t, b) /\ c2 = At(t, b + 1) /\ d1 = At(u, b) /\ d2 = At(u, b + 1)
    OBVIOUS
<1>7. /\ c1 \in Once \/ d1 \in Once => d1 = c1
      /\ c2 \in Once \/ d2 \in Once => d2 = c2
    BY <1>2, <1>3, <1>4, <1>6
<1>8. <<d1, d2>> \in Twice <=> <<c1, c2>> \in Twice
    BY <1>5, <1>7
<1>9. <<c1, c2>> \in Twice => b + 1 \in 1..Len(t) /\ b + 2 \in Positions(t) /\ d1 = c1 /\ d2 = c2
    <2>1. SUFFICES ASSUME <<c1, c2>> \in Twice
                   PROVE  b + 1 \in 1..Len(t) /\ b + 2 \in Positions(t) /\ d1 = c1 /\ d2 = c2
        OBVIOUS
    <2>2. c1 \in Once /\ c2 \in Once
        BY <1>5, <2>1
    <2>3. NUL \notin Once
        BY DEF NUL, Once
    <2>4. b + 1 # Len(t) + 1
        BY <1>1, <1>6, <2>2, <2>3
    <2>5. b + 1 \in 1..Len(t) /\ b + 2 \in Positions(t)
        BY <1>1, <1>2, <2>4 DEF Positions
    <2> QED
        BY <1>7, <2>2, <2>5
<1>10. IsTwice(u, b) <=> IsTwice(t, b)
    <2>1. <<c1, c2>> \in Twice => (At(u, b + 2) \in Delimiters <=> At(t, b + 2) \in Delimiters)
        BY <1>3, <1>9
    <2> QED
        BY <1>6, <1>8, <2>1 DEF IsTwice
<1>11. IsOnce(u, b) <=> IsOnce(t, b)
    BY <1>2, <1>3, <1>6, <1>7 DEF IsOnce
<1>12. At(t, b) = t[b] /\ At(u, b) = u[b]
    BY SimilarTexts
<1>13. CASE IsTwice(t, b)
    <2>1. <<c1, c2>> \in Twice
        BY <1>6, <1>13 DEF IsTwice
    <2>2. b + 1 \in 1..Len(t) /\ b + 2 \in Positions(t) /\ d1 = c1 /\ d2 = c2
        BY <1>9, <2>1
    <2>3. At(t, b + 1) = t[b + 1] /\ At(u, b + 1) = u[b + 1]
        BY <2>2, SimilarTexts
    <2>4. \A k \in b..b + 1 : u[k] = t[k]
        <3>1. \A k \in b..b + 1 : k = b \/ k = b + 1
            BY <1>2
        <3> QED
            BY <1>6, <1>12, <2>2, <2>3, <3>1
    <2>5. SubSeq(u, b, b + 1) = SubSeq(t, b, b + 1)
        <3>1. b \in 1..Len(t) + 1 /\ b + 1 \in Int /\ b + 1 <= Len(t)
            BY <1>1, <1>2, <2>2
        <3> QED
            BY <2>4, <3>1, SamePart
    <2>6. Parallel(t, u, b + 2, b + 2)
        BY <2>2 DEF Parallel
    <2>7. PICK w : w = SubSeq(t, b, b + 1)
        OBVIOUS
    <2>8. OperatorToken(t, b) = Token("symbol", w, b, b + 2)
        BY <1>13, <2>7, OperatorIs
    <2>9. OperatorToken(u, b) = Token("symbol", w, b, b + 2)
        BY <1>10, <1>13, <2>5, <2>7, OperatorIs
    <2> QED
        BY <2>6, <2>8, <2>9, TwinsAre
<1>14. CASE IsOnce(t, b)
    <2>1. d1 = c1
        BY <1>6, <1>7, <1>14 DEF IsOnce
    <2>2. \A k \in b..b : u[k] = t[k]
        BY <1>2, <1>6, <1>12, <2>1
    <2>3. SubSeq(u, b, b) = SubSeq(t, b, b)
        <3>1. b \in 1..Len(t) + 1 /\ b \in Int /\ b <= Len(t)
            BY <1>1, <1>2
        <3> QED
            BY <2>2, <3>1, SamePart
    <2>4. Parallel(t, u, b + 1, b + 1)
        BY <1>2 DEF Parallel
    <2>5. PICK w : w = SubSeq(t, b, b)
        OBVIOUS
    <2>6. OperatorToken(t, b) = Token("symbol", w, b, b + 1)
        BY <1>14, <2>5, OperatorIs
    <2>7. OperatorToken(u, b) = Token("symbol", w, b, b + 1)
        BY <1>11, <1>14, <2>3, <2>5, OperatorIs
    <2> QED
        BY <2>4, <2>6, <2>7, TwinsAre
<1>15. CASE ~IsTwice(t, b) /\ ~IsOnce(t, b)
    BY <1>10, <1>11, <1>15, OperatorIs, TwinsAre
<1> QED
    BY <1>13, <1>14, <1>15

LEMMA TokensAlike ==
    ASSUME NEW t, NEW u, Similar(t, u), NEW p, NEW q, Parallel(t, u, p, q)
    PROVE  Twins(t, u, NextToken(t, p), NextToken(u, q))
<1>1. PICK b, c : b = TokenStart(t, p) /\ c = TokenStart(u, q)
    OBVIOUS
<1>2. SamePlace(t, u, b, c)
    BY <1>1, StartsAlike
<1>3. /\ Len(t) \in Nat /\ At(t, Len(t) + 1) = NUL /\ At(u, Len(u) + 1) = NUL
    BY SimilarTexts
<1>4. CASE b = Len(t) + 1 /\ c = Len(u) + 1
    <2>0. At(t, b) = NUL /\ At(u, c) = NUL
        BY <1>3, <1>4
    <2>1. NextToken(t, p) = Token("eof", <<>>, b, b)
        BY <1>1, <2>0, TokenKinds DEF Simple
    <2>2. NextToken(u, q) = Token("eof", <<>>, c, c)
        BY <1>1, <2>0, TokenKinds DEF Simple
    <2> QED
        BY <2>1, <2>2, TwinsAre
<1>5. CASE b \in 1..Len(t) /\ c = b
    <2>1. PICK x, y : x = At(t, b) /\ y = At(u, b)
        OBVIOUS
    <2>a. b = TokenStart(t, p) /\ x = At(t, b)
        BY <1>1, <2>1
    <2>b. b = TokenStart(u, q) /\ y = At(u, b)
        BY <1>1, <1>5, <2>1
    <2>2. x # NUL /\ y # NUL /\ x = t[b] /\ Akin(x, y)
        BY <1>5, <2>1, SimilarTexts
    <2>3. /\ IsQuoteMark(y) <=> IsQuoteMark(x)
          /\ y \in Alpha <=> x \in Alpha
          /\ x \in Marks \/ y \in Marks => y = x
          /\ y \in Digits <=> x \in Digits
        BY <2>2, AkinCharacters
    <2>4. "-" \in Marks /\ "." \in Marks /\ \A m \in {"(", ")", "#", "'"} : m \in Marks
        BY Zenon DEF Marks, Once
    <2>5. b + 1 \in Positions(t)
        BY <1>3, <1>5 DEF Positions
    <2>6. StartsNumber(u, b) <=> StartsNumber(t, b)
        <3>1. At(u, b + 1) \in Digits <=> At(t, b + 1) \in Digits
            BY <2>5, SimilarCharacters, AkinCharacters
        <3>2. y = "-" <=> x = "-"
            BY <2>3, <2>4
        <3> QED
            BY <2>1, <2>3, <3>1, <3>2 DEF StartsNumber
    <2>7. CASE IsQuoteMark(x)
        <3>1. NextToken(t, p) = StringToken(t, b)
            BY <2>a, <2>7, TokenKinds
        <3>2. NextToken(u, q) = StringToken(u, b)
            BY <2>b, <2>3, <2>7, TokenKinds
        <3> QED
            BY <1>5, <2>2, <2>7, <3>1, <3>2, StringsAlike
    <2>8. CASE StartsNumber(t, b)
        <3>1. NextToken(t, p) = NumberToken(t, b)
            BY <2>a, <2>8, TokenKinds DEF StartsNumber
        <3>2. NextToken(u, q) = NumberToken(u, b)
            BY <2>b, <2>6, <2>8, TokenKinds DEF StartsNumber
        <3> QED
            BY <1>5, <2>8, <3>1, <3>2, NumbersAlike
    <2>9. CASE x \in Alpha
        <3>1. NextToken(t, p) = WordToken(t, b)
            BY <2>a, <2>9, TokenKinds
        <3>2. NextToken(u, q) = WordToken(u, b)
            BY <2>b, <2>3, <2>9, TokenKinds
        <3> QED
            BY <1>5, <2>1, <2>9, <3>1, <3>2, WordsAlike
    <2>10. CASE x \in {"(", ")", "#", "'"}
        <3>1. y = x
            BY <2>3, <2>4, <2>10
        <3>a. PICK type : type = CASE x = "(" -> "open" [] x = ")" -> "close" [] x = "#" -> "array"
                                   [] x = "'" -> "quote"
            OBVIOUS
        <3>b. NextToken(t, p) = Token(type, <<>>, b, b + 1)
            BY <2>a, <2>10, <3>a, TokenKinds DEF Simple
        <3>c. NextToken(u, q) = Token(type, <<>>, b, b + 1)
            <4>1. y \in {"(", ")", "#", "'"}
                BY <2>10, <3>1
            <4>2. type = CASE y = "(" -> "open" [] y = ")" -> "close" [] y = "#" -> "array"
                           [] y = "'" -> "quote"
                BY <3>1, <3>a
            <4> QED
                BY <2>b, <4>1, <4>2, TokenKinds DEF Simple
        <3>2. NextToken(t, p) = Token(type, <<>>, b, b + 1) /\ NextToken(u, q) = Token(type, <<>>, b, b + 1)
            BY <3>b, <3>c
        <3>3. Parallel(t, u, b + 1, b + 1)
            BY <2>5 DEF Parallel
        <3> QED
            BY <3>2, <3>3, TwinsAre
    <2>11. CASE x = "."
        <3>1. y = "."
            BY <2>3, <2>4, <2>11
        <3>2. NextToken(t, p) = PointToken(t, b)
            BY <2>a, <2>11, TokenKinds
        <3>3. NextToken(u, q) = PointToken(u, b)
            BY <2>b, <3>1, TokenKinds
        <3> QED
            BY <1>5, <2>1, <2>11, <3>2, <3>3, PointsAlike
    <2>12. CASE /\ ~IsQuoteMark(x) /\ ~StartsNumber(t, b) /\ x \notin Alpha
                /\ x \notin {"(", ")", "#", "'"} /\ x # "."
        <3>1. y \notin {"(", ")", "#", "'"} /\ y # "."
            BY <2>3, <2>4, <2>12
        <3>2. NextToken(t, p) = OperatorToken(t, b)
            BY <2>a, <2>2, <2>12, TokenKinds DEF StartsNumber
        <3>3. NextToken(u, q) = OperatorToken(u, b)
            <4>1. ~StartsNumber(u, b) /\ ~IsQuoteMark(y) /\ y \notin Alpha
                BY <2>3, <2>6, <2>12
            <4> QED
                BY <2>b, <2>2, <3>1, <4>1, TokenKinds DEF StartsNumber
        <3> QED
            BY <1>5, <3>2, <3>3, OperatorsAlike
    <2> QED
        BY <2>7, <2>8, <2>9, <2>10, <2>11, <2>12
<1> QED
    BY <1>2, <1>4, <1>5 DEF SamePlace

\* A token put before tokens.
LEMMA SeenAhead ==
    ASSUME NEW A, NEW x \in A, NEW r \in Seq(A), NEW B, NEW y \in B, NEW s \in Seq(B),
           x.type = y.type, x.val = y.val, Seen(r) = Seen(s)
    PROVE  Seen(<<x>> \o r) = Seen(<<y>> \o s)
<1>1. PICK v, w : v = <<x>> \o r /\ w = <<y>> \o s
    OBVIOUS
<1>2. PICK n \in Nat : n = Len(r) /\ n = Len(s)
    <2>1. DOMAIN Seen(r) = 1..Len(r) /\ DOMAIN Seen(s) = 1..Len(s)
        BY DEF Seen
    <2>2. Len(r) \in Nat /\ Len(s) \in Nat /\ 1..Len(r) = 1..Len(s)
        BY <2>1
    <2>3. Len(r) = Len(s)
        <3>1. \A m \in Nat, k \in Nat : 1..m = 1..k => m = k
            <4>1. ASSUME NEW m \in Nat, NEW k \in Nat, 1..m = 1..k, m < k PROVE FALSE
                <5>1. k \in 1..k /\ k \notin 1..m
                    BY <4>1
                <5> QED
                    BY <4>1, <5>1
            <4>2. ASSUME NEW m \in Nat, NEW k \in Nat, 1..m = 1..k, k < m PROVE FALSE
                <5>1. m \in 1..m /\ m \notin 1..k
                    BY <4>2
                <5> QED
                    BY <4>2, <5>1
            <4> QED
                BY <4>1, <4>2
        <3> QED
            BY <2>2, <3>1
    <2> QED
        BY <2>2, <2>3
<1>3. /\ Len(v) = n + 1 /\ v[1] = x /\ \A k \in 1..n : v[k + 1] = r[k]
      /\ Len(w) = n + 1 /\ w[1] = y /\ \A k \in 1..n : w[k + 1] = s[k]
      /\ DOMAIN v = 1..n + 1 /\ DOMAIN w = 1..n + 1
    <2>1. ASSUME NEW C, NEW z \in C, NEW q \in Seq(C), Len(q) = n, NEW zq, zq = <<z>> \o q
          PROVE  Len(zq) = n + 1 /\ zq[1] = z /\ (\A k \in 1..n : zq[k + 1] = q[k]) /\ DOMAIN zq = 1..n + 1
        <3>1. <<z>> \in Seq(C) /\ Len(<<z>>) = 1 /\ <<z>>[1] = z
            BY <2>1
        <3>2. /\ zq \in Seq(C) /\ Len(zq) = 1 + n
              /\ \A k \in 1..1 + n : zq[k] = IF k <= 1 THEN <<z>>[k] ELSE q[k - 1]
            BY <2>1, <3>1, ConcatProperties
        <3>3. 1 \in 1..1 + n /\ zq[1] = z
            BY <3>1, <3>2
        <3>4. ASSUME NEW k \in 1..n PROVE zq[k + 1] = q[k]
            <4>1. k + 1 \in 1..1 + n /\ ~(k + 1 <= 1) /\ (k + 1) - 1 = k
                OBVIOUS
            <4> QED
                BY <3>2, <4>1
        <3>5. Len(zq) = n + 1
            BY <3>2
        <3>6. DOMAIN zq = 1..n + 1
            BY <3>2, <3>5
        <3> QED
            BY <3>3, <3>4, <3>5, <3>6
    <2>2. Len(r) = n /\ Len(s) = n
        BY <1>2
    <2>3. Len(v) = n + 1 /\ v[1] = x /\ (\A k \in 1..n : v[k + 1] = r[k]) /\ DOMAIN v = 1..n + 1
        BY <1>1, <2>1, <2>2
    <2>4. Len(w) = n + 1 /\ w[1] = y /\ (\A k \in 1..n : w[k + 1] = s[k]) /\ DOMAIN w = 1..n + 1
        BY <1>1, <2>1, <2>2
    <2> QED
        BY <2>3, <2>4
<1>4. ASSUME NEW k \in 1..n PROVE <<r[k].type, r[k].val>> = <<s[k].type, s[k].val>>
    <2>1. Seen(r)[k] = <<r[k].type, r[k].val>> /\ Seen(s)[k] = <<s[k].type, s[k].val>>
        BY <1>2 DEF Seen
    <2> QED
        BY <2>1
<1>5. ASSUME NEW k \in 1..n + 1 PROVE <<v[k].type, v[k].val>> = <<w[k].type, w[k].val>>
    <2>1. CASE k = 1
        BY <1>3, <2>1
    <2>2. CASE k # 1
        <3>1. PICK m \in 1..n : k = m + 1
            BY <1>2, <1>5, <2>2
        <3> QED
            BY <1>3, <1>4, <3>1
    <2> QED
        BY <2>1, <2>2
<1>6. Seen(v) = Seen(w)
    BY <1>3, <1>5, Zenon DEF Seen
<1> QED
    BY <1>1, <1>6

\* Similar texts have the same tokens.
LEMMA SameTokens ==
    ASSUME NEW t, NEW u, Similar(t, u)
    PROVE  Seen(Tokens(u)) = Seen(Tokens(t))
<1>1. /\ IsText(t) /\ IsText(u) /\ Len(t) \in Nat /\ Len(u) \in Nat /\ Len(u) \in {Len(t), Len(t) + 1}
    BY SimilarTexts DEF Similar
<1>2. PICK n \in Nat : n = Len(t) + 1 /\ Positions(t) = 1..n
    BY <1>1 DEF Positions
<1>3. \A p, q : Parallel(t, u, p, q) => p \in Positions(t) /\ q \in Positions(u)
    BY <1>1 DEF Parallel, Positions
<1>4. PICK S : S = {p \in 1..n : \A q : Parallel(t, u, p, q) => Seen(Rest(t)[p]) = Seen(Rest(u)[q])}
    OBVIOUS
<1>5. ASSUME NEW p \in 1..n, \A r \in (p + 1)..n : r \in S PROVE p \in S
    <2>1. SUFFICES ASSUME NEW q, Parallel(t, u, p, q) PROVE Seen(Rest(t)[p]) = Seen(Rest(u)[q])
        BY <1>4
    <2>2. p \in Positions(t) /\ q \in Positions(u)
        BY <1>3, <2>1
    <2>3. PICK x, y : x = NextToken(t, p) /\ y = NextToken(u, q)
        OBVIOUS
    <2>4. Twins(t, u, x, y)
        BY <2>1, <2>3, TokensAlike
    <2>5. IsEnd(x) <=> IsEnd(y)
        BY <2>4 DEF Twins, IsEnd
    <2>6. x \in TokensOf(t) /\ y \in TokensOf(u)
        BY <2>2, <2>3 DEF TokensOf
    <2>7. CASE IsEnd(x)
        <3>1. Rest(t)[p] = <<x>> /\ Rest(u)[q] = <<y>>
            BY <1>1, <2>2, <2>3, <2>5, <2>7, RestIs
        <3>2. Seen(<<x>>) = Seen(<<y>>)
            <4>1. x.type = y.type /\ x.val = y.val
                BY <2>4 DEF Twins
            <4> QED
                BY <4>1 DEF Seen
        <3> QED
            BY <3>1, <3>2
    <2>8. CASE ~IsEnd(x)
        <3>1. PICK a, b : a = x.to /\ b = y.to
            OBVIOUS
        <3>2. Parallel(t, u, a, b)
            BY <2>4, <2>8, <3>1 DEF Twins
        <3>3. a \in Positions(t) /\ p < a
            <4>1. PICK start : start = TokenStart(t, p)
                OBVIOUS
            <4>2. start \in Positions(t) /\ p <= start /\ Shape(x, t, start)
                BY <1>1, <2>2, <2>3, <4>1, TokenStartAhead, TokenShape
            <4>3. a \in Positions(t) /\ start < a
                BY <2>8, <3>1, <4>2 DEF Shape
            <4> QED
                BY <1>1, <1>2, <4>2, <4>3
        <3>4. a \in (p + 1)..n
            BY <1>2, <3>3
        <3>5. Seen(Rest(t)[a]) = Seen(Rest(u)[b])
            BY <1>4, <1>5, <3>2, <3>4
        <3>6. PICK r, s : r = Rest(t)[a] /\ s = Rest(u)[b]
            OBVIOUS
        <3>7. r \in Seq(TokensOf(t)) /\ s \in Seq(TokensOf(u))
            BY <1>1, <1>3, <3>2, <3>6, RestIs
        <3>8. Rest(t)[p] = <<x>> \o r
            BY <1>1, <2>2, <2>3, <2>8, <3>1, <3>6, RestIs
        <3>9. Rest(u)[q] = <<y>> \o s
            BY <1>1, <2>2, <2>3, <2>5, <2>8, <3>1, <3>6, RestIs
        <3>10. x.type = y.type /\ x.val = y.val
            BY <2>4 DEF Twins
        <3>11. Seen(<<x>> \o r) = Seen(<<y>> \o s)
            <4>1. PICK A, B : A = TokensOf(t) /\ B = TokensOf(u)
                OBVIOUS
            <4>2. x \in A /\ r \in Seq(A) /\ y \in B /\ s \in Seq(B) /\ Seen(r) = Seen(s)
                BY <2>6, <3>5, <3>6, <3>7, <4>1, Zenon
            <4> QED
                BY <3>10, <4>2, SeenAhead
        <3> QED
            BY <3>8, <3>9, <3>11, Zenon
    <2> QED
        BY <2>7, <2>8
<1>6. 1..n \subseteq S
    BY <1>5, Backwards
<1>7. 1 \in S /\ Parallel(t, u, 1, 1)
    BY <1>1, <1>2, <1>6 DEF Parallel
<1>8. Seen(Rest(t)[1]) = Seen(Rest(u)[1])
    BY <1>4, <1>7
<1> QED
    BY <1>8, TokensAre

-----------------------------------------------------------------------------
(* The texts that CaseInsensitive, BlanksInterchangeable and TrailingBlank *)
(* compare are similar.                                                    *)

LEMMA Capitals ==
    \A c : /\ c \in Alpha => ToUpper(c) \in Alpha /\ ToUpper(ToUpper(c)) = ToUpper(c)
           /\ c \notin Alpha => ToUpper(c) = c
<1>1. \A c \in Lower : ToUpper(c) \in Upper
    BY DEF Lower, Upper, ToUpper
<1>2. \A c : c \notin Lower => ToUpper(c) = c
    BY DEF Lower, ToUpper
<1>3. \A c \in Upper : c \notin Lower
    BY DEF Lower, Upper
<1> QED
    BY <1>1, <1>2, <1>3 DEF Alpha

LEMMA CapitalsSimilar ==
    ASSUME NEW t, IsText(t), \A k \in DOMAIN t : ~IsQuoteMark(t[k])
    PROVE  Similar(t, StringToUpper(t))
<1>1. PICK u : u = StringToUpper(t)
    OBVIOUS
<1>2. Len(t) \in Nat /\ DOMAIN t = 1..Len(t) /\ \A k \in 1..Len(t) : t[k] # NUL
    BY DEF IsText
<1>3. u = [k \in 1..Len(t) |-> ToUpper(t[k])]
    BY <1>1, <1>2 DEF StringToUpper
<1>4. \A k \in 1..Len(t) : ToUpper(t[k]) # NUL
    BY <1>2, Capitals, AlphaIs
<1>5. IsText(u) /\ Len(u) = Len(t)
    <2>1. PICK S : S = {ToUpper(t[k]) : k \in 1..Len(t)}
        OBVIOUS
    <2>2. NUL \notin S
        BY <1>4, <2>1
    <2>3. u \in [1..Len(t) -> S]
        BY <1>3, <2>1
    <2>4. u \in Seq(S) /\ Len(u) = Len(t)
        BY <1>2, <2>3
    <2> QED
        BY <2>2, <2>4 DEF IsText
<1>6. ASSUME NEW k \in 1..Len(t)
      PROVE  Akin(t[k], u[k]) /\ (u[k] \in NumberEnds <=> t[k] \in NumberEnds)
             /\ (u[k] \in LineEnds <=> t[k] \in LineEnds) /\ ~IsQuoteMark(t[k])
    <2>1. u[k] = ToUpper(t[k])
        BY <1>3
    <2>2. CASE t[k] \in Alpha
        BY <1>2, <2>1, <2>2, Capitals, AlphaIs DEF Akin
    <2>3. CASE t[k] \notin Alpha
        BY <1>2, <2>1, <2>3, Capitals DEF Akin
    <2> QED
        BY <2>2, <2>3
<1> QED
    BY <1>1, <1>5, <1>6 DEF Similar

LEMMA BlankSimilar ==
    ASSUME NEW t, IsText(t), \A j \in DOMAIN t : ~IsQuoteMark(t[j]) /\ ~IsComment(t[j]),
           NEW k \in DOMAIN t, t[k] \in Pauses, t[k] \in NumberEnds,
           NEW d, d # NUL, d \in Pauses, d \in NumberEnds \/ (k > 1 => t[k - 1] \notin Digits)
    PROVE  Similar(t, [t EXCEPT ![k] = d])
<1>1. PICK u : u = [t EXCEPT ![k] = d]
    OBVIOUS
<1>2. Len(t) \in Nat /\ DOMAIN t = 1..Len(t)
    BY DEF IsText
<1>3. IsText(u) /\ Len(u) = Len(t) /\ u[k] = d /\ \A j \in 1..Len(t) : j # k => u[j] = t[j]
    <2>1. PICK S : t \in Seq(S) /\ NUL \notin S
        BY DEF IsText
    <2>2. PICK V : V = S \cup {d}
        OBVIOUS
    <2>3. u \in Seq(V) /\ NUL \notin V /\ Len(u) = Len(t)
        BY <1>1, <1>2, <2>1, <2>2
    <2>4. u[k] = d /\ \A j \in 1..Len(t) : j # k => u[j] = t[j]
        BY <1>1, <1>2
    <2> QED
        BY <2>3, <2>4 DEF IsText
<1>4. ASSUME NEW j \in 1..Len(t)
      PROVE  /\ Akin(t[j], u[j]) /\ ~IsQuoteMark(t[j]) /\ ~IsComment(t[j])
             /\ j > 1 /\ t[j - 1] \in Digits => (u[j] \in NumberEnds <=> t[j] \in NumberEnds)
    <2>1. CASE j = k
        BY <1>2, <1>3, <2>1 DEF Akin, Gaps
    <2>2. CASE j # k
        BY <1>2, <1>3, <2>2 DEF Akin
    <2> QED
        BY <2>1, <2>2
<1> QED
    BY <1>1, <1>3, <1>4 DEF Similar

LEMMA TrailSimilar ==
    ASSUME NEW t, IsText(t), t # <<>> => t[Len(t)] # ".",
           NEW d, d # NUL, d \in Pauses, d \in NumberEnds, d \notin LineEnds
    PROVE  Similar(t, Append(t, d))
<1>1. PICK u : u = Append(t, d)
    OBVIOUS
<1>2. Len(t) \in Nat
    BY DEF IsText
<1>3. IsText(u) /\ Len(u) = Len(t) + 1 /\ u[Len(t) + 1] = d /\ \A j \in 1..Len(t) : u[j] = t[j]
    <2>1. PICK S : t \in Seq(S) /\ NUL \notin S
        BY DEF IsText
    <2>2. PICK V : V = S \cup {d}
        OBVIOUS
    <2>3. t \in Seq(V) /\ d \in V /\ NUL \notin V
        BY <2>1, <2>2
    <2>4. /\ u \in Seq(V) /\ Len(u) = Len(t) + 1 /\ u[Len(t) + 1] = d
          /\ \A j \in 1..Len(t) : u[j] = t[j]
        BY <1>1, <2>3, AppendProperties
    <2> QED
        BY <2>3, <2>4 DEF IsText
<1>4. \A j \in 1..Len(t) : Akin(t[j], u[j])
    BY <1>3 DEF Akin
<1> QED
    BY <1>1, <1>2, <1>3, <1>4 DEF Similar

Blank == " "
NewLine == "\n"
Tab == "\t"

LEMMA Blanks ==
    /\ Blank \in Pauses /\ NewLine \in Pauses /\ Tab \in Pauses
    /\ Blank \in NumberEnds /\ NewLine \in NumberEnds /\ Blank \notin LineEnds
    /\ Blank # NUL /\ NewLine # NUL /\ Tab # NUL
<1>1. Blank \in Pauses /\ NewLine \in Pauses /\ Tab \in Pauses
    BY Zenon DEF Blank, NewLine, Tab, Pauses
<1>2. Blank \in NumberEnds /\ NewLine \in NumberEnds /\ Blank \notin LineEnds
    BY Zenon DEF Blank, NewLine, NumberEnds, LineEnds, NUL
<1>3. Blank # NUL /\ NewLine # NUL /\ Tab # NUL
    BY Zenon DEF Blank, NewLine, Tab, NUL
<1> QED
    BY <1>1, <1>2, <1>3

\* The scan goes forward, and what it finds does not depend on capitals, on which blank
\* stands between two tokens, or on one at the end (parser.c, lines 8 to 219), but for
\* the exceptions that the properties name.
THEOREM TokensStay == TextsAssumption => (ScanSpec => []TokensStable)
<1>1. ScanInv => TokensStable
    <2>1. SUFFICES ASSUME ScanInv PROVE TokensStable
        OBVIOUS
    <2>2. PICK t, found, p : t = text /\ found = read /\ p = current_char
        OBVIOUS
    <2>3. Read(t, found, p)
        BY <2>1, <2>2 DEF ScanInv
    <2>4. IsText(t) /\ Len(t) \in Nat /\ DOMAIN t = 1..Len(t)
        BY <2>3 DEF Read, IsText
    <2>5. Ended => Tokens(t) = found
        BY <2>2, <2>3 DEF Ended, Read
    <2>6. ScanTypeOK
        <3>1. p \in 1..Len(t) + 1 /\ DOMAIN found = 1..Len(found)
            BY <2>3 DEF Read, Positions
        <3> QED
            BY <2>2, <2>3, <3>1 DEF ScanTypeOK, Read
    <2>7. CaseInsensitive
        <3>1. SUFFICES ASSUME Ended, \A k \in DOMAIN t : ~IsQuoteMark(t[k])
                       PROVE  Seen(found) = Seen(Tokens(StringToUpper(t)))
            BY <2>2, Zenon DEF CaseInsensitive, IsQuoteMark
        <3>2. Similar(t, StringToUpper(t))
            BY <2>4, <3>1, CapitalsSimilar
        <3> QED
            BY <2>5, <3>1, <3>2, SameTokens
    <2>8. BlanksInterchangeable
        <3>1. SUFFICES ASSUME Ended, \A j \in DOMAIN t : ~IsQuoteMark(t[j]) /\ ~IsComment(t[j]),
                              NEW k \in DOMAIN t, t[k] \in {Blank, NewLine}
                       PROVE  /\ Seen(Tokens([t EXCEPT ![k] = Blank])) = Seen(found)
                              /\ Seen(Tokens([t EXCEPT ![k] = NewLine])) = Seen(found)
                              /\ (k > 1 => t[k - 1] \notin Digits) =>
                                     Seen(Tokens([t EXCEPT ![k] = Tab])) = Seen(found)
            BY <2>2, Zenon DEF BlanksInterchangeable, IsQuoteMark, IsComment, Blank, NewLine, Tab
        <3>2. t[k] \in Pauses /\ t[k] \in NumberEnds
            BY <3>1, Blanks
        <3>3. ASSUME NEW d \in {Blank, NewLine, Tab}, d \in NumberEnds \/ (k > 1 => t[k - 1] \notin Digits)
              PROVE  Seen(Tokens([t EXCEPT ![k] = d])) = Seen(found)
            <4>1. d # NUL /\ d \in Pauses
                BY <3>3, Blanks
            <4>2. Similar(t, [t EXCEPT ![k] = d])
                BY <2>4, <3>1, <3>2, <3>3, <4>1, BlankSimilar
            <4> QED
                BY <2>5, <3>1, <4>2, SameTokens
        <3> QED
            BY <3>3, Blanks
    <2>9. TrailingBlank
        <3>1. SUFFICES ASSUME Ended, ~(t # <<>> /\ Last(t) = ".")
                       PROVE  Seen(Tokens(Append(t, Blank))) = Seen(found)
            BY <2>2, Zenon DEF TrailingBlank, Blank
        <3>2. t # <<>> => t[Len(t)] # "."
            BY <3>1 DEF Last
        <3>3. Similar(t, Append(t, Blank))
            BY <2>4, <3>2, Blanks, TrailSimilar
        <3> QED
            BY <2>5, <3>1, <3>3, SameTokens
    <2> QED
        BY <2>6, <2>7, <2>8, <2>9 DEF TokensStable
<1> QED
    BY <1>1, ScanHolds, PTL

=============================================================================
