------------------------------- MODULE Reader -------------------------------
(***************************************************************************)
(* The reader (src/src/parser.c, lines 226 to 355): make_cons_tree and its *)
(* callees build the cells of a form from tokens, and every cell they      *)
(* allocate may start a collection (src/src/cons.c, line 286).             *)
(*                                                                         *)
(* The roots of a collection that matter here are the cells of             *)
(* cstack_cons_cell_list; a collection sweeps all cells that they do not   *)
(* reach, which is what the collector does (CollectionComplete and         *)
(* NoDangling of Heap).  Nothing else holds the cells of an unfinished     *)
(* form.  Tokens are chosen as they are read; the tokenizer itself is      *)
(* Lexer.  References are cell numbers; an unboxed value is its meaning in *)
(* Syntax; NULL is what make_cons_tree returns for a closing parenthesis.  *)
(***************************************************************************)
EXTENDS Syntax

CONSTANTS Offered,          \* the tokens a program may consist of
          MaxTokens,        \* bound on the tokens of a session; then the text ends
          MaxCollections    \* bound on the collections during one form

TokenOf(type) == [type |-> type, val |-> "none"]
Eof == TokenOf("eof")

VARIABLES
    pc,             \* "program", "next", "tree", "return" or "ended"
    tokens,         \* the tokens of the current form, so far
    frames,         \* the C activations of make_cons_list, quote and '#'
    ret,            \* what the callee returned
    cell,           \* the cells allocated, by number
    swept,          \* the cells the collector has taken back
    cstack,         \* cstack_cons_cell_list
    status,         \* what the last form came to
    base,           \* Len(cstack) when the form began
    spent,          \* the tokens of the forms before
    collections

vars == <<pc, tokens, frames, ret, cell, swept, cstack, status, base,
          spent, collections>>

NULL == <<"NULL">>
Ref(c) == <<"cell", c>>
IsRef(v) == v[1] = "cell"

\* Cells: car and cdr, or the elements of a vector, or the name of a symbol.
Open(car, cdr) == [type |-> "OPEN", vals |-> <<car, cdr>>, name |-> "none"]
Vector(elements) == [type |-> "ARRAY", vals |-> elements, name |-> "none"]
Named(type, name) == [type |-> type, vals |-> <<>>, name |-> name]

Pop(s) == SubSeq(s, 1, Len(s) - 1)
Top == frames[Len(frames)]
Below == Pop(frames)
Activated == frames # <<>>

\* at tells what the activation waits for.
Frame(at, val, tmp) == [at |-> at, val |-> val, tmp |-> tmp, slot |-> Len(cstack) + 1]

Children(c) == {v[2] : v \in {w \in {cell[c].vals[k] : k \in DOMAIN cell[c].vals} : IsRef(w)}}

\* Children have any number, so the closure takes at most Len(cell) rounds.
Reach(roots) ==
    LET closure[n \in 0..Len(cell)] ==
            IF n = 0 THEN roots
            ELSE LET reached == closure[n - 1]
                 IN  reached \cup UNION {Children(c) : c \in reached}
    IN  closure[Len(cell)]

CellsOf(v) == IF IsRef(v) THEN {v[2]} ELSE {}
Rooted == Reach({cstack[k] : k \in DOMAIN cstack})
Garbage == {c \in DOMAIN cell : c \notin Rooted}

\* new_cons_cell: with or without a collection.
Collect ==
    \/ UNCHANGED <<swept, collections>>
    \/ /\ collections < MaxCollections
       /\ swept' = swept \cup Garbage
       /\ collections' = collections + 1

NewCell == Len(cell) + 1

Init ==
    /\ pc = "program" /\ tokens = <<>> /\ frames = <<>> /\ ret = NULL
    /\ cell = <<>> /\ swept = {} /\ cstack = <<>> /\ status = "none"
    /\ base = 0 /\ spent = 0 /\ collections = 0

(***************************************************************************)
(* parse_program.  Its handler drops the activations and nothing else.     *)
(***************************************************************************)
ParseProgram ==
    /\ pc = "program"
    /\ spent + Len(tokens) < MaxTokens
    /\ spent' = spent + Len(tokens)
    /\ collections' = 0
    /\ tokens' = <<>> /\ status' = "none" /\ base' = Len(cstack) /\ ret' = NULL
    /\ pc' = "next"
    /\ UNCHANGED <<frames, cell, swept, cstack>>

Throw ==
    /\ frames' = <<>> /\ status' = "error" /\ pc' = "program"
    /\ UNCHANGED <<ret, cell, swept, cstack, collections>>

ReturnProgram ==
    /\ pc = "return" /\ ~Activated
    /\ IF ret = NULL THEN Throw
       ELSE /\ status' = "done" /\ pc' = "program"
            /\ UNCHANGED <<frames, ret, cell, swept, cstack, collections>>
    /\ UNCHANGED <<tokens, base, spent>>

\* The form is run; if it fails, the handler of exec clears the list.
ExecThrows ==
    /\ pc = "program" /\ status = "done"
    /\ cstack' = <<>> /\ base' = 0 /\ status' = "none"
    /\ UNCHANGED <<pc, tokens, frames, ret, cell, swept, spent, collections>>

(***************************************************************************)
(* get_next_token.  It is called for the next form, and in a list also for *)
(* the parenthesis behind a dotted pair.                                   *)
(***************************************************************************)
Return(v) == pc' = "return" /\ ret' = v /\ frames' = Below

GetToken ==
    /\ pc = "next"
    /\ \E t \in IF spent + Len(tokens) < MaxTokens THEN Offered ELSE {Eof} :
          /\ tokens' = Append(tokens, t)
          /\ CASE t.type = "error" -> Throw
               [] t = Eof /\ ~Activated ->
                      /\ pc' = "program" /\ status' = "eof"
                      /\ UNCHANGED <<frames, ret, cell, swept, cstack, collections>>
               [] Activated /\ Top.at = "rest" /\ t.type = "dot" ->
                      /\ frames' = Append(Below, [Top EXCEPT !.at = "cdr"])
                      /\ UNCHANGED <<pc, ret, cell, swept, cstack, collections, status>>
               [] Activated /\ Top.at = "close" ->
                      IF t.type = "close"
                      THEN /\ Return(Ref(Top.val)) /\ cstack' = Pop(cstack)
                           /\ UNCHANGED <<cell, swept, collections, status>>
                      ELSE Throw
               [] OTHER ->
                      /\ pc' = "tree"
                      /\ UNCHANGED <<frames, ret, cell, swept, cstack, collections, status>>
    /\ UNCHANGED <<base, spent>>

(***************************************************************************)
(* make_cons_tree: by the type of the token.                               *)
(***************************************************************************)
Current == tokens[Len(tokens)]
AtTree(types) == pc = "tree" /\ Current.type \in types
Bookkeeping == <<tokens, base, spent, status>>

Push(at, c, tmp) ==
    /\ cstack' = Append(cstack, c)
    /\ frames' = Append(frames, Frame(at, c, tmp))

MakeConsList ==
    /\ AtTree({"open"})
    /\ Collect
    /\ cell' = Append(cell, Open(NULL, NULL))
    /\ Push("car", NewCell, NewCell)
    /\ pc' = "next"
    /\ UNCHANGED <<ret, Bookkeeping>>

\* Mutant: a quotation is no root.
MakeQuoteUnrooted ==
    /\ AtTree({"quote"})
    /\ Collect
    /\ cell' = cell \o <<Open(Ref(NewCell + 1), Ref(NewCell + 2)),
                         Named("FUNC", "QUOTE"), Open(NULL, Nil)>>
    /\ frames' = Append(frames, Frame("quote", NewCell, NewCell + 2))
    /\ pc' = "next"
    /\ UNCHANGED <<ret, cstack, Bookkeeping>>

\* Three cells: the list, the symbol QUOTE and the second cell.  Each is linked
\* before the next is allocated, so it does not matter which one collects.
MakeQuote ==
    /\ AtTree({"quote"})
    /\ Collect
    /\ cell' = cell \o <<Open(Ref(NewCell + 1), Ref(NewCell + 2)),
                         Named("FUNC", "QUOTE"), Open(NULL, Nil)>>
    /\ Push("quote", NewCell, NewCell + 2)
    /\ pc' = "next"
    /\ UNCHANGED <<ret, Bookkeeping>>

EnterVector ==
    /\ AtTree({"array"})
    /\ frames' = Append(frames, Frame("vector", 0, 0))
    /\ pc' = "next"
    /\ UNCHANGED <<ret, cell, swept, cstack, collections, Bookkeeping>>

IsHeadOfList == Activated /\ Top.at = "car"

MakeUnboxed ==
    /\ AtTree({"int", "nil", "T"})
    /\ pc' = "return" /\ ret' = Leaf(Current)
    /\ UNCHANGED <<frames, cell, swept, cstack, collections, Bookkeeping>>

MakeNamed ==
    /\ AtTree({"symbol", "string"})
    /\ Collect
    /\ cell' = Append(cell, Named(IF Current.type = "string" THEN "STRING"
                                  ELSE IF IsHeadOfList THEN "FUNC" ELSE "VARIABLE",
                                  Current.val))
    /\ pc' = "return" /\ ret' = Ref(NewCell)
    /\ UNCHANGED <<frames, cstack, Bookkeeping>>

\* Mutant: the closing parenthesis takes the entry of the list.
MakeClosePops ==
    /\ AtTree({"close"})
    /\ pc' = "return" /\ ret' = NULL
    /\ cstack' = Pop(cstack)
    /\ UNCHANGED <<frames, cell, swept, collections, Bookkeeping>>

MakeClose ==
    /\ AtTree({"close"})
    /\ pc' = "return" /\ ret' = NULL
    /\ UNCHANGED <<frames, cell, swept, cstack, collections, Bookkeeping>>

Unexpected ==
    /\ AtTree({"dot", "eof"})
    /\ Throw
    /\ UNCHANGED <<tokens, base, spent>>

(***************************************************************************)
(* The callers of make_cons_tree, when it returns.                         *)
(***************************************************************************)
Returned(at) == pc = "return" /\ Activated /\ Top.at = at

SetCar(c, v) == cell' = [cell EXCEPT ![c].vals[1] = v]
SetCdr(c, v) == cell' = [cell EXCEPT ![c].vals[2] = v]

\* The first element.  "()" is nil, and its cell stays in the list of roots.
ReturnCar ==
    /\ Returned("car")
    /\ SetCar(Top.tmp, ret)
    /\ IF ret = NULL THEN Return(Nil)
       ELSE pc' = "next" /\ frames' = Append(Below, [Top EXCEPT !.at = "rest"]) /\ UNCHANGED ret
    /\ UNCHANGED <<swept, cstack, collections, Bookkeeping>>

ReturnLast ==
    /\ Returned("rest") /\ ret = NULL
    /\ SetCdr(Top.tmp, Nil)
    /\ Return(Ref(Top.val))
    /\ cstack' = Pop(cstack)
    /\ UNCHANGED <<swept, collections, Bookkeeping>>

\* A further element: it is in the C variable car only while its cell is made.
\* If the collector takes it, the list holds a cell of the free list.
ReturnElement ==
    /\ Returned("rest") /\ ret # NULL
    /\ Collect
    /\ IF Reach(CellsOf(ret)) \cap swept' # {}
       THEN /\ pc' = "ended" /\ status' = "lost" /\ UNCHANGED <<cell, frames>>
       ELSE /\ cell' = Append([cell EXCEPT ![Top.tmp].vals[2] = Ref(NewCell)], Open(ret, NULL))
            /\ frames' = Append(Below, [Top EXCEPT !.tmp = NewCell])
            /\ pc' = "next" /\ UNCHANGED status
    /\ UNCHANGED <<tokens, base, spent, ret, cstack>>

\* Mutant: more may follow the value behind a dot.
ReturnCdrGoesOn ==
    /\ Returned("cdr")
    /\ SetCdr(Top.tmp, ret)
    /\ pc' = "next" /\ frames' = Append(Below, [Top EXCEPT !.at = "rest"])
    /\ UNCHANGED <<ret, swept, cstack, collections, Bookkeeping>>

\* The value behind a dot.
ReturnCdr ==
    /\ Returned("cdr")
    /\ SetCdr(Top.tmp, ret)
    /\ pc' = "next" /\ frames' = Append(Below, [Top EXCEPT !.at = "close"])
    /\ UNCHANGED <<ret, swept, cstack, collections, Bookkeeping>>

\* A quote takes whatever comes, a closing parenthesis too.
ReturnQuote ==
    /\ Returned("quote")
    /\ SetCar(Top.tmp, ret)
    /\ Return(Ref(Top.val))
    /\ cstack' = Pop(cstack)
    /\ UNCHANGED <<swept, collections, Bookkeeping>>

\* A vector with a NULL among its elements ("#')") stops the mark phase early
\* (memory.c:360) and is not followed.
\* new_cons_array allocates its cell and then walks the list, which nothing
\* roots; IS_OPEN of NULL, and the cdr of an unboxed value, crash.
IsOpen(v) == IsRef(v) /\ cell[v[2]].type = "OPEN"

\* The cells of the list v, and what stands in the cdr of the last.
ListCells(v) ==
    LET walk[n \in 0..Len(cell)] ==
            IF n = 0 THEN [conses |-> <<>>, end |-> v]
            ELSE LET w == walk[n - 1]
                 IN  IF IsOpen(w.end)
                     THEN [conses |-> Append(w.conses, w.end[2]), end |-> cell[w.end[2]].vals[2]]
                     ELSE w
    IN  walk[Len(cell)]

ReturnVector ==
    /\ Returned("vector")
    /\ IF ret # NULL /\ ret # Nil /\ ~IsOpen(ret)
       THEN Throw
       ELSE /\ Collect
            /\ LET list == ListCells(ret)
                   elements == [k \in DOMAIN list.conses |-> cell[list.conses[k]].vals[1]]
               IN  IF ret = NULL \/ list.end \notin {Nil, NULL}
                   THEN /\ pc' = "ended" /\ status' = "crash"
                        /\ UNCHANGED <<cell, frames, ret>>
                   ELSE IF Reach(CellsOf(ret)) \cap swept' # {}
                   THEN /\ pc' = "ended" /\ status' = "lost"
                        /\ UNCHANGED <<cell, frames, ret>>
                   ELSE IF \E k \in DOMAIN elements : elements[k] = NULL
                   THEN /\ pc' = "ended" /\ status' = "null"
                        /\ UNCHANGED <<cell, frames, ret>>
                   ELSE /\ cell' = Append(cell, Vector(elements))
                        /\ Return(Ref(NewCell)) /\ UNCHANGED status
            /\ UNCHANGED cstack
    /\ UNCHANGED <<tokens, base, spent>>

Next ==
    \/ ParseProgram \/ ReturnProgram \/ ExecThrows \/ GetToken
    \/ MakeConsList \/ MakeQuote \/ EnterVector
    \/ MakeUnboxed \/ MakeNamed \/ MakeClose \/ Unexpected
    \/ ReturnCar \/ ReturnLast \/ ReturnElement \/ ReturnCdr
    \/ ReturnQuote \/ ReturnVector

Spec == Init /\ [][Next]_vars

-----------------------------------------------------------------------------
(* Properties.                                                             *)

(* Types: every reference names an allocated cell, and the activations say *)
(* where in the list of roots their own cell went.                         *)
TypeOK ==
    /\ pc \in {"program", "next", "tree", "return", "ended"}
    /\ status \in {"none", "done", "error", "eof", "crash", "lost", "null"}
    /\ CellsOf(ret) \subseteq DOMAIN cell
    /\ \A c \in DOMAIN cell : Children(c) \subseteq DOMAIN cell
    /\ \A k \in DOMAIN cstack : cstack[k] \in DOMAIN cell
    /\ swept \subseteq DOMAIN cell
    /\ \A k \in DOMAIN frames :
          /\ frames[k].at \in {"car", "rest", "cdr", "close", "quote", "vector"}
          /\ frames[k].val \in DOMAIN cell \/ frames[k].at = "vector"

(* Every unfinished list and quotation is a root until its activation      *)
(* returns: although "()" leaves entries behind and each return removes    *)
(* the last entry, whichever that is, the entry of an activation that has  *)
(* not returned is never removed.                                          *)
RootsHeld ==
    \A k \in DOMAIN frames : frames[k].at # "vector" =>
        /\ frames[k].slot \in DOMAIN cstack
        /\ cstack[frames[k].slot] = frames[k].val

(* No cell that the reader still holds is swept: neither a cell of a list  *)
(* in the making nor the value it is about to return.  The two places that *)
(* break this end in status "lost": ReturnElement (line 297) and           *)
(* ReturnVector (line 248).                                                *)
NothingElseLost ==
    pc # "ended" =>
        /\ \A k \in DOMAIN frames : frames[k].at # "vector" =>
               Reach({frames[k].val, frames[k].tmp}) \cap swept = {}
        /\ pc = "return" => Reach(CellsOf(ret)) \cap swept = {}

(* What a value means in Syntax, and whether it holds a NULL. *)
Meaning(v) ==
    LET value[c \in DOMAIN cell] ==
            LET of(w) == IF IsRef(w) THEN value[w[2]] ELSE w
            IN  CASE cell[c].type = "OPEN" -> Cons(of(cell[c].vals[1]), of(cell[c].vals[2]))
                  [] cell[c].type = "ARRAY" ->
                         <<"vector", [k \in DOMAIN cell[c].vals |-> of(cell[c].vals[k])]>>
                  [] cell[c].type = "STRING" -> <<"string", cell[c].name>>
                  [] OTHER -> <<"symbol", cell[c].name>>
    IN  IF IsRef(v) THEN value[v[2]] ELSE v

HoldsNull(v) == \E c \in Reach(CellsOf(v)) : \E k \in DOMAIN cell[c].vals :
                    cell[c].vals[k] = NULL

Follows(type, next) ==
    \E k \in 1..Len(tokens) - 1 : tokens[k].type = type /\ tokens[k + 1].type = next

(* The reader reads the language of Syntax: a form gets the value that its *)
(* tokens mean, whatever was collected on the way, and what is no form     *)
(* ends in an exception or, behind '#', in a crash.  It accepts three      *)
(* things more: a quotation of ")" and a dot before "))", which put a NULL *)
(* into the value, and '#' before a quotation, which is a list to IS_OPEN. *)
ReadsTheLanguage ==
    LET parsed == Parse(tokens)
    IN  /\ status = "done" =>
               \/ parsed = Success(Meaning(ret), Len(tokens) + 1)
               \/ ~parsed.ok /\ (Follows("quote", "close") \/ Follows("dot", "close")
                                     \/ Follows("array", "quote"))
        /\ status \in {"error", "crash", "eof"} => ~parsed.ok

\* The cells are well-formed, and those the reader holds are not swept.
CellsKept == TypeOK /\ NothingElseLost

=============================================================================
