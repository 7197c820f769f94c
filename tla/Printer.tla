------------------------------ MODULE Printer -------------------------------
(***************************************************************************)
(* val_to_string and the print functions of the cells (src/src/cons.c),    *)
(* which write the value a form has.  The text is given as the tokens it   *)
(* is made of; a string that is written without its quotes is one word     *)
(* here.  The values are those the reader makes.                           *)
(***************************************************************************)
EXTENDS Reader

Word(name) == [type |-> "symbol", val |-> name]
Parenthesized(text) == <<TokenOf("open")>> \o text \o <<TokenOf("close")>>
UnboxedText(v) == <<IF v[1] = "int" THEN [type |-> "int", val |-> v[2]] ELSE TokenOf(v[1])>>

\* Mutant: it asks of the cdr itself whether it is an atom.
IsAtomBehindDot(v) == v # Nil /\ ~IsOpen(v)

\* print_open asks of the cdr whether it is a pair that ends in an atom.
IsDottedPair(v) == IsOpen(v) /\ cell[v[2]].vals[2] # Nil /\ ~IsOpen(cell[v[2]].vals[2])

\* val_to_string(v, ., is_root): only the root has its parentheses or quotes.
ValToString(v, is_root) ==
    LET print[w \in {v} \cup {Ref(c) : c \in DOMAIN cell}
                   \cup UNION {{cell[c].vals[k] : k \in DOMAIN cell[c].vals} : c \in DOMAIN cell},
              root \in BOOLEAN] ==
            LET c == cell[w[2]]
                car == IF IsOpen(c.vals[1]) THEN Parenthesized(print[c.vals[1], FALSE])
                       ELSE print[c.vals[1], FALSE]
                cdr == c.vals[2]
                rest == CASE IsDottedPair(cdr) ->
                                 <<TokenOf("dot")>> \o Parenthesized(print[cdr, FALSE])
                          [] IsOpen(cdr) -> print[cdr, FALSE]
                          [] cdr = Nil -> <<>>
                          [] OTHER -> <<TokenOf("dot")>> \o print[cdr, FALSE]
                elements[n \in 0..Len(c.vals)] ==
                    IF n = 0 THEN <<>> ELSE elements[n - 1] \o print[c.vals[n], TRUE]
            IN  CASE ~IsRef(w) -> UnboxedText(w)
                  [] IsOpen(w) -> IF root THEN Parenthesized(car \o rest) ELSE car \o rest
                  [] c.type = "ARRAY" ->
                         <<TokenOf("array")>> \o Parenthesized(elements[Len(c.vals)])
                  [] c.type = "STRING" /\ root -> <<[type |-> "string", val |-> c.name]>>
                  [] OTHER -> <<Word(c.name)>>
    IN  print[v, is_root]

(* What is printed reads back: the text of a value the reader made is a    *)
(* form with the same meaning, dotted pairs and vectors included.  The     *)
(* exception are strings in a list: print_open writes them without quotes, *)
(* so that they come back as symbols.                                      *)
PrintReadsBack ==
    status = "done" /\ ~HoldsNull(ret) =>
        \/ \E c \in Reach(CellsOf(ret)) : cell[c].type = "OPEN" /\
               \E d \in Children(c) : cell[d].type = "STRING"
        \/ LET text == ValToString(ret, TRUE)
           IN  Parse(text) = Success(Meaning(ret), Len(text) + 1)

=============================================================================
