------------------------------- MODULE Syntax -------------------------------
(***************************************************************************)
(* The language the reader promises to read: what a sequence of tokens     *)
(* means, stated without cells, activations or roots.  Reader is shown to  *)
(* give these values.                                                      *)
(*                                                                         *)
(* A value is a tuple: <<"int", n>>, <<"nil">>, <<"T">>, <<"symbol", s>>,  *)
(* <<"string", s>>, <<"vector", elements>>, or <<"list", elements, end>>   *)
(* for a chain of pairs whose last cdr is end, which is no pair.           *)
(***************************************************************************)
EXTENDS Integers, Sequences

Nil == <<"nil">>
Cons(car, cdr) == IF cdr[1] = "list" THEN <<"list", <<car>> \o cdr[2], cdr[3]>>
                  ELSE <<"list", <<car>>, cdr>>
Quoted(v) == Cons(<<"symbol", "QUOTE">>, Cons(v, Nil))

\* Tokens have a type (enum TokType) and a value; these are forms by themselves.
LeafTypes == {"int", "nil", "T", "symbol", "string"}
Leaf(token) == IF token.type \in {"nil", "T"} THEN <<token.type>>
               ELSE <<token.type, token.val>>

Failure == [ok |-> FALSE]
Success(v, next) == [ok |-> TRUE, val |-> v, next |-> next]

\* The vector of the elements of a list that ends in nil.
VectorOf(form) ==
    CASE ~form.ok -> Failure
      [] form.val = Nil -> Success(<<"vector", <<>>>>, form.next)
      [] form.val[1] = "list" /\ form.val[3] = Nil ->
             Success(<<"vector", form.val[2]>>, form.next)
      [] OTHER -> Failure

(***************************************************************************)
(* What stands from token k on: a form, or the rest of a list up to its    *)
(* parenthesis; and where it ends.                                         *)
(***************************************************************************)
Parse(tokens) ==
    LET type(k) == IF k \in DOMAIN tokens THEN tokens[k].type ELSE "eof"
        parse[what \in {"form", "rest"}, k \in 1..Len(tokens) + 1] ==
            LET at(w, j) == IF j > Len(tokens) THEN Failure ELSE parse[w, j]
                form == at("form", k)
                behind == at("form", k + 1)
                more == at("rest", form.next)
            IN  CASE what = "form" /\ type(k) \in LeafTypes -> Success(Leaf(tokens[k]), k + 1)
                  [] what = "form" /\ type(k) = "open" /\ type(k + 1) # "dot" ->
                         at("rest", k + 1)
                  [] what = "form" /\ type(k) = "quote" ->
                         IF behind.ok THEN Success(Quoted(behind.val), behind.next)
                         ELSE Failure
                  [] what = "form" /\ type(k) = "array" /\ type(k + 1) \in {"open", "nil"} ->
                         VectorOf(behind)
                  [] what = "rest" /\ type(k) = "close" -> Success(Nil, k + 1)
                  [] what = "rest" /\ type(k) = "dot" ->
                         IF behind.ok /\ type(behind.next) = "close"
                         THEN Success(behind.val, behind.next + 1) ELSE Failure
                  [] what = "rest" /\ type(k) \notin {"close", "dot"} ->
                         IF form.ok /\ more.ok
                         THEN Success(Cons(form.val, more.val), more.next) ELSE Failure
                  [] OTHER -> Failure
    IN  IF tokens = <<>> THEN Failure ELSE parse["form", 1]

=============================================================================
