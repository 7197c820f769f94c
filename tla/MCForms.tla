------------------------------ MODULE MCForms -------------------------------
(***************************************************************************)
(* Instances of Forms: every form with few operands.                       *)
(***************************************************************************)
EXTENDS Forms

CONSTANTS MaxOperands,  \* bound on the operands of a form
          MaxClauses    \* bound on its clauses, bindings and directives

Operands == 0..MaxOperands
SpecsOf(set) == UNION {[1..k -> set] : k \in 0..MaxClauses}
FormsOf(ops, ns, specs) == [op : ops, n : ns, spec : specs]

FewClauses == [test : {"symbol", "form"}, n : Operands] \cup [test : {"nil clause", "text clause"}, n : {0}]
FewDirectives == {"~A", "~", "text"}

MCPrograms ==
    FormsOf({"AND", "OR", "WHEN", "UNLESS", "ASSERT", "MACRO"}, Operands, {<<>>})
    \cup FormsOf({"COND"}, {0}, SpecsOf(FewClauses))
    \cup FormsOf(Loops, Operands, {"bad", "list", "atom", "none"})
    \cup FormsOf({"FORMAT"}, Operands \cup {-1}, SpecsOf(FewDirectives))
    \cup FormsOf(Lets, {0, 1}, SpecsOf(Bindings))

=============================================================================
