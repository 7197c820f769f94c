------------------------------ MODULE MCValues ------------------------------
(***************************************************************************)
(* An instance of Numbers.  Inputs are all pairs of values, and the        *)
(* triples of a few values that tie, round, overflow or are no number.     *)
(***************************************************************************)
EXTENDS Numbers

MCStrings == 1..3

Few == {MkInt(IntMin), MkInt(-1), MkInt(1), MkInt(5), MkInt(IntMax),
        MkFloat(FALSE, 5), MkFloat(TRUE, 1), NaN, Nil}
FewStrings == {MkString(s) : s \in Strings} \cup {Nil}

MCInputs ==
    {<<>>} \cup {<<v>> : v \in Values}
        \cup {<<a, b>> : a \in Values, b \in Values}
        \cup {<<a, b, c>> : a \in Few, b \in Few, c \in Few}
        \cup {<<a, b, c>> : a \in FewStrings, b \in FewStrings, c \in FewStrings}

=============================================================================
