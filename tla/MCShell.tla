------------------------------- MODULE MCShell ------------------------------
(***************************************************************************)
(* Instances of Shell: short texts of all kinds, and longer ones of lists, *)
(* symbols and lines.                                                      *)
(***************************************************************************)
EXTENDS Shell

CONSTANTS MaxPieces,    \* bound on the pieces of a short text
          MaxListPieces \* bound on the pieces of a longer one

ListPieces == {<<"(">>, <<")">>, <<"a">>, <<"\n">>}
Pieces == ListPieces \cup {<<";">>, <<"\"">>, <<"e", "x", "i", "t">>}

TextsOf(pieces, max) ==
    LET texts[n \in 0..max] ==
            IF n = 0 THEN {<<>>} ELSE {s \o p : s \in texts[n - 1], p \in pieces \cup {<<>>}}
    IN  texts[max]

MCTexts == TextsOf(Pieces, MaxPieces) \cup TextsOf(ListPieces, MaxListPieces)

=============================================================================
