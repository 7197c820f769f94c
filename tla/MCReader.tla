------------------------------ MODULE MCReader ------------------------------
(***************************************************************************)
(* Instances of Scanner, Reader and Printer: from the characters of a text *)
(* to its tokens, and from tokens to cells and back.  A behaviour scans    *)
(* one text, or reads a session.                                           *)
(*                                                                         *)
(* Texts are all those of up to four characters out of one of each kind,   *)
(* and longer ones over the characters that numbers and words are made of. *)
(***************************************************************************)
EXTENDS Printer, Scanner

\* A symbol needs a cell of its own, nil none.
MCOffered == {TokenOf("open"), TokenOf("close"), TokenOf("dot"), TokenOf("quote"), TokenOf("array"),
              [type |-> "symbol", val |-> "A"], TokenOf("nil"), TokenOf("error"), Eof}

Chars == {"(", ")", " ", "\n", "\t", "\r", ";", "\"", "#", "'", ".", "-", "<",
          "=", "%", "a", "t", "1", "9"}

TextsOf(chars, n) == [1..n -> chars]

MCTexts ==
    UNION {TextsOf(Chars, n) : n \in 0..4}
        \cup UNION {TextsOf({"-", "1", "9", ".", " "}, n) : n \in 5..6}
        \cup TextsOf({"n", "I", "l", "T", ")"}, 4)
        \cup TextsOf({";", "\n", "\"", "a", "(", " "}, 5)

ASSUME MCTextsAssumption == TextsAssumption

\* A session is read behind the text without a character.
MCInit == Init /\ ScanInit

MCNext ==
    \/ text = <<>> /\ Next /\ UNCHANGED scanVars
    \/ text # <<>> /\ GetNextToken /\ UNCHANGED vars

MCSpec == MCInit /\ [][MCNext]_<<vars, scanVars>>

=============================================================================
