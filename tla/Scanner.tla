------------------------------ MODULE Scanner ------------------------------
(***************************************************************************)
(* The scan of one text, a token at a step, as get_next_token is called by *)
(* the reader (src/src/parser.c, lines 8 to 219).                          *)
(***************************************************************************)
EXTENDS Lexer

CONSTANT Texts          \* the texts to scan

\* A text ends before its first NUL.
TextsAssumption == Texts \subseteq Seq(STRING \ {NUL})

VARIABLES text,           \* the text
          current_char,   \* where the next token is looked for
          read            \* the tokens so far

scanVars == <<text, current_char, read>>

ScanInit == text \in Texts /\ current_char = 1 /\ read = <<>>

Ended == read # <<>> /\ IsEnd(Last(read))

GetNextToken ==
    /\ ~Ended
    /\ LET token == NextToken(text, current_char)
       IN  current_char' = token.to /\ read' = Append(read, token)
    /\ UNCHANGED text

ScanSpec == ScanInit /\ [][GetNextToken]_scanVars

-----------------------------------------------------------------------------
(* Properties.                                                             *)

(* The position stays within the text and its terminator, the tokens       *)
(* follow one another in the text, and each but the last takes a character *)
(* of it, so that every scan ends.                                         *)
ScanTypeOK ==
    /\ current_char \in 1..Len(text) + 1
    /\ \A k \in DOMAIN read :
          /\ 1 <= read[k].from /\ read[k].from <= read[k].to
          /\ read[k].to <= current_char
          /\ ~IsEnd(read[k]) => read[k].from < read[k].to
          /\ k > 1 => read[k - 1].to <= read[k].from

(* An integer token has the value of its digits modulo 2^IntBits, with its *)
(* sign, however many digits there are and wherever they overflow - but    *)
(* a point behind it takes the sign away (line 88 comes before line 91).   *)
IntegerValue ==
    \A k \in DOMAIN read : read[k].type = "int" =>
        LET source == SubSeq(text, read[k].from, read[k].to - 1)
            decimal[n \in 0..Len(source)] ==
                IF n = 0 THEN 0
                ELSE IF source[n] \in Digits THEN 10 * decimal[n - 1] + DigitValue[source[n]]
                ELSE decimal[n - 1]
            sign == IF source[1] = "-" /\ Last(source) # "." THEN -1 ELSE 1
        IN  /\ (read[k].val - sign * decimal[Len(source)]) % PowerOf2[IntBits] = 0
            /\ read[k].val \in IntMin..-IntMin - 1

\* What a program sees of tokens: not where they are.
Seen(tokens) == [k \in DOMAIN tokens |-> <<tokens[k].type, tokens[k].val>>]

(* Capitals make no difference, but within strings: a text without them    *)
(* has the same tokens as its upper-case copy, T and NIL included.         *)
CaseInsensitive ==
    Ended /\ (\A k \in DOMAIN text : text[k] # "\"") =>
        Seen(read) = Seen(Tokens(StringToUpper(text)))

(* The blanks are interchangeable where no string or comment is open: the  *)
(* shell puts a blank where a line ended (str_join).  Exceptions: a tab    *)
(* does not end an integer (line 92), and a return ends neither an integer *)
(* nor a word nor an operator, since is_open_space_close lacks it.         *)
BlanksInterchangeable ==
    Ended /\ (\A k \in DOMAIN text : text[k] \notin {"\"", ";", "\r"}) =>
        \A k \in DOMAIN text : text[k] \in {" ", "\n"} =>
            /\ Seen(Tokens([text EXCEPT ![k] = " "])) = Seen(read)
            /\ Seen(Tokens([text EXCEPT ![k] = "\n"])) = Seen(read)
            /\ (k > 1 => text[k - 1] \notin Digits) =>
                   Seen(Tokens([text EXCEPT ![k] = "\t"])) = Seen(read)

(* A blank behind the text - the shell adds one to what it keeps for the   *)
(* next line - changes its tokens only where it ends in a point: a point   *)
(* at the end of a text reads as the end of the file.                      *)
TrailingBlank ==
    Ended => \/ Seen(Tokens(Append(text, " "))) = Seen(read)
             \/ text # <<>> /\ Last(text) = "."

\* The scan goes forward, and what it finds does not depend on capitals, on
\* which blank stands between two tokens, or on one at the end.
TokensStable == ScanTypeOK /\ CaseInsensitive /\ BlanksInterchangeable /\ TrailingBlank

=============================================================================
