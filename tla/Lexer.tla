------------------------------- MODULE Lexer --------------------------------
(***************************************************************************)
(* The tokenizer of the reader (src/src/parser.c, lines 8 to 219).         *)
(*                                                                         *)
(* A text is a sequence of characters, one-letter strings; behind its last *)
(* character lies the terminator NUL, and behind that nothing the code may *)
(* look at: At is not defined there, and TLC would say so.  Integers have  *)
(* IntBits bits; a float is kept as the sign, the integer before the point *)
(* and the digits after it, that is, without the rounding of               *)
(* tokenize_float.                                                         *)
(***************************************************************************)
EXTENDS Integers, Sequences

CONSTANT IntBits        \* width of int

ASSUME IntBitsAssumption == IntBits \in Nat /\ IntBits >= 2

NUL == "NUL"
Spaces == {" ", "\n", "\t", "\r"}                       \* isspace
Delimiters == {"(", " ", ")", "\n", "\t", NUL}          \* is_open_space_close
Digits == {"0", "1", "2", "3", "4", "5", "6", "7", "8", "9"}
\* The letters that the texts use.
Lower == {"a", "b", "e", "i", "l", "n", "t", "x"}
Upper == {"A", "B", "E", "I", "L", "N", "T", "X"}
Alpha == Lower \cup Upper

DigitValue ==
    [c \in Digits |->
        CASE c = "0" -> 0 [] c = "1" -> 1 [] c = "2" -> 2 [] c = "3" -> 3 [] c = "4" -> 4
          [] c = "5" -> 5 [] c = "6" -> 6 [] c = "7" -> 7 [] c = "8" -> 8 [] c = "9" -> 9]

ToUpper(c) ==
    CASE c = "a" -> "A" [] c = "b" -> "B" [] c = "e" -> "E" [] c = "i" -> "I"
      [] c = "l" -> "L" [] c = "n" -> "N" [] c = "t" -> "T" [] c = "x" -> "X"
      [] OTHER -> c

StringToUpper(s) == [k \in DOMAIN s |-> ToUpper(s[k])]

At(text, p) == IF p = Len(text) + 1 THEN NUL ELSE text[p]

\* The first position from p on whose character is in chars, or is not.
Find(text, p, chars) ==
    CHOOSE q \in p..Len(text) + 1 :
        At(text, q) \in chars /\ \A r \in p..q - 1 : At(text, r) \notin chars
SkipAll(text, p, chars) ==
    CHOOSE q \in p..Len(text) + 1 :
        At(text, q) \notin chars /\ \A r \in p..q - 1 : At(text, r) \in chars

\* A token, and the positions where it starts and where scanning goes on.
Token(type, val, from, to) == [type |-> type, val |-> val, from |-> from, to |-> to]
Simple(type, from, to) == Token(type, <<>>, from, to)

-----------------------------------------------------------------------------

PowerOf2[n \in 0..IntBits] == IF n = 0 THEN 1 ELSE 2 * PowerOf2[n - 1]
IntMin == -PowerOf2[IntBits - 1]
Wrap(n) == ((n - IntMin) % PowerOf2[IntBits]) + IntMin

\* skip_line, and the step over the newline: at the end of the text, stay.
SkipLine(text, p) ==
    LET e == Find(text, p, {"\n", NUL}) IN IF At(text, e) = NUL THEN e ELSE e + 1

\* L_start: blanks and comments.
TokenStart(text, p) ==
    LET start[q \in 1..Len(text) + 1] ==
            LET s == SkipAll(text, q, Spaces)
            IN  IF At(text, s) = ";" THEN start[SkipLine(text, s)] ELSE s
    IN  start[p]

StringToken(text, b) ==
    LET e == Find(text, b + 1, {"\"", NUL})
    IN  IF At(text, e) = NUL THEN Simple("error", b, e)
        ELSE Token("string", SubSeq(text, b + 1, e - 1), b, e + 1)

\* Mutant: the value saturates instead of wrapping.
IntValueSaturating(text, first, end) ==
    LET value[k \in first..end] ==
            IF k = first THEN 0
            ELSE LET n == 10 * value[k - 1] + DigitValue[text[k - 1]]
                 IN  IF n > -IntMin - 1 THEN -IntMin - 1 ELSE n
    IN  value[end]

\* token_int after the digits from first up to end: int overflows.
IntValue(text, first, end) ==
    LET value[k \in first..end] ==
            IF k = first THEN 0
            ELSE Wrap(10 * value[k - 1] + DigitValue[text[k - 1]])
    IN  value[end]

Float(negative, n, text, b, point) ==
    LET e == SkipAll(text, point + 1, Digits)
    IN  Token("float", <<negative, n, SubSeq(text, point + 1, e - 1)>>, b, e)

\* The characters that may follow an integer.
NumberEnds == {"(", ")", " ", "\n", ",", NUL}

\* A number.  The int that a point without digits follows has lost its sign.
NumberToken(text, b) ==
    LET negative == At(text, b) = "-"
        first == IF negative THEN b + 1 ELSE b
        e == SkipAll(text, first, Digits)
        n == IntValue(text, first, e)
    IN  IF At(text, e) = "."
        THEN IF At(text, e + 1) \in Digits THEN Float(negative, n, text, b, e)
             ELSE Token("int", n, b, e + 1)
        ELSE IF At(text, e) \in NumberEnds
        THEN Token("int", IF negative THEN Wrap(-n) ELSE n, b, e)
        ELSE Simple("error", b, e)

\* Mutant: nil and t are recognised before the letters are made capitals.
WordTokenAsWritten(text, b) ==
    LET e == Find(text, b, Delimiters)
        word == SubSeq(text, b, e - 1)
    IN  CASE word = <<"N", "I", "L">> -> Simple("nil", b, e)
          [] word = <<"T">> -> Simple("T", b, e)
          [] OTHER -> Token("symbol", StringToUpper(word), b, e)

WordToken(text, b) ==
    LET e == Find(text, b, Delimiters)
        word == StringToUpper(SubSeq(text, b, e - 1))
    IN  CASE word = <<"N", "I", "L">> -> Simple("nil", b, e)
          [] word = <<"T">> -> Simple("T", b, e)
          [] OTHER -> Token("symbol", word, b, e)

PointToken(text, b) ==
    LET c == At(text, b + 1)
    IN  CASE c \in {" ", "\n", "\t"} -> Simple("dot", b, b + 1)
          [] c \in Digits -> Float(FALSE, 0, text, b, b)
          [] c = NUL -> Simple("eof", b, b + 1)
          [] OTHER -> Simple("error", b, b + 1)

\* <, <=, >, >=, =, ==, +, -, *, / and /= are symbols where a delimiter follows.
OperatorToken(text, b) ==
    CASE /\ <<At(text, b), At(text, b + 1)>>
                \in {<<"<", "=">>, <<">", "=">>, <<"=", "=">>, <<"/", "=">>}
         /\ At(text, b + 2) \in Delimiters -> Token("symbol", SubSeq(text, b, b + 1), b, b + 2)
      [] /\ At(text, b) \in {"<", ">", "=", "+", "-", "*", "/"}
         /\ At(text, b + 1) \in Delimiters -> Token("symbol", SubSeq(text, b, b), b, b + 1)
      [] OTHER -> Simple("error", b, b)

\* get_next_token from position p.
NextToken(text, p) ==
    LET b == TokenStart(text, p)
        c == At(text, b)
    IN  CASE c = NUL -> Simple("eof", b, b)
          [] c = "\"" -> StringToken(text, b)
          [] c \in Digits \/ (c = "-" /\ At(text, b + 1) \in Digits) ->
                 NumberToken(text, b)
          [] c \in Alpha -> WordToken(text, b)
          [] c = "(" -> Simple("open", b, b + 1)
          [] c = ")" -> Simple("close", b, b + 1)
          [] c = "#" -> Simple("array", b, b + 1)
          [] c = "'" -> Simple("quote", b, b + 1)
          [] c = "." -> PointToken(text, b)
          [] OTHER -> OperatorToken(text, b)

Last(s) == s[Len(s)]
IsEnd(token) == token.type \in {"eof", "error"}

\* All tokens of a text, up to the end or the first error.
Tokens(text) ==
    LET from[p \in 1..Len(text) + 1] ==
            LET token == NextToken(text, p)
            IN  IF IsEnd(token) THEN <<token>> ELSE <<token>> \o from[token.to]
    IN  from[1]

=============================================================================
