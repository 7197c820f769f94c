------------------------------- MODULE Shell --------------------------------
(***************************************************************************)
(* The shell (src/src/shell.c, lines 28 to 67 and 97 to 200): how the text *)
(* of a file, or of lines typed one by one, is cut into chunks, and how    *)
(* the forms of each chunk are executed.                                   *)
(*                                                                         *)
(* The shell cuts by counting parentheses; the tokenizer (Lexer) and the   *)
(* reader (Syntax) then look at strings and comments too.  Positions count *)
(* from 1, and the terminator is at Len + 1.  Whether a form fails is a    *)
(* choice; what its evaluation does is not part of this module.            *)
(***************************************************************************)
EXTENDS Syntax, Lexer, FiniteSets

CONSTANTS Texts,            \* what the sessions and the scripts may consist of
          MaxFailures       \* bound on the forms that fail in a session

VARIABLES
    using_readline,     \* lines are typed; else the text is a file
    text,               \* all that will be read, and what it means (ReadingOf)
    unread,             \* the part of it that has not been read
    pc,                 \* "read", "split", "parse" or "ended"
    tmpstr,             \* the line, with what was left over, or the file
    prev_point, next_point,
    leftover,           \* NoText or what the last line left over
    tokens,             \* the tokens of the chunk that are not yet parsed
    attempted,          \* the forms executed, and whether they failed
    outcome             \* how the shell ended

vars == <<using_readline, text, unread, pc, tmpstr, prev_point, next_point,
          leftover, tokens, attempted, outcome>>

NoText == <<"none">>

-----------------------------------------------------------------------------
(* get_split_point.                                                        *)

Depth(c) == CASE c = "(" -> 1 [] c = ")" -> -1 [] OTHER -> 0

\* The level behind each character.
Levels(src, start) ==
    LET level[p \in start - 1..Len(src)] ==
            IF p = start - 1 THEN 0 ELSE level[p - 1] + Depth(src[p])
    IN  level

NoPoint == -1

\* Mutant: a text that ends within a list is a chunk.
GetSplitPointAlways(src, start) ==
    LET level == Levels(src, start)
        closing == {p \in start..Len(src) : src[p] = ")" /\ level[p] = 0}
    IN  IF closing # {} THEN CHOOSE p \in closing : \A q \in closing : p <= q
        ELSE Len(src) + 1

GetSplitPoint(src, start) ==
    LET level == Levels(src, start)
        closing == {p \in start..Len(src) : src[p] = ")" /\ level[p] = 0}
    IN  IF closing # {} THEN CHOOSE p \in closing : \A q \in closing : p <= q
        ELSE IF level[Len(src)] > 0 THEN NoPoint
        ELSE Len(src) + 1

-----------------------------------------------------------------------------
(* The text as the reader sees it, without chunks.                         *)

\* Every parenthesis is a token: none is in a string, a comment or a word.
IsPlain(src, all) ==
    \A p \in DOMAIN src : src[p] \in {"(", ")"} =>
        \E k \in DOMAIN all : all[k].type \in {"open", "close"} /\ all[k].from = p

\* No token has the character at p.
IsBetween(all, p) == \A k \in DOMAIN all : p < all[k].from \/ all[k].to <= p

\* No string goes on in the next line, and no line ends with a comment while
\* a list is unfinished.
IsPlainInLines(src, all, level) ==
    \A p \in DOMAIN src : src[p] = "\n" =>
        /\ IsBetween(all, p)
        /\ level[p] > 0 => \A q \in 1..p - 1 : src[q] = ";" /\ IsBetween(all, q) =>
               \E r \in q..p - 1 : src[r] = "\n"

\* The forms that tokens make, and whether there is nothing else.
FormsIn(all) ==
    LET from[k \in 1..Len(all)] ==
            LET parsed == Parse(SubSeq(all, k, Len(all)))
            IN  IF all[k].type = "eof" \/ ~parsed.ok
                THEN [forms |-> <<>>, whole |-> all[k].type = "eof"]
                ELSE LET more == from[k + parsed.next - 1]
                     IN  [forms |-> <<parsed.val>> \o more.forms, whole |-> more.whole]
    IN  from[1]

\* A text, and what the properties need to know of it; all are its tokens.
ReadingOf(src, all) ==
    [chars |-> src, plain |-> IsPlain(src, all), inLines |-> IsPlainInLines(src, all, Levels(src, 1)),
     read |-> FormsIn(all)]
Readings == {ReadingOf(t, Tokens(t)) : t \in Texts}

-----------------------------------------------------------------------------

Init ==
    /\ using_readline \in BOOLEAN
    /\ text \in Readings /\ unread = text.chars
    /\ pc = "read"
    /\ tmpstr = <<>> /\ prev_point = 1 /\ next_point = 0
    /\ leftover = NoText /\ tokens = <<>> /\ attempted = <<>> /\ outcome = "none"

Ended(how) == pc' = "ended" /\ outcome' = how

\* split_and_exec is called.
StartSplit(str) ==
    /\ tmpstr' = str /\ prev_point' = 1 /\ next_point' = 0
    /\ pc' = "split"

\* shell_file.
ReadFile ==
    /\ pc = "read" /\ ~using_readline
    /\ StartSplit(text.chars)
    /\ unread' = <<>>
    /\ UNCHANGED <<using_readline, text, leftover, tokens, attempted, outcome>>

\* Mutant: the line is joined without a blank.
JoinedTight(line) ==
    IF leftover = NoText THEN line
    ELSE SubSeq(leftover, 1, Len(leftover) - 1) \o line

\* str_join: what was left over ends in a blank.
Joined(line) == IF leftover = NoText THEN line ELSE leftover \o line

\* shell_readline.  At the end of the input the line is NULL, which str_join
\* does not expect.
ReadLine ==
    /\ pc = "read" /\ using_readline
    /\ LET ends == {p \in DOMAIN unread : unread[p] = "\n"}
           end == IF ends = {} THEN Len(unread) + 1
                  ELSE CHOOSE p \in ends : \A q \in ends : p <= q
           str == Joined(SubSeq(unread, 1, end - 1))
       IN  IF unread = <<>>
           THEN /\ Ended(IF leftover = NoText THEN "done" ELSE "crash")
                /\ UNCHANGED <<unread, tmpstr, prev_point, next_point, leftover>>
           ELSE /\ unread' = SubSeq(unread, end + 1, Len(unread))
                /\ leftover' = NoText
                /\ IF str = <<"e", "x", "i", "t">>
                   THEN Ended("bye") /\ UNCHANGED <<tmpstr, prev_point, next_point>>
                   ELSE StartSplit(str) /\ UNCHANGED outcome
    /\ UNCHANGED <<using_readline, text, tokens, attempted>>

\* The chunk up to next_point; its last character may be the terminator.
Chunk(next) == SubSeq(tmpstr, prev_point, IF next > Len(tmpstr) THEN Len(tmpstr) ELSE next)
SaysExit(str) == Len(str) >= 3 /\ SubSeq(str, 1, 3) = <<"e", "x", "i">>
IsUnexpectedInput(str) == str \notin {<<" ">>, <<"\n">>, <<>>}

\* Mutant: the start stays.
NextStartStays(next) == prev_point

NextStart(next) == next + 1

\* The loop of split_and_exec, up to the parsing of a chunk.
Split ==
    /\ pc = "split" /\ next_point # Len(tmpstr) + 1
    /\ LET next == GetSplitPoint(tmpstr, prev_point)
       IN  /\ next # NoPoint
           /\ next_point' = next
           /\ prev_point' = NextStart(next)
           /\ IF SaysExit(Chunk(next)) THEN Ended("bye") /\ UNCHANGED tokens
              ELSE /\ IF IsUnexpectedInput(Chunk(next))
                      THEN pc' = "parse" /\ tokens' = Tokens(Chunk(next))
                      ELSE UNCHANGED <<pc, tokens>>
                   /\ UNCHANGED outcome
    /\ UNCHANGED <<using_readline, text, unread, tmpstr, leftover, attempted>>

\* The end of split_and_exec: nothing is left, or an unfinished form.
SplitEnds ==
    /\ pc = "split"
    /\ \/ /\ next_point = Len(tmpstr) + 1
          /\ IF using_readline THEN pc' = "read" /\ UNCHANGED outcome ELSE Ended("done")
          /\ UNCHANGED leftover
       \/ /\ next_point # Len(tmpstr) + 1 /\ GetSplitPoint(tmpstr, prev_point) = NoPoint
          /\ leftover' = Append(SubSeq(tmpstr, prev_point, Len(tmpstr)), " ")
          /\ IF using_readline THEN pc' = "read" /\ UNCHANGED outcome
             ELSE Ended("within an object")
    /\ UNCHANGED <<using_readline, text, unread, tmpstr, prev_point, next_point, tokens, attempted>>

\* An exception: a script stops, a session drops the rest of the chunk.
Fails == IF using_readline THEN pc' = "split" /\ UNCHANGED outcome ELSE Ended("stopped")

Failures == Cardinality({k \in DOMAIN attempted : ~attempted[k].ok})

\* parse_program, and exec if there is a form.
ParseProgram ==
    /\ pc = "parse"
    /\ LET parsed == Parse(tokens)
       IN  \/ /\ tokens[1].type = "eof"
              /\ pc' = "split" /\ UNCHANGED <<tokens, attempted, outcome>>
           \/ /\ tokens[1].type # "eof" /\ ~parsed.ok
              /\ Fails /\ UNCHANGED <<tokens, attempted>>
           \/ /\ parsed.ok
              /\ attempted' = Append(attempted, [form |-> parsed.val, ok |-> TRUE])
              /\ tokens' = SubSeq(tokens, parsed.next, Len(tokens))
              /\ UNCHANGED <<pc, outcome>>
           \/ /\ parsed.ok /\ Failures < MaxFailures
              /\ attempted' = Append(attempted, [form |-> parsed.val, ok |-> FALSE])
              /\ Fails /\ UNCHANGED tokens
    /\ UNCHANGED <<using_readline, text, unread, tmpstr, prev_point, next_point, leftover>>

Next == ReadFile \/ ReadLine \/ Split \/ SplitEnds \/ ParseProgram

Spec == Init /\ [][Next]_vars
FairSpec == Spec /\ WF_vars(Next)

-----------------------------------------------------------------------------
(* Properties.                                                             *)

(* The split point is never sought behind the terminator, and no chunk     *)
(* begins there: the loop ends with the chunk that takes it in.            *)
TypeOK ==
    /\ pc \in {"read", "split", "parse", "ended"}
    /\ prev_point \in 1..Len(tmpstr) + 2
    /\ next_point \in 0..Len(tmpstr) + 1
    /\ (pc = "split" /\ next_point # Len(tmpstr) + 1) => prev_point <= Len(tmpstr) + 1
    /\ pc = "parse" => tokens # <<>>
    /\ leftover # NoText => leftover # <<>> /\ leftover[Len(leftover)] = " "

\* What follows is said of texts that give the count of parentheses no reason
\* to err, and of sessions in which, moreover, every line is read as it would
\* be in a file, and no atom fails.
Comparable ==
    /\ text.plain
    /\ using_readline =>
           /\ text.inLines /\ text.read.whole
           /\ \A k \in DOMAIN attempted :
                 attempted[k].ok \/ attempted[k].form[1] = "list"

AttemptedForms == [k \in DOMAIN attempted |-> attempted[k].form]

(* Chunk by chunk and line by line, the shell executes the forms of the    *)
(* text in their order, none twice and none but those; that a list failed  *)
(* loses no other form of a session, and nothing follows a failure in a    *)
(* script.                                                                 *)
FormsInOrder ==
    Comparable =>
        LET forms == text.read.forms
        IN  /\ Len(attempted) <= Len(forms)
            /\ AttemptedForms = SubSeq(forms, 1, Len(attempted))
            /\ ~using_readline =>
                   \A k \in DOMAIN attempted : attempted[k].ok \/ k = Len(attempted)

(* When the shell ends in the ordinary way, it has executed all forms; and *)
(* when it says bye before, the next form is a symbol that begins like     *)
(* "exit" - three letters are compared (line 108).                         *)
NoneForgotten ==
    Comparable =>
        /\ outcome = "done" => AttemptedForms = text.read.forms
        /\ outcome = "bye" /\ text.read.whole =>
               LET next == text.read.forms[Len(attempted) + 1]
               IN  next[1] = "symbol" /\ SubSeq(next[2], 1, 3) = <<"E", "X", "I">>

(* A plain text that is complete is not refused as one that ends within an *)
(* object (line 172), and does not crash the session.  (For other texts    *)
(* the message may be wrong: parentheses of strings and comments count.)   *)
CompleteTextAccepted ==
    Comparable /\ text.read.whole =>
        outcome \notin {"within an object", "crash"}

(* Every session ends: each turn of the loops takes text or tokens.        *)
SessionEnds == <>(pc = "ended")

\* The session is well-formed, forgets no input and refuses no complete text.
SessionSound == TypeOK /\ NoneForgotten /\ CompleteTextAccepted

=============================================================================
