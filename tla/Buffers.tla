------------------------------- MODULE Buffers ------------------------------
(***************************************************************************)
(* string_buffer_t (src/src/memory.c), in which the reader collects a      *)
(* token and the printer, the shell and format their text.                 *)
(*                                                                         *)
(* buffer is the allocated memory.  A store beyond it spills, after which  *)
(* nothing is known.                                                       *)
(***************************************************************************)
EXTENDS Integers, Sequences

CONSTANTS Chars,            \* the characters of a text
          Junk,             \* what malloc leaves in a new block
          Nul,              \* the character that ends a string
          Texts,            \* the strings that are appended
          Numerals,         \* the numbers, as sprintf writes them
          InitialSpace,     \* STRING_BUFFER_INIT_SIZE, 256 in the code
          MaxLength         \* bound on the length of the text

ASSUME SpaceAssumption == InitialSpace \in Nat \ {0}
ASSUME MaxLengthAssumption == MaxLength \in Nat
ASSUME TextsAssumption == Texts \subseteq Seq(Chars) /\ Numerals \subseteq Seq(Chars)
ASSUME JunkAssumption == Junk \notin Chars /\ Nul \notin Chars

VARIABLES buffer, filled, space,
          spilled,  \* memory outside the buffer was written
          string    \* what string_buffer_to_string has answered

bufferVars == <<buffer, filled, space, spilled, string>>

NoString == <<>>

\* new_string_buffer
BufferInit ==
    /\ space = InitialSpace /\ filled = 0
    /\ buffer = [i \in 0..InitialSpace - 1 |-> Junk]
    /\ spilled = FALSE /\ string = NoString

\* memcpy: the text from place n on, if the memory is there.
Copied(list, n, text) ==
    [i \in DOMAIN list |-> IF i \in n..n + Len(text) - 1 THEN text[i - n + 1] ELSE list[i]]

Fits(room, n, text) == n + Len(text) <= room

\* Mutant: the old text is freed before it is copied.
LongerEmpty == [i \in 0..2 * space - 1 |-> Junk]

Longer == [i \in 0..2 * space - 1 |-> IF i < space THEN buffer[i] ELSE Junk]

\* The buffer doubles once if the text does not fit.
Place(list, text) ==
    LET room == IF Fits(space, filled, text) THEN space ELSE 2 * space
        old == IF Fits(space, filled, text) THEN list ELSE Longer
    IN  /\ space' = room
        /\ filled' = filled + Len(text)
        /\ buffer' = Copied(old, filled, text)
        /\ spilled' = ~Fits(room, filled, text)

Append_s(text) ==
    /\ filled + Len(text) <= MaxLength
    /\ Place(buffer, text)
    /\ string' = NoString

\* Mutant: the buffer grows one character too late.
NeedsRoomLate == filled > space

NeedsRoom == filled >= space

Append_c(c) ==
    /\ filled < MaxLength
    /\ space' = IF NeedsRoom THEN 2 * space ELSE space
    /\ LET list == IF NeedsRoom THEN Longer ELSE buffer
       IN  /\ buffer' = Copied(list, filled, <<c>>)
           /\ spilled' = ~Fits(space', filled, <<c>>)
    /\ filled' = filled + 1
    /\ string' = NoString

\* append_i and append_f: sprintf writes the number and a NUL behind the text,
\* before the room is looked at, and append_s then finds it in its place.
AppendNumber(text) ==
    /\ filled + Len(text) <= MaxLength
    /\ IF Fits(space, filled, Append(text, Nul))
       THEN Place(Copied(buffer, filled, Append(text, Nul)), text)
       ELSE spilled' = TRUE /\ UNCHANGED <<buffer, filled, space>>
    /\ string' = NoString

ToString ==
    /\ string' = <<[i \in 1..filled |-> buffer[i - 1]]>>
    /\ UNCHANGED <<buffer, filled, space, spilled>>

BufferNext ==
    /\ ~spilled
    /\ \/ \E text \in Texts : Append_s(text)
       \/ \E c \in Chars : Append_c(c)
       \/ \E text \in Numerals : AppendNumber(text)
       \/ ToString

BufferSpec == BufferInit /\ [][BufferNext]_bufferVars

-----------------------------------------------------------------------------
(* Properties.                                                             *)

\* The text is within the buffer, unless it has spilled.
BufferTypeOK ==
    /\ filled \in 0..MaxLength /\ space \in Nat \ {0}
    /\ buffer \in [0..space - 1 -> Chars \cup {Junk, Nul}]
    /\ spilled \in BOOLEAN
    /\ ~spilled => filled <= space /\ \A i \in 0..filled - 1 : buffer[i] \in Chars

\* Only a string longer than a new buffer can overrun it, as it doubles only
\* once (line 22), or a number that ends in the last place or beyond, as it is
\* written before the buffer grows.  Single characters never do.
OverrunsOnly ==
    [][spilled' =>
          \/ \E text \in Texts : Append_s(text) /\ Len(text) > InitialSpace
          \/ \E text \in Numerals : AppendNumber(text) /\ filled + Len(text) >= space]_bufferVars

appended == [i \in 1..filled |-> buffer[i - 1]]

BC == INSTANCE Contents WITH contents <- IF spilled THEN <<>> ELSE appended, intact <- ~spilled,
        answer <- string,
        fixed <- FALSE, Places <- {}, Pieces <- Texts \cup Numerals \cup {<<c>> : c \in Chars},
        MayBreak <- TRUE

\* Until it is overrun the buffer is the sequence of what was appended.
BufferIsSequence == BC!Spec

=============================================================================
