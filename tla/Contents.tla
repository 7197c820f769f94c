------------------------------ MODULE Contents ------------------------------
(***************************************************************************)
(* What the growing containers of src/src/memory.c promise: they hold a    *)
(* sequence, whatever memory is behind it.  Arrays and Buffers implement   *)
(* this.                                                                   *)
(***************************************************************************)
EXTENDS Integers, Sequences

CONSTANTS Places,   \* the indices that are read and written
          Pieces,   \* the sequences that may be added at the end
          MayBreak  \* whether the memory may be overrun

VARIABLES contents, \* the elements
          intact,   \* FALSE as soon as memory was overrun
          fixed,    \* TRUE when the container has its last size
          answer    \* what the last operation answered

cvars == <<contents, intact, fixed, answer>>

None == <<>>
Error == <<"out", "of bounds">>

Init == contents = <<>> /\ intact = TRUE /\ fixed = FALSE /\ answer = None

Extend(piece) ==
    /\ ~fixed
    /\ contents' = contents \o piece
    /\ answer' = None
    /\ UNCHANGED <<intact, fixed>>

TakeLast ==
    /\ ~fixed
    /\ IF contents = <<>> THEN answer' = None /\ UNCHANGED contents
       ELSE /\ answer' = <<contents[Len(contents)]>>
            /\ contents' = SubSeq(contents, 1, Len(contents) - 1)
    /\ UNCHANGED <<intact, fixed>>

\* Elements are counted from 0.
Read(n) ==
    /\ answer' = IF n + 1 \in DOMAIN contents THEN <<contents[n + 1]>> ELSE Error
    /\ UNCHANGED <<contents, intact, fixed>>

Write(n, v) ==
    /\ IF n + 1 \in DOMAIN contents
       THEN contents' = [contents EXCEPT ![n + 1] = v] /\ answer' = <<v>>
       ELSE answer' = Error /\ UNCHANGED contents
    /\ UNCHANGED <<intact, fixed>>

ReadAll == answer' = <<contents>> /\ UNCHANGED <<contents, intact, fixed>>

Fix == ~fixed /\ fixed' = TRUE /\ answer' = None /\ UNCHANGED <<contents, intact>>

\* What was in it is lost.
Break == MayBreak /\ intact' = FALSE /\ contents' = <<>> /\ answer' = None /\ UNCHANGED fixed

Next ==
    /\ intact
    /\ \/ \E piece \in Pieces : Extend(piece) \/ (\E n \in Places : Write(n, piece[1]))
       \/ TakeLast
       \/ \E n \in Places : Read(n)
       \/ ReadAll
       \/ Fix
       \/ Break

Spec == Init /\ [][Next]_cvars

=============================================================================
