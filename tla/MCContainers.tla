---------------------------- MODULE MCContainers ----------------------------
(***************************************************************************)
(* Instances of the three memories that the interpreter manages by hand:   *)
(* an array, a string buffer and the value stack.  They do not meet, so a  *)
(* behaviour uses one of them.  Strings are shorter and longer than a new  *)
(* buffer.                                                                 *)
(***************************************************************************)
EXTENDS Arrays, Buffers, Stack

CONSTANTS Letter, Digit,
          MaxText       \* bound on the length of a string

TextsOf(c, lengths) == {[i \in 1..n |-> c] : n \in lengths}

MCTexts == TextsOf(Letter, 0..MaxText)
MCNumerals == TextsOf(Digit, 1..2)

VARIABLE used

Init == used \in {"array", "buffer", "stack"} /\ ArrayInit /\ BufferInit /\ StackInit

Next ==
    /\ UNCHANGED used
    /\ \/ used = "array" /\ ArrayNext /\ UNCHANGED <<bufferVars, stackVars>>
       \/ used = "buffer" /\ BufferNext /\ UNCHANGED <<arrayVars, stackVars>>
       \/ used = "stack" /\ StackNext /\ UNCHANGED <<arrayVars, bufferVars>>

Spec == Init /\ [][Next]_<<used, arrayVars, bufferVars, stackVars>>

=============================================================================
