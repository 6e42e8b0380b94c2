-------------------------------- MODULE Lists --------------------------------
(***************************************************************************)
(* SelectSeq with a set instead of a test, so that the elements of what it *)
(* selects can be reasoned about.                                          *)
(***************************************************************************)
EXTENDS Integers, Sequences

\* The elements of s that are in T, in their order.
Filter(s, T) ==
    LET kept[i \in 0..Len(s)] ==
            IF i = 0 THEN <<>>
            ELSE IF s[i] \in T THEN Append(kept[i - 1], s[i]) ELSE kept[i - 1]
    IN  kept[Len(s)]

=============================================================================
