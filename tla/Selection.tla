------------------------------ MODULE Selection ------------------------------
(***************************************************************************)
(* The loops that keep some elements of a list, in its order.              *)
(***************************************************************************)
EXTENDS Naturals, SequencesExt

\* The elements of s that are in S.
Selected(s, S) ==
    LET selected[n \in 0..Len(s)] ==
            IF n = 0 THEN <<>>
            ELSE IF s[n] \in S THEN Append(selected[n - 1], s[n]) ELSE selected[n - 1]
    IN  selected[Len(s)]

\* The elements of s that are in S, each where it first occurs.
Picked(s, S) ==
    LET picked[n \in 0..Len(s)] ==
            IF n = 0 THEN <<>>
            ELSE IF s[n] \in S /\ s[n] \notin Range(picked[n - 1])
                 THEN Append(picked[n - 1], s[n])
                 ELSE picked[n - 1]
    IN  picked[Len(s)]
=============================================================================
