------------------------------ MODULE MCLoader ------------------------------
(***************************************************************************)
(* Instances of Loader for TLC.                                            *)
(***************************************************************************)
EXTENDS Loader

CONSTANTS c1, c2, c3, c4, l1, l2

\* Three goroutines of one request, no fetch calls a loader.
NoNesting == [c \in Calls |-> None]

\* c3 is made by the fetch of c1, c4 by the fetch of c2.
TwoNested == [c \in Calls |-> CASE c = c3 -> c1 [] c = c4 -> c2 [] OTHER -> None]

\* No fetch calls a loader; or the fetch of l1 warms and reads l2, never the
\* other way round.
NoCalls == {}
Ordered == {<<l1, l2>>}
=============================================================================
