----------------------------- MODULE MCPageTree ------------------------------
(* Four pages: enough for a cycle of three below a sibling, and for a move    *)
(* into the middle of a list from either side of it.                          *)
EXTENDS PageOrder

CONSTANTS root, n1, n2, n3, n4, lower, upper, other, third

Pages == {n1, n2, n3, n4}

\* Two slugs that differ in case only, and two more.
Folded == [s \in {lower, upper, other, third} |-> IF s = upper THEN lower ELSE s]

Interchangeable == Permutations(Pages) \cup Permutations({other, third})
==============================================================================
