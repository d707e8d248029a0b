------------------------------ MODULE PageOrder ------------------------------
(***************************************************************************)
(* The page table shown as a navigation: the children of every page as the *)
(* list that load makes of their positions.                                *)
(***************************************************************************)
EXTENDS PageTree, SequencesExt

Listed(table, p) ==
  LET kids == Children(table, p)
  IN [i \in 1 .. Cardinality(kids) |-> CHOOSE n \in kids : Index(table, kids, n) = i - 1]

Ordered == INSTANCE OrderedTree WITH kids <- [p \in Parents(page) |-> Listed(page, p)]

\* Every operation on the table is an operation on the lists it is shown as: a
\* create appends, a delete takes out one subtree and closes the gap, a move
\* takes one page out and puts it in once, and none of them changes the order
\* of the other children, which reindexPositions sorts again each time.
ImplementsOrder == Ordered!ListSpec

\* MoveNodeToPosition puts the page at the index that was asked for, whatever
\* positions its new siblings have when the stable sort runs: within one list
\* the pages behind the one that leaves still have the position it made one
\* too large, and two siblings may have the same.
MovesLand ==
  \A n \in Live, p \in Parents(page), at \in -1 .. Cardinality(Live) :
    p \notin {n} \cup Below(page, n) =>
      LET rest == Ordered!Without(Listed(page, p), n)
          spot == IF at \in 0 .. Len(rest) THEN at ELSE Len(rest)
      IN Listed(Relocated(n, p, at), p) = InsertAt(rest, spot + 1, n)
==============================================================================
