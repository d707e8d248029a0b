----------------------------- MODULE OrderedTree -----------------------------
(***************************************************************************)
(* What the page tree promises to a reader of the navigation: every page   *)
(* hangs below the root, the children of a page are a list, a new page     *)
(* comes last, a moved page lands at the index that was asked for, and no  *)
(* operation but a sort changes the order of the others.                   *)
(***************************************************************************)
EXTENDS Integers, SequencesExt

CONSTANTS Id,    \* the identifiers of pages
          Root   \* the parent of the top-level pages

VARIABLE kids    \* the list of children of the root and of every page

ListInit == kids = [p \in {Root} |-> <<>>]

\* What holds the children of its members.
Hereditary(S) == \A q \in S : ToSet(kids[q]) \subseteq S

\* A page and all that hangs below it.
Family(p) ==
  {n \in DOMAIN kids : \A S \in SUBSET DOMAIN kids : p \in S /\ Hereditary(S) => n \in S}

Without(list, n) ==
  IF n \in ToSet(list) THEN RemoveAt(list, CHOOSE i \in DOMAIN list : list[i] = n) ELSE list

\* The lists once n, new and childless, is the last child of p.
WithLast(lists, p, n) ==
  [q \in DOMAIN lists \cup {n} |->
     IF q = n THEN <<>> ELSE IF q = p THEN Append(lists[q], n) ELSE lists[q]]

New(p, n) == n \notin DOMAIN kids /\ kids' = WithLast(kids, p, n)

\* A page and the section above it that was missing.
NewPath(p, a, b) ==
  /\ a # b /\ {a, b} \cap DOMAIN kids = {}
  /\ kids' = WithLast(WithLast(kids, p, a), a, b)

Drop(n) ==
  /\ n \notin DOMAIN kids'
  /\ kids' = [q \in DOMAIN kids \ Family(n) |-> Without(kids[q], n)]

Place(n, p, at) ==
  /\ LET rest == [q \in DOMAIN kids |-> Without(kids[q], n)]
         spot == IF at \in 0 .. Len(rest[p]) THEN at ELSE Len(rest[p])
     IN kids' = [rest EXCEPT ![p] = InsertAt(@, spot + 1, n)]
  /\ p \notin Family(n)

Reorder(p) ==
  \E list \in SetToSeqs(ToSet(kids[p])) : kids' = [kids EXCEPT ![p] = list]

ListNext ==
  \/ \E p \in DOMAIN kids, n \in Id : New(p, n)
  \/ \E p \in DOMAIN kids, a, b \in Id : NewPath(p, a, b)
  \/ \E n \in DOMAIN kids \ {Root} : Drop(n)
  \/ \E n \in DOMAIN kids \ {Root}, p \in DOMAIN kids,
        at \in -1 .. Cardinality(DOMAIN kids \ {Root}) : Place(n, p, at)
  \/ \E p \in DOMAIN kids : Reorder(p)

ListSpec == ListInit /\ [][ListNext]_kids
==============================================================================
