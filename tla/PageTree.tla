------------------------------ MODULE PageTree -------------------------------
(***************************************************************************)
(* The structural operations of the page tree on the pages table of an     *)
(* instance that runs on PostgreSQL.                                       *)
(*                                                                         *)
(* Every mutation is one transaction that locks the row of the root and    *)
(* then reads the whole table, so mutations are serial, and an error rolls *)
(* all of a mutation back.  An action is therefore a whole transaction,    *)
(* and a refusal is no step.  The optimistic version check refuses some of *)
(* these steps and changes none; it is left to the module about edits.     *)
(* Titles, contents, pins and authors are left out.                        *)
(***************************************************************************)
EXTENDS Integers, FiniteSets

CONSTANTS Id,    \* the identifiers GenerateUniqueID may return
          Root,  \* the row 'root', which no operation creates, moves or deletes
          Slug,  \* the valid slugs
          Fold   \* Fold[s] is lower(s); siblings are told apart by it

ASSUME PageTreeAssumption == Root \notin Id /\ Slug \subseteq DOMAIN Fold

VARIABLE page    \* the rows of the table but the root's, by their id

Kind == {"page", "section"}
Row == [parent : Id \cup {Root}, slug : Slug, kind : Kind, pos : Nat]

Live == DOMAIN page
Parents(table) == DOMAIN table \cup {Root}

TreeInit == page = [n \in {} |-> {}]

-----------------------------------------------------------------------------
(* Reading the table *)

Children(table, p) == {n \in DOMAIN table : table[n].parent = p}

ClosedIn(table, S) == \A p \in S : Children(table, p) \subseteq S

\* The least set that has the children of p and the children of its members:
\* what the recursion of IsChildOf visits, and what ON DELETE CASCADE reaches.
Below(table, p) ==
  {n \in DOMAIN table :
     \A S \in SUBSET DOMAIN table :
       Children(table, p) \subseteq S /\ ClosedIn(table, S) => n \in S}

\* findChildBySlugInParentLocked
Named(table, p, s) == {n \in Children(table, p) : Fold[table[n].slug] = Fold[s]}

\* The index of a page in its parent's slice, which load sorts by position.
Index(table, S, n) == Cardinality({m \in S : table[m].pos < table[n].pos})

-----------------------------------------------------------------------------
(* Writing the table *)

\* A page that gets a child becomes a section.
AsSection(table, p) ==
  [n \in DOMAIN table |->
     IF n = p THEN [table[n] EXCEPT !.kind = "section"] ELSE table[n]]

\* The tail of createNodeLocked: the new row, last among its siblings.
Added(table, n, p, s, k) ==
  [m \in DOMAIN table \cup {n} |->
     IF m = n
       THEN [parent |-> p, slug |-> s, kind |-> k, pos |-> Cardinality(Children(table, p))]
       ELSE AsSection(table, p)[m]]

Removed(table, S) == [n \in DOMAIN table \ S |-> table[n]]

\* Mutant: the comparison of the sort is the wrong way round.
Follows(a, b) == a[1] > b[1] \/ (a[1] = b[1] /\ a[2] < b[2])

\* sort.SliceStable by position: the slice decides between equal positions.
Precedes(a, b) == a[1] < b[1] \/ (a[1] = b[1] /\ a[2] < b[2])

\* reindexPositions and SaveChildOrder, for children whose position and index
\* in the slice are given by key.
Reindexed(table, key) ==
  [n \in DOMAIN table |->
     IF n \in DOMAIN key
       THEN [table[n] EXCEPT
              !.pos = Cardinality({m \in DOMAIN key : Precedes(key[m], key[n])})]
       ELSE table[n]]

ByPosition(table, p) == [n \in Children(table, p) |-> <<table[n].pos, 0>>]

Renumbered(table, p) == Reindexed(table, ByPosition(table, p))

\* Mutant: n is appended to the slice and left to the sort by position.
AppendedKey(table, p, n, spot) ==
  LET kids == Children(table, p) \ {n}
  IN [m \in kids \cup {n} |->
        IF m = n THEN <<spot, Cardinality(kids)>>
        ELSE <<table[m].pos, Index(table, kids, m)>>]

\* The slice of p with n inserted at a spot: n takes the spot as its position,
\* those after it move up in the slice and keep the position they had.
InsertionKey(table, p, n, spot) ==
  LET kids == Children(table, p) \ {n}
      at(m) == Index(table, kids, m)
  IN [m \in kids \cup {n} |->
        IF m = n THEN <<spot, spot>>
        ELSE <<table[m].pos, IF at(m) < spot THEN at(m) ELSE at(m) + 1>>]

Relinked(table, n, p) == [AsSection(table, p) EXCEPT ![n].parent = p]

-----------------------------------------------------------------------------
(* The operations *)

\* CreateNode, the create of a copy, and RestoreNode, which brings its own id.
Create(n, p, s, k) ==
  /\ n \in Id \ Live /\ p \in Parents(page)
  /\ Named(page, p, s) = {}
  /\ page' = Added(page, n, p, s, k)

\* EnsurePagePath, from the last page of the path that exists: one missing
\* segment is a Create, the segment before it becomes a section.
EnsurePath(a, b, p, s, t, k) ==
  /\ a \in Id \ Live /\ b \in Id \ (Live \cup {a}) /\ p \in Parents(page)
  /\ Named(page, p, s) = {}
  /\ page' = Added(Added(page, a, p, s, "section"), b, a, t, k)

\* DeleteNode, with the cascade of the foreign key.
Delete(n, recursive) ==
  /\ n \in Live
  /\ Children(page, n) # {} => recursive
  /\ page' = Renumbered(Removed(page, {n} \cup Below(page, n)), page[n].parent)

\* UpdateNode, as far as it renames.
Rename(n, s) ==
  /\ n \in Live
  /\ Named(page, page[n].parent, s) \subseteq {n}
  /\ page' = [page EXCEPT ![n].slug = s]

ConvertNode(n, k) ==
  /\ n \in Live /\ page[n].kind # k
  /\ k = "page" => Children(page, n) = {}
  /\ page' = [page EXCEPT ![n].kind = k]

\* The new row, the new siblings' positions, then those of the old siblings.
\* at is the client's, -1 when it names none.
Relocated(n, p, at) ==
  LET size == Cardinality(Children(page, p) \ {n})
      spot == IF at \in 0 .. size - 1 THEN at ELSE size
  IN Renumbered(Reindexed(Relinked(page, n, p), InsertionKey(page, p, n, spot)),
                page[n].parent)

\* Mutant: no guard against the moved page's own subtree.
MoveUnguarded(n, p, at) ==
  /\ n \in Live /\ p \in Parents(page) \ {n}
  /\ Named(page, p, page[n].slug) \subseteq {n}
  /\ page' = Relocated(n, p, at)

\* MoveNodeToPosition
MoveNode(n, p, at) ==
  /\ n \in Live /\ p \in Parents(page)
  /\ Named(page, p, page[n].slug) \subseteq {n}
  /\ p # n
  /\ p \notin Below(page, n)
  /\ page' = Relocated(n, p, at)

\* SortPages: the client lists every child of p once.
SortPages(p, order) ==
  /\ p \in Parents(page)
  /\ order \in [Children(page, p) -> 0 .. Cardinality(Children(page, p)) - 1]
  /\ \A m, n \in Children(page, p) : order[m] = order[n] => m = n
  /\ page' = [n \in Live |->
                IF n \in Children(page, p) THEN [page[n] EXCEPT !.pos = order[n]]
                ELSE page[n]]

Creates == \E n \in Id, p \in Parents(page), s \in Slug, k \in Kind : Create(n, p, s, k)
EnsuresPath == \E a, b \in Id, p \in Parents(page), s, t \in Slug, k \in Kind :
                 EnsurePath(a, b, p, s, t, k)
Moves == \E n \in Live, p \in Parents(page), at \in -1 .. Cardinality(Live) : MoveNode(n, p, at)
Sorts == \E p \in Parents(page) :
           \E order \in [Children(page, p) -> 0 .. Cardinality(Children(page, p)) - 1] :
             SortPages(p, order)

TreeNext ==
  \/ Creates
  \/ EnsuresPath
  \/ \E n \in Live, recursive \in BOOLEAN : Delete(n, recursive)
  \/ \E n \in Live, s \in Slug : Rename(n, s)
  \/ \E n \in Live, k \in Kind : ConvertNode(n, k)
  \/ Moves
  \/ Sorts

TreeSpec == TreeInit /\ [][TreeNext]_page

-----------------------------------------------------------------------------
(* Properties *)

\* Every row has a parent row, a valid slug, a kind and a position: a delete
\* leaves no row behind whose parent is gone (load would refuse the table).
TreeTypeOK ==
  /\ Live \subseteq Id /\ IsFiniteSet(Live)
  /\ page \in [Live -> Row]
  /\ \A n \in Live : page[n].parent \in Parents(page)

\* Every page is reached from the root: no sequence of moves closes a cycle,
\* which would hide the pages on it from every walk of the tree.
Rooted == Live \subseteq Below(page, Root)

\* No two children of a page have the same slug up to case, so a path leads to
\* one page (findChildBySlugInParentLocked and the index pages_sibling_slug).
SiblingsDistinct ==
  \A m, n \in Live :
    page[m].parent = page[n].parent /\ Fold[page[m].slug] = Fold[page[n].slug] => m = n

\* Only a section has children, however a page came by them or lost its kind.
ParentsAreSections ==
  \A n \in Live : Children(page, n) # {} => page[n].kind = "section"

\* Whatever operations came before, the table is one tree, and each path in it leads to one
\* page: load, which trusts the rows for both, finds every page.
TreeShape == Rooted /\ SiblingsDistinct /\ ParentsAreSections
=============================================================================
