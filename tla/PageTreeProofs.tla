--------------------------- MODULE PageTreeProofs ----------------------------
(***************************************************************************)
(* The shape of the page table, for every set of identifiers and slugs:    *)
(* whatever operations ran, the rows form a tree below the root, siblings  *)
(* have distinct slugs and only sections have children.                    *)
(*                                                                         *)
(* The invariant is a property of a table, and each operation a function   *)
(* from tables to tables; there is one lemma for each such function.       *)
(*                                                                         *)
(* The second half is about positions: a page's children are numbered from *)
(* zero without gaps, so a list can be read off the rows, a move lands     *)
(* where it was sent, and the table implements the lists of OrderedTree.   *)
(*                                                                         *)
(* The last part is about the tree that the file adapter takes over from an *)
(* older release, for any number of stops: what the number of a version    *)
(* promises is true of the tree that is saved with it and of the files.    *)
(***************************************************************************)
EXTENDS PageOrder, TreeMigration, FiniteSetTheorems, SequenceTheorems, TLAPS

Typed(t) ==
  /\ DOMAIN t \subseteq Id /\ IsFiniteSet(DOMAIN t)
  /\ t \in [DOMAIN t -> Row]
  /\ \A n \in DOMAIN t : t[n].parent \in Parents(t)

Connected(t) == DOMAIN t \subseteq Below(t, Root)

Distinct(t) ==
  \A m, n \in DOMAIN t :
    t[m].parent = t[n].parent /\ Fold[t[m].slug] = Fold[t[n].slug] => m = n

Sectioned(t) == \A n \in DOMAIN t : Children(t, n) # {} => t[n].kind = "section"

Good(t) == Typed(t) /\ Connected(t) /\ Distinct(t) /\ Sectioned(t)

TreeInv == Good(page)

-----------------------------------------------------------------------------
(* What the recursion visits *)

\* Below holds the children of the page, and the children of its members.
LEMMA BelowIsClosed ==
  ASSUME NEW t, NEW p
  PROVE  Children(t, p) \subseteq Below(t, p) /\ ClosedIn(t, Below(t, p))
BY DEF Children, Below, ClosedIn

\* A table is connected when every set of rows that holds the top-level pages
\* and is closed under children holds every row.
LEMMA ConnectedMeans ==
  ASSUME NEW t
  PROVE  Connected(t) <=>
           \A S \in SUBSET DOMAIN t :
             Children(t, Root) \subseteq S /\ ClosedIn(t, S) => DOMAIN t \subseteq S
BY DEF Connected, Below

\* The rows that go with a page: nothing outside them hangs below them.
LEMMA FamilyIsClosed ==
  ASSUME NEW t, NEW n, NEW m \in DOMAIN t,
         t[m].parent \in {n} \cup Below(t, n)
  PROVE  m \in Below(t, n)
<1>1. m \in Children(t, t[m].parent)
  BY DEF Children
<1> QED BY <1>1, BelowIsClosed DEF ClosedIn

-----------------------------------------------------------------------------
(* Functions that leave the shape alone *)

\* What is good about a table does not depend on the positions in it.
LEMMA ShapeIsEnough ==
  ASSUME NEW t, NEW u, Good(t), DOMAIN u = DOMAIN t, u \in [DOMAIN t -> Row],
         \A n \in DOMAIN t : /\ u[n].parent = t[n].parent
                             /\ u[n].slug = t[n].slug
                             /\ u[n].kind = t[n].kind
  PROVE  Good(u)
<1>1. \A p : Children(u, p) = Children(t, p)
  BY DEF Children
<1>2. Typed(u)
  BY DEF Good, Typed, Parents
<1>3. Connected(u)
  BY <1>1, ConnectedMeans DEF Good, ClosedIn
<1>4. Distinct(u) /\ Sectioned(u)
  BY <1>1 DEF Good, Distinct, Sectioned
<1> QED BY <1>2, <1>3, <1>4 DEF Good

\* reindexPositions keeps the shape.
LEMMA ReindexedIsGood ==
  ASSUME NEW t, NEW key, Good(t), IsFiniteSet(DOMAIN key)
  PROVE  Good(Reindexed(t, key))
<1> DEFINE u == Reindexed(t, key)
           rank(n) == Cardinality({m \in DOMAIN key : Precedes(key[m], key[n])})
<1>1. ASSUME NEW n PROVE rank(n) \in Nat
  <2>1. IsFiniteSet({m \in DOMAIN key : Precedes(key[m], key[n])})
    BY FS_Subset
  <2> QED BY <2>1, FS_CardinalityType
<1>2. DOMAIN u = DOMAIN t
  BY DEF Reindexed
<1>3. ASSUME NEW n \in DOMAIN t
      PROVE  /\ u[n] \in Row
             /\ u[n].parent = t[n].parent /\ u[n].slug = t[n].slug /\ u[n].kind = t[n].kind
  <2>1. t[n] \in Row
    BY DEF Good, Typed
  <2>2. u[n] = IF n \in DOMAIN key THEN [t[n] EXCEPT !.pos = rank(n)] ELSE t[n]
    BY DEF Reindexed
  <2> HIDE DEF u, rank
  <2> QED BY <2>1, <2>2, <1>1 DEF Row
<1>4. u = [n \in DOMAIN t |-> u[n]]
  BY DEF Reindexed
<1> HIDE DEF u
<1>5. u \in [DOMAIN t -> Row]
  BY <1>3, <1>4
<1>6. Good(u)
  BY <1>2, <1>3, <1>5, ShapeIsEnough
<1> QED BY <1>6 DEF u

\* The children of a page are finitely many.
LEMMA ChildrenAreFinite ==
  ASSUME NEW t, Typed(t), NEW p
  PROVE  IsFiniteSet(Children(t, p)) /\ Cardinality(Children(t, p)) \in Nat
<1>1. IsFiniteSet(Children(t, p))
  BY FS_Subset DEF Children, Typed
<1> QED BY <1>1, FS_CardinalityType

LEMMA RenumberedIsGood ==
  ASSUME NEW t, NEW p, Good(t)
  PROVE  Good(Renumbered(t, p))
<1>1. DOMAIN ByPosition(t, p) = Children(t, p)
  BY DEF ByPosition
<1>2. IsFiniteSet(DOMAIN ByPosition(t, p))
  BY <1>1, ChildrenAreFinite DEF Good
<1> QED BY <1>2, ReindexedIsGood DEF Renumbered

\* A page made a section is still where it was.
LEMMA SectionIsGood ==
  ASSUME NEW t, NEW p, Good(t)
  PROVE  /\ Good(AsSection(t, p))
         /\ DOMAIN AsSection(t, p) = DOMAIN t
         /\ \A n \in DOMAIN t : AsSection(t, p)[n].parent = t[n].parent
         /\ \A n \in DOMAIN t : AsSection(t, p)[n].slug = t[n].slug
         /\ p \in DOMAIN t => AsSection(t, p)[p].kind = "section"
<1> DEFINE u == AsSection(t, p)
<1>1. DOMAIN u = DOMAIN t
  BY DEF AsSection
<1>2. ASSUME NEW n \in DOMAIN t
      PROVE  /\ u[n] \in Row
             /\ u[n].parent = t[n].parent /\ u[n].slug = t[n].slug
             /\ u[n].kind = IF n = p THEN "section" ELSE t[n].kind
  <2>1. t[n] \in Row
    BY DEF Good, Typed
  <2>2. u[n] = IF n = p THEN [t[n] EXCEPT !.kind = "section"] ELSE t[n]
    BY DEF AsSection
  <2> HIDE DEF u
  <2> QED BY <2>1, <2>2 DEF Row, Kind
<1>3. u = [n \in DOMAIN t |-> u[n]]
  BY DEF AsSection
<1> HIDE DEF u
<1>4. u \in [DOMAIN t -> Row]
  BY <1>2, <1>3
<1>5. /\ \A q : Children(u, q) = Children(t, q)
      /\ Parents(u) = Parents(t)
  BY <1>1, <1>2 DEF Children, Parents
<1>6. Typed(u)
  BY <1>1, <1>2, <1>4, <1>5 DEF Good, Typed
<1>7. Connected(u)
  BY <1>1, <1>5, ConnectedMeans DEF Good, ClosedIn
<1>8. Distinct(u) /\ Sectioned(u)
  BY <1>1, <1>2, <1>5 DEF Good, Distinct, Sectioned
<1>9. Good(u)
  BY <1>6, <1>7, <1>8 DEF Good
<1> QED BY <1>1, <1>2, <1>9 DEF u

-----------------------------------------------------------------------------
(* Functions that change the shape *)

\* createNodeLocked adds a leaf below a row of the table.
LEMMA AddedIsGood ==
  ASSUME NEW t, Good(t), NEW n \in Id \ DOMAIN t, NEW p \in Parents(t),
         NEW s \in Slug, NEW k \in Kind, Named(t, p, s) = {}
  PROVE  Good(Added(t, n, p, s, k)) /\ DOMAIN Added(t, n, p, s, k) = DOMAIN t \cup {n}
<1> DEFINE u == Added(t, n, p, s, k)
           v == AsSection(t, p)
<1>0. n # Root /\ n # p
  BY PageTreeAssumption DEF Parents
<1>1. DOMAIN u = DOMAIN t \cup {n}
  BY DEF Added
<1>2. Good(v) /\ DOMAIN v = DOMAIN t
  BY SectionIsGood
<1>3. /\ \A m \in DOMAIN t : v[m].parent = t[m].parent /\ v[m].slug = t[m].slug
      /\ p \in DOMAIN t => v[p].kind = "section"
  BY SectionIsGood
<1>4. \A m \in DOMAIN t : u[m] = v[m]
  BY DEF Added
<1>5. u[n] = [parent |-> p, slug |-> s, kind |-> k, pos |-> Cardinality(Children(t, p))]
  BY DEF Added
<1>6. u = [m \in DOMAIN t \cup {n} |-> u[m]]
  BY DEF Added
<1>7. Cardinality(Children(t, p)) \in Nat
  BY ChildrenAreFinite DEF Good
<1> HIDE DEF u, v
<1>8. Typed(u)
  <2>1. u[n] \in Row
    BY <1>5, <1>7 DEF Row, Parents, Good, Typed
  <2>2. \A m \in DOMAIN t : u[m] \in Row
    BY <1>2, <1>4 DEF Good, Typed
  <2>3. u \in [DOMAIN u -> Row]
    BY <2>1, <2>2, <1>1, <1>6
  <2>4. IsFiniteSet(DOMAIN u)
    BY <1>1, FS_AddElement DEF Good, Typed
  <2>5. \A m \in DOMAIN u : u[m].parent \in Parents(u)
    BY <1>1, <1>3, <1>4, <1>5 DEF Good, Typed, Parents
  <2> QED BY <2>3, <2>4, <2>5, <1>1 DEF Good, Typed
<1>9. /\ \A q : Children(u, q) = Children(t, q) \cup (IF q = p THEN {n} ELSE {})
      /\ Children(t, n) = {}
  BY <1>0, <1>1, <1>3, <1>4, <1>5 DEF Children, Good, Typed, Parents
<1>10. Connected(u)
  <2> SUFFICES ASSUME NEW S \in SUBSET DOMAIN u,
                      Children(u, Root) \subseteq S, ClosedIn(u, S)
               PROVE  DOMAIN u \subseteq S
    BY ConnectedMeans
  <2>1. S \ {n} \in SUBSET DOMAIN t
    BY <1>1
  <2>2. Children(t, Root) \subseteq S \ {n} /\ ClosedIn(t, S \ {n})
    BY <1>9 DEF ClosedIn, Children
  <2>3. DOMAIN t \subseteq S
    BY <2>1, <2>2, ConnectedMeans DEF Good
  <2>4. n \in Children(u, p)
    BY <1>9
  <2> QED BY <2>3, <2>4, <1>1 DEF ClosedIn, Parents
<1>11. Distinct(u)
  BY <1>1, <1>3, <1>4, <1>5 DEF Good, Distinct, Named, Children
<1>12. Sectioned(u)
  <2>1. \A m \in DOMAIN t : Children(v, m) = Children(t, m)
    BY <1>2, <1>3 DEF Children
  <2> QED BY <2>1, <1>0, <1>1, <1>2, <1>3, <1>4, <1>9 DEF Good, Sectioned
<1>13. Good(u)
  BY <1>8, <1>10, <1>11, <1>12 DEF Good
<1> QED BY <1>13, <1>1 DEF u

\* The cascade takes a subtree out and leaves nothing hanging.
LEMMA RemovedIsGood ==
  ASSUME NEW t, Good(t), NEW n \in DOMAIN t
  PROVE  Good(Removed(t, {n} \cup Below(t, n)))
<1> DEFINE X == {n} \cup Below(t, n)
           u == Removed(t, X)
<1>1. DOMAIN u = DOMAIN t \ X /\ \A m \in DOMAIN u : u[m] = t[m]
  BY DEF Removed
<1>2. u = [m \in DOMAIN t \ X |-> u[m]]
  BY DEF Removed
<1>3. \A m \in DOMAIN t : t[m].parent \in X => m \in X
  BY FamilyIsClosed
<1> HIDE DEF X, u
<1>4. Typed(u)
  <2>1. u \in [DOMAIN u -> Row]
    BY <1>1, <1>2 DEF Good, Typed
  <2>2. IsFiniteSet(DOMAIN u)
    BY <1>1, FS_Subset DEF Good, Typed
  <2>3. \A m \in DOMAIN u : u[m].parent \in Parents(u)
    BY <1>1, <1>3 DEF Good, Typed, Parents
  <2> QED BY <2>1, <2>2, <2>3, <1>1 DEF Good, Typed
<1>5. \A q : Children(t, q) \subseteq Children(u, q) \cup X
  BY <1>1 DEF Children
<1>6. Connected(u)
  <2> SUFFICES ASSUME NEW S \in SUBSET DOMAIN u,
                      Children(u, Root) \subseteq S, ClosedIn(u, S)
               PROVE  DOMAIN u \subseteq S
    BY ConnectedMeans
  <2> DEFINE T == S \cup (X \cap DOMAIN t)
  <2>1. T \in SUBSET DOMAIN t
    BY <1>1
  <2>2. Children(t, Root) \subseteq T
    BY <1>5 DEF Children
  <2>3. ClosedIn(t, T)
    BY <1>3, <1>5 DEF ClosedIn, Children
  <2>4. DOMAIN t \subseteq T
    BY <2>1, <2>2, <2>3, ConnectedMeans DEF Good
  <2> QED BY <2>4, <1>1
<1>7. Distinct(u) /\ Sectioned(u)
  BY <1>1 DEF Good, Distinct, Sectioned, Children
<1> QED BY <1>4, <1>6, <1>7 DEF Good, u, X

\* A page hung below one that is not its own and does not hold its slug.
LEMMA RelinkedIsGood ==
  ASSUME NEW t, Good(t), NEW n \in DOMAIN t, NEW p \in Parents(t),
         p # n, p \notin Below(t, n), Named(t, p, t[n].slug) \subseteq {n}
  PROVE  Good(Relinked(t, n, p)) /\ DOMAIN Relinked(t, n, p) = DOMAIN t
<1> DEFINE u == Relinked(t, n, p)
           v == AsSection(t, p)
           X == {n} \cup Below(t, n)
<1>0. n # Root
  BY PageTreeAssumption DEF Good, Typed
<1>1. Good(v) /\ DOMAIN v = DOMAIN t
  BY SectionIsGood
<1>2. /\ \A m \in DOMAIN t : v[m].parent = t[m].parent /\ v[m].slug = t[m].slug
      /\ p \in DOMAIN t => v[p].kind = "section"
  BY SectionIsGood
<1>3. u = [v EXCEPT ![n] = [v[n] EXCEPT !.parent = p]]
  BY DEF Relinked
<1>4. X \subseteq DOMAIN t /\ \A m \in DOMAIN t : t[m].parent \in X => m \in X
  BY FamilyIsClosed DEF Below
<1> HIDE DEF u, v, X
<1>5. v[n] \in Row /\ p \in Id \cup {Root}
  BY <1>1 DEF Good, Typed, Parents
<1>6. DOMAIN u = DOMAIN t /\ u \in [DOMAIN t -> Row]
  <2>1. [v[n] EXCEPT !.parent = p] \in Row
    BY <1>5 DEF Row
  <2> QED BY <1>1, <1>3, <2>1 DEF Good, Typed
<1>7. /\ \A m \in DOMAIN t \ {n} : u[m] = v[m]
      /\ u[n].parent = p /\ u[n].slug = v[n].slug /\ u[n].kind = v[n].kind
  BY <1>1, <1>3, <1>5 DEF Good, Typed, Row
<1>8. Typed(u)
  BY <1>1, <1>2, <1>6, <1>7 DEF Good, Typed, Parents
<1>9. /\ \A q : Children(t, q) \subseteq Children(u, q) \cup {n}
      /\ \A q : Children(u, q) \subseteq Children(t, q) \cup (IF q = p THEN {n} ELSE {})
      /\ n \in Children(u, p)
  BY <1>2, <1>6, <1>7 DEF Children
<1>10. Connected(u)
  <2> SUFFICES ASSUME NEW S \in SUBSET DOMAIN u,
                      Children(u, Root) \subseteq S, ClosedIn(u, S)
               PROVE  DOMAIN u \subseteq S
    BY ConnectedMeans
  <2> DEFINE T == S \cup X
  <2>1. T \in SUBSET DOMAIN t
    BY <1>4, <1>6
  <2>2. Children(t, Root) \subseteq T
    BY <1>9 DEF X
  <2>3. ClosedIn(t, T)
    BY <1>4, <1>9 DEF ClosedIn, Children, X
  <2>4. DOMAIN t \subseteq T
    BY <2>1, <2>2, <2>3, ConnectedMeans DEF Good
  \* The new parent is reached without the moved page, so the page is.
  <2>5. n \in S
    <3>1. p \in S \cup {Root}
      BY <2>4 DEF Parents, X
    <3> QED BY <3>1, <1>9 DEF ClosedIn
  \* And so is everything below it.
  <2>6. X \subseteq S
    <3>1. Children(t, n) \subseteq S /\ ClosedIn(t, S)
      BY <2>5, <1>9 DEF ClosedIn
    <3>2. S \in SUBSET DOMAIN t
      BY <1>6
    <3> QED BY <2>5, <3>1, <3>2 DEF X, Below
  <2> QED BY <2>4, <2>6, <1>6
<1>11. Distinct(u)
  <2>1. \A m \in DOMAIN t : t[m].parent = p /\ Fold[t[m].slug] = Fold[t[n].slug] => m = n
    BY DEF Named, Children
  <2> QED BY <2>1, <1>2, <1>6, <1>7 DEF Good, Distinct
<1>12. Sectioned(u)
  <2>1. \A m \in DOMAIN t : Children(v, m) = Children(t, m)
    BY <1>1, <1>2 DEF Children
  <2>2. \A m \in DOMAIN t : u[m].kind = v[m].kind
    BY <1>7
  <2> QED BY <2>1, <2>2, <1>1, <1>2, <1>6, <1>9 DEF Good, Sectioned
<1>13. Good(u)
  BY <1>8, <1>10, <1>11, <1>12 DEF Good
<1> QED BY <1>13, <1>6 DEF u

-----------------------------------------------------------------------------
(* The operations *)

LEMMA CreateIsGood ==
  ASSUME TreeInv, NEW n, NEW p, NEW s \in Slug, NEW k \in Kind, Create(n, p, s, k)
  PROVE  Good(page')
BY AddedIsGood DEF Create, TreeInv, Live

\* The second segment goes below the first, which has no children yet.
LEMMA EnsurePathIsGood ==
  ASSUME TreeInv, NEW a, NEW b, NEW p, NEW s \in Slug, NEW t \in Slug, NEW k \in Kind,
         EnsurePath(a, b, p, s, t, k)
  PROVE  Good(page')
<1> DEFINE u == Added(page, a, p, s, "section")
<1>1. Good(u) /\ DOMAIN u = DOMAIN page \cup {a}
  BY AddedIsGood DEF EnsurePath, TreeInv, Live, Kind
<1>2. Children(u, a) = {}
  <2>1. a \notin Parents(page) /\ p \in Parents(page) /\ p # a
    BY PageTreeAssumption DEF EnsurePath, Parents, Live
  <2>2. u[a].parent = p
    BY DEF Added
  <2>3. ASSUME NEW m \in DOMAIN page PROVE u[m].parent = page[m].parent
    <3>1. u[m] = AsSection(page, p)[m]
      BY <2>1 DEF Added, EnsurePath, Live
    <3> QED BY <3>1, SectionIsGood DEF TreeInv
  <2> QED BY <1>1, <2>1, <2>2, <2>3 DEF Children, TreeInv, Good, Typed
<1> HIDE DEF u
<1>3. Named(u, a, t) = {} /\ a \in Parents(u) /\ b \in Id \ DOMAIN u
  BY <1>1, <1>2 DEF Named, Parents, EnsurePath, Live
<1>4. page' = Added(u, b, a, t, k)
  BY DEF EnsurePath, u
<1> QED BY <1>1, <1>3, <1>4, AddedIsGood

LEMMA DeleteIsGood ==
  ASSUME TreeInv, NEW n, NEW recursive, Delete(n, recursive)
  PROVE  Good(page')
BY RemovedIsGood, RenumberedIsGood DEF Delete, TreeInv, Live

LEMMA RenameIsGood ==
  ASSUME TreeInv, NEW n, NEW s \in Slug, Rename(n, s)
  PROVE  Good(page')
<1> DEFINE u == page'
<1>1. /\ n \in DOMAIN page
      /\ u = [page EXCEPT ![n] = [page[n] EXCEPT !.slug = s]]
      /\ Named(page, page[n].parent, s) \subseteq {n}
  BY DEF Rename, Live
<1>2. page \in [DOMAIN page -> Row]
  BY DEF TreeInv, Good, Typed
<1> HIDE DEF u
<1>3. page[n] \in Row
  BY <1>1, <1>2
<1>4. [page[n] EXCEPT !.slug = s] \in Row
  BY <1>3 DEF Row
<1>5. DOMAIN u = DOMAIN page /\ u \in [DOMAIN page -> Row]
  BY <1>1, <1>2, <1>4
<1>6. /\ \A m \in DOMAIN page \ {n} : u[m] = page[m]
      /\ u[n].parent = page[n].parent /\ u[n].slug = s /\ u[n].kind = page[n].kind
  BY <1>1, <1>2, <1>3 DEF Row
<1>7. \A q : Children(u, q) = Children(page, q)
  BY <1>5, <1>6 DEF Children
<1>8. Typed(u)
  BY <1>5, <1>6 DEF TreeInv, Good, Typed, Parents
<1>9. Connected(u)
  BY <1>5, <1>7, ConnectedMeans DEF TreeInv, Good, ClosedIn
<1>10. Distinct(u)
  <2>1. \A m \in DOMAIN page :
          page[m].parent = page[n].parent /\ Fold[page[m].slug] = Fold[s] => m = n
    BY <1>1 DEF Named, Children
  <2> QED BY <2>1, <1>1, <1>5, <1>6 DEF TreeInv, Good, Distinct
<1>11. Sectioned(u)
  BY <1>5, <1>6, <1>7 DEF TreeInv, Good, Sectioned
<1> QED BY <1>8, <1>9, <1>10, <1>11 DEF Good, u

LEMMA ConvertIsGood ==
  ASSUME TreeInv, NEW n, NEW k \in Kind, ConvertNode(n, k)
  PROVE  Good(page')
<1> DEFINE u == page'
<1>1. /\ n \in DOMAIN page
      /\ u = [page EXCEPT ![n] = [page[n] EXCEPT !.kind = k]]
      /\ k = "page" => Children(page, n) = {}
  BY DEF ConvertNode, Live
<1>2. page \in [DOMAIN page -> Row]
  BY DEF TreeInv, Good, Typed
<1> HIDE DEF u
<1>3. page[n] \in Row
  BY <1>1, <1>2
<1>4. [page[n] EXCEPT !.kind = k] \in Row
  BY <1>3 DEF Row
<1>5. DOMAIN u = DOMAIN page /\ u \in [DOMAIN page -> Row]
  BY <1>1, <1>2, <1>4
<1>6. /\ \A m \in DOMAIN page \ {n} : u[m] = page[m]
      /\ u[n].parent = page[n].parent /\ u[n].slug = page[n].slug /\ u[n].kind = k
  BY <1>1, <1>2, <1>3 DEF Row
<1>7. \A q : Children(u, q) = Children(page, q)
  BY <1>5, <1>6 DEF Children
<1>8. Typed(u)
  BY <1>5, <1>6 DEF TreeInv, Good, Typed, Parents
<1>9. Connected(u)
  BY <1>5, <1>7, ConnectedMeans DEF TreeInv, Good, ClosedIn
<1>10. Distinct(u)
  BY <1>1, <1>5, <1>6 DEF TreeInv, Good, Distinct
<1>11. Sectioned(u)
  <2>1. Children(page, n) # {} => k = "section"
    BY <1>1 DEF Kind
  <2> QED BY <2>1, <1>5, <1>6, <1>7 DEF TreeInv, Good, Sectioned
<1> QED BY <1>8, <1>9, <1>10, <1>11 DEF Good, u

LEMMA MoveIsGood ==
  ASSUME TreeInv, NEW n, NEW p, NEW at, MoveNode(n, p, at)
  PROVE  Good(page')
<1> DEFINE u == Relinked(page, n, p)
           size == Cardinality(Children(page, p) \ {n})
           spot == IF at \in 0 .. size - 1 THEN at ELSE size
           key == InsertionKey(page, p, n, spot)
<1>1. n \in DOMAIN page /\ p \in Parents(page)
  BY DEF MoveNode, Live
<1>2. Good(u)
  BY <1>1, RelinkedIsGood DEF MoveNode, TreeInv
<1>3. DOMAIN key = (Children(page, p) \ {n}) \cup {n}
  BY DEF InsertionKey
<1>4. IsFiniteSet(DOMAIN key)
  <2>1. DOMAIN key \subseteq DOMAIN page
    BY <1>1, <1>3 DEF Children
  <2> QED BY <2>1, FS_Subset DEF TreeInv, Good, Typed
<1>5. page' = Renumbered(Reindexed(u, key), page[n].parent)
  BY DEF MoveNode, Relocated
<1> HIDE DEF u, key
<1> QED BY <1>2, <1>4, <1>5, ReindexedIsGood, RenumberedIsGood

LEMMA SortIsGood ==
  ASSUME TreeInv, NEW p, NEW order, SortPages(p, order)
  PROVE  Good(page')
<1> DEFINE u == page'
<1>1. u = [n \in DOMAIN page |->
             IF n \in Children(page, p) THEN [page[n] EXCEPT !.pos = order[n]] ELSE page[n]]
  BY DEF SortPages, Live
<1>2. \A n \in Children(page, p) : order[n] \in Nat
  BY ChildrenAreFinite DEF SortPages, TreeInv, Good
<1> HIDE DEF u
<1>3. ASSUME NEW n \in DOMAIN page
      PROVE  /\ u[n] \in Row
             /\ u[n].parent = page[n].parent
             /\ u[n].slug = page[n].slug /\ u[n].kind = page[n].kind
  <2>1. page[n] \in Row
    BY DEF TreeInv, Good, Typed
  <2>2. u[n] = IF n \in Children(page, p) THEN [page[n] EXCEPT !.pos = order[n]] ELSE page[n]
    BY <1>1
  <2> QED BY <2>1, <2>2, <1>2 DEF Row
<1>4. DOMAIN u = DOMAIN page /\ u \in [DOMAIN page -> Row]
  BY <1>1, <1>3
<1> QED BY <1>3, <1>4, ShapeIsEnough DEF TreeInv, u

-----------------------------------------------------------------------------
(* The invariant and what it says *)

\* Every sequence of the service's transactions keeps the table in shape.
THEOREM TreeInvariant == TreeSpec => []TreeInv
<1>1. TreeInit => TreeInv
  <2> SUFFICES ASSUME TreeInit PROVE Good(page)
    BY DEF TreeInv
  <2>1. DOMAIN page = {}
    BY DEF TreeInit
  <2>2. page \in [DOMAIN page -> Row]
    BY DEF TreeInit
  <2> QED BY <2>1, <2>2, FS_EmptySet
       DEF Good, Typed, Connected, Distinct, Sectioned, Parents
<1>2. TreeInv /\ [TreeNext]_page => TreeInv'
  <2> SUFFICES ASSUME TreeInv, [TreeNext]_page PROVE Good(page')
    BY DEF TreeInv, Good, Typed, Connected, Distinct, Sectioned, Parents, Children,
       Below, ClosedIn, Row
  <2>1. CASE Creates
    BY <2>1, CreateIsGood DEF Creates
  <2>2. CASE EnsuresPath
    BY <2>2, EnsurePathIsGood DEF EnsuresPath
  <2>3. CASE \E n \in Live, recursive \in BOOLEAN : Delete(n, recursive)
    BY <2>3, DeleteIsGood
  <2>4. CASE \E n \in Live, s \in Slug : Rename(n, s)
    BY <2>4, RenameIsGood
  <2>5. CASE \E n \in Live, k \in Kind : ConvertNode(n, k)
    BY <2>5, ConvertIsGood
  <2>6. CASE Moves
    BY <2>6, MoveIsGood DEF Moves
  <2>7. CASE Sorts
    BY <2>7, SortIsGood DEF Sorts
  <2>8. CASE UNCHANGED page
    BY <2>8 DEF TreeInv
  <2> QED BY <2>1, <2>2, <2>3, <2>4, <2>5, <2>6, <2>7, <2>8 DEF TreeNext
<1> QED BY <1>1, <1>2, PTL DEF TreeSpec

\* load never finds a row without its parent row.
THEOREM TreeTypes == TreeSpec => []TreeTypeOK
<1>1. TreeInv => TreeTypeOK
  BY DEF TreeInv, Good, Typed, TreeTypeOK, Live
<1> QED BY <1>1, TreeInvariant, PTL

\* No sequence of creates, moves and deletes takes a page out of the tree.
THEOREM TreeIsRooted == TreeSpec => []Rooted
<1>1. TreeInv => Rooted
  BY DEF TreeInv, Good, Connected, Rooted, Live
<1> QED BY <1>1, TreeInvariant, PTL

\* A path names at most one page.
THEOREM PathsAreUnique == TreeSpec => []SiblingsDistinct
<1>1. TreeInv => SiblingsDistinct
  BY DEF TreeInv, Good, Distinct, SiblingsDistinct, Live
<1> QED BY <1>1, TreeInvariant, PTL

\* Only sections have children.
THEOREM ChildrenHaveSections == TreeSpec => []ParentsAreSections
<1>1. TreeInv => ParentsAreSections
  BY DEF TreeInv, Good, Sectioned, ParentsAreSections, Live
<1> QED BY <1>1, TreeInvariant, PTL

\* Together: the table is one tree, and each path in it leads to one page.
THEOREM TreeKeepsShape == TreeSpec => []TreeShape
<1>1. Rooted /\ SiblingsDistinct /\ ParentsAreSections => TreeShape  BY DEF TreeShape
<1>2. QED  BY <1>1, TreeIsRooted, PathsAreUnique, ChildrenHaveSections, PTL

-----------------------------------------------------------------------------
(* Numbered sets and their lists *)

\* Numbers 0, 1, 2, ... for the elements of a finite set
Numbering(f) ==
  /\ IsFiniteSet(DOMAIN f) /\ f \in [DOMAIN f -> 0 .. Cardinality(DOMAIN f) - 1]
  /\ \A x, y \in DOMAIN f : f[x] = f[y] => x = y

\* The list of the elements by their numbers
Enumerates(list, f) ==
  /\ list \in [1 .. Cardinality(DOMAIN f) -> DOMAIN f]
  /\ \A i \in 1 .. Cardinality(DOMAIN f) : f[list[i]] = i - 1

\* The numbers after one element has left, and after one has been put in
GapClosed(f, n) == [m \in DOMAIN f \ {n} |-> IF f[m] < f[n] THEN f[m] ELSE f[m] - 1]
GapMade(f, n, spot) ==
  [m \in DOMAIN f \cup {n} |-> IF m = n THEN spot ELSE IF f[m] < spot THEN f[m] ELSE f[m] + 1]

\* Every number is taken, and an element has as many before it as its number.
LEMMA NumberIsRank ==
  ASSUME NEW f, Numbering(f)
  PROVE  /\ Cardinality(DOMAIN f) \in Nat
         /\ \A i \in 0 .. Cardinality(DOMAIN f) - 1 : \E x \in DOMAIN f : f[x] = i
         /\ \A y \in DOMAIN f : Cardinality({x \in DOMAIN f : f[x] < f[y]}) = f[y]
<1> DEFINE S == DOMAIN f
           N == Cardinality(S)
<1>1. N \in Nat /\ IsFiniteSet(S) /\ f \in [S -> 0 .. N - 1] /\ \A x, y \in S : f[x] = f[y] => x = y
  BY FS_CardinalityType DEF Numbering
<1> HIDE DEF S
<1>2. IsFiniteSet(0 .. N - 1) /\ Cardinality(0 .. N - 1) = N
  BY <1>1, FS_Interval
<1>3. f \in Injection(S, 0 .. N - 1)
  BY <1>1 DEF Injection, IsInjective
<1>4. f \in Surjection(S, 0 .. N - 1)
  BY <1>2, <1>3, FS_Injection
<1>5. \A i \in 0 .. N - 1 : \E x \in S : f[x] = i
  BY <1>4 DEF Surjection
<1>6. ASSUME NEW y \in S
      PROVE  Cardinality({x \in S : f[x] < f[y]}) = f[y]
  <2> DEFINE T == {x \in S : f[x] < f[y]}
             g == [x \in T |-> f[x]]
  <2>1. f[y] \in 0 .. N - 1
    BY <1>1
  <2>2. g \in [T -> 0 .. f[y] - 1]
    BY <1>1, <2>1
  <2>3. \A i \in 0 .. f[y] - 1 : \E x \in T : g[x] = i
    BY <1>1, <1>5, <2>1
  <2>4. \A a, b \in T : g[a] = g[b] => a = b
    BY <1>1
  <2> HIDE DEF g, T
  <2>5. g \in Bijection(T, 0 .. f[y] - 1)
    BY <2>2, <2>3, <2>4 DEF Bijection, Injection, Surjection, IsInjective
  <2>6. IsFiniteSet(T)
    BY <1>1, FS_Subset DEF T
  <2>7. Cardinality(0 .. f[y] - 1) = Cardinality(T)
    BY <2>5, <2>6, FS_Bijection DEF ExistsBijection
  <2>8. Cardinality(0 .. f[y] - 1) = f[y]
    BY <1>1, <2>1, FS_Interval
  <2> QED BY <2>7, <2>8 DEF T
<1> QED BY <1>1, <1>5, <1>6 DEF S

LEMMA GapClosedNumbers ==
  ASSUME NEW f, Numbering(f), NEW n \in DOMAIN f
  PROVE  /\ Numbering(GapClosed(f, n)) /\ DOMAIN GapClosed(f, n) = DOMAIN f \ {n}
         /\ Cardinality(DOMAIN f \ {n}) = Cardinality(DOMAIN f) - 1
         /\ \A x, y \in DOMAIN f \ {n} : GapClosed(f, n)[x] < GapClosed(f, n)[y] <=> f[x] < f[y]
<1> DEFINE S == DOMAIN f
           N == Cardinality(S)
           g == GapClosed(f, n)
<1>1. N \in Nat /\ IsFiniteSet(S) /\ f \in [S -> 0 .. N - 1] /\ \A x, y \in S : f[x] = f[y] => x = y
  BY FS_CardinalityType DEF Numbering
<1>2. /\ DOMAIN g = S \ {n} /\ g = [m \in S \ {n} |-> g[m]]
      /\ \A m \in S \ {n} : g[m] = IF f[m] < f[n] THEN f[m] ELSE f[m] - 1
  BY DEF GapClosed
<1>3. IsFiniteSet(S \ {n}) /\ Cardinality(S \ {n}) = N - 1
  BY <1>1, FS_RemoveElement
<1> HIDE DEF g, S
<1>4. n \in S
  BY DEF S
<1>5. \A m \in S \ {n} : f[m] \in 0 .. N - 1 /\ f[m] # f[n]
  BY <1>1, <1>4
<1>6. \A m \in S \ {n} : g[m] \in 0 .. N - 2
  BY <1>1, <1>2, <1>4, <1>5
<1>7. \A x, y \in S \ {n} : (g[x] < g[y] <=> f[x] < f[y]) /\ (g[x] = g[y] => x = y)
  BY <1>1, <1>2, <1>4, <1>5
<1>8. g \in [S \ {n} -> 0 .. Cardinality(S \ {n}) - 1]
  BY <1>1, <1>2, <1>3, <1>6
<1>9. Numbering(g)
  BY <1>2, <1>3, <1>7, <1>8 DEF Numbering
<1> QED BY <1>2, <1>3, <1>7, <1>9 DEF g, S

LEMMA GapMadeNumbers ==
  ASSUME NEW f, Numbering(f), NEW n, n \notin DOMAIN f, NEW spot \in 0 .. Cardinality(DOMAIN f)
  PROVE  /\ Numbering(GapMade(f, n, spot)) /\ DOMAIN GapMade(f, n, spot) = DOMAIN f \cup {n}
         /\ Cardinality(DOMAIN f \cup {n}) = Cardinality(DOMAIN f) + 1
<1> DEFINE S == DOMAIN f
           N == Cardinality(S)
           g == GapMade(f, n, spot)
<1>1. N \in Nat /\ IsFiniteSet(S) /\ f \in [S -> 0 .. N - 1] /\ \A x, y \in S : f[x] = f[y] => x = y
  BY FS_CardinalityType DEF Numbering
<1>2. /\ DOMAIN g = S \cup {n} /\ g = [m \in S \cup {n} |-> g[m]]
      /\ \A m \in S \cup {n} : g[m] = IF m = n THEN spot ELSE IF f[m] < spot THEN f[m] ELSE f[m] + 1
  BY DEF GapMade
<1>3. IsFiniteSet(S \cup {n}) /\ Cardinality(S \cup {n}) = N + 1
  BY <1>1, FS_AddElement
<1>4. n \notin S /\ spot \in 0 .. N
  OBVIOUS
<1> HIDE DEF g, S
<1>5. \A m \in S : f[m] \in 0 .. N - 1
  BY <1>1
<1>6. \A m \in S \cup {n} : g[m] \in 0 .. N
  BY <1>1, <1>2, <1>4, <1>5
<1>7. ASSUME NEW x \in S \cup {n}, NEW y \in S \cup {n}, g[x] = g[y]
      PROVE  x = y
  <2>1. CASE x \in S /\ y \in S
    <3>1. f[x] = f[y]
      BY <1>2, <1>4, <1>5, <1>7, <2>1
    <3> QED BY <1>1, <2>1, <3>1
  <2>2. ASSUME NEW m \in S
        PROVE  g[m] # spot
    BY <1>1, <1>2, <1>4, <1>5, <2>2
  <2>3. g[n] = spot
    BY <1>2
  <2> QED BY <1>7, <2>1, <2>2, <2>3
<1>8. g \in [S \cup {n} -> 0 .. Cardinality(S \cup {n}) - 1]
  BY <1>1, <1>2, <1>3, <1>6
<1>9. Numbering(g)
  BY <1>2, <1>3, <1>7, <1>8 DEF Numbering
<1> QED BY <1>2, <1>3, <1>9 DEF g, S

LEMMA Slice ==
  ASSUME NEW S, NEW s \in Seq(S), NEW a \in Int, NEW b \in Int, 1 <= a, b <= Len(s), a <= b + 1
  PROVE  /\ SubSeq(s, a, b) \in Seq(S) /\ Len(SubSeq(s, a, b)) = b - a + 1
         /\ \A k \in 1 .. (b - a + 1) : SubSeq(s, a, b)[k] = s[a + k - 1]
<1>1. \A i \in a .. b : s[i] \in S
  OBVIOUS
<1>2. /\ SubSeq(s, a, b) \in Seq(S)
      /\ Len(SubSeq(s, a, b)) = IF a <= b THEN b - a + 1 ELSE 0
      /\ \A i \in 1 .. b - a + 1 : SubSeq(s, a, b)[i] = s[a + i - 1]
  BY <1>1, SubSeqProperties
<1> QED BY <1>2

LEMMA RemovedAt ==
  ASSUME NEW S, NEW s \in Seq(S), NEW i \in 1 .. Len(s)
  PROVE  /\ RemoveAt(s, i) \in [1 .. (Len(s) - 1) -> S]
         /\ \A k \in 1 .. (Len(s) - 1) : RemoveAt(s, i)[k] = IF k < i THEN s[k] ELSE s[k + 1]
<1> DEFINE a == SubSeq(s, 1, i - 1)
           b == SubSeq(s, i + 1, Len(s))
           r == a \o b
           N == Len(s)
<1>1. N \in Nat
  OBVIOUS
<1>2. /\ a \in Seq(S) /\ Len(a) = (i - 1) - 1 + 1
      /\ \A k \in 1 .. ((i - 1) - 1 + 1) : a[k] = s[1 + k - 1]
  BY <1>1, Slice
<1>3. /\ b \in Seq(S) /\ Len(b) = N - (i + 1) + 1
      /\ \A k \in 1 .. (N - (i + 1) + 1) : b[k] = s[(i + 1) + k - 1]
  BY <1>1, Slice
<1>4. RemoveAt(s, i) = r
  BY DEF RemoveAt
<1> HIDE DEF a, b
<1>9. a \in Seq(S) /\ b \in Seq(S)
  BY <1>2, <1>3
<1>5. /\ r \in Seq(S) /\ Len(r) = Len(a) + Len(b)
      /\ \A k \in 1 .. Len(a) : r[k] = a[k]
      /\ \A k \in 1 .. Len(b) : r[Len(a) + k] = b[k]
  BY <1>9
<1> HIDE DEF r
<1>6. Len(a) = i - 1 /\ Len(b) = N - i
  BY <1>1, <1>2, <1>3
<1>7. ASSUME NEW k \in 1 .. (N - 1)
      PROVE  r[k] = IF k < i THEN s[k] ELSE s[k + 1]
  <2>1. CASE k < i
    BY <1>1, <1>2, <1>5, <1>6, <2>1
  <2>2. CASE ~(k < i)
    <3>1. k - (i - 1) \in 1 .. Len(b) /\ k = Len(a) + (k - (i - 1))
      BY <1>1, <1>6, <2>2
    <3>2. r[k] = b[k - (i - 1)] /\ b[k - (i - 1)] = s[(i + 1) + (k - (i - 1)) - 1]
      BY <1>1, <1>3, <1>5, <1>6, <3>1
    <3> QED BY <1>1, <2>2, <3>2
  <2> QED BY <2>1, <2>2
<1>8. r \in [1 .. (N - 1) -> S]
  BY <1>1, <1>5, <1>6
<1> QED BY <1>4, <1>7, <1>8

LEMMA InsertedAt ==
  ASSUME NEW S, NEW s \in Seq(S), NEW i \in 1 .. (Len(s) + 1), NEW n \in S
  PROVE  /\ InsertAt(s, i, n) \in [1 .. (Len(s) + 1) -> S]
         /\ \A k \in 1 .. (Len(s) + 1) :
              InsertAt(s, i, n)[k] = IF k < i THEN s[k] ELSE IF k = i THEN n ELSE s[k - 1]
<1> DEFINE a == SubSeq(s, 1, i - 1)
           b == SubSeq(s, i, Len(s))
           c == a \o <<n>>
           r == c \o b
           N == Len(s)
<1>1. N \in Nat /\ <<n>> \in Seq(S) /\ Len(<<n>>) = 1 /\ <<n>>[1] = n
  OBVIOUS
<1>2. /\ a \in Seq(S) /\ Len(a) = (i - 1) - 1 + 1
      /\ \A k \in 1 .. ((i - 1) - 1 + 1) : a[k] = s[1 + k - 1]
  BY <1>1, Slice
<1>3. /\ b \in Seq(S) /\ Len(b) = N - i + 1
      /\ \A k \in 1 .. (N - i + 1) : b[k] = s[i + k - 1]
  BY <1>1, Slice
<1>4. InsertAt(s, i, n) = r
  BY DEF InsertAt
<1> HIDE DEF a, b
<1>5. /\ c \in Seq(S) /\ Len(c) = Len(a) + 1
      /\ \A k \in 1 .. Len(a) : c[k] = a[k]
      /\ c[Len(a) + 1] = n
  <2> DEFINE one == <<n>>
  <2>1. one \in Seq(S) /\ Len(one) = 1 /\ one[1] = n
    BY <1>1
  <2>2. c = a \o one
    OBVIOUS
  <2> HIDE DEF one, c
  <2>3. /\ c \in Seq(S) /\ Len(c) = Len(a) + Len(one)
        /\ \A k \in 1 .. Len(a) : c[k] = a[k]
        /\ \A k \in 1 .. Len(one) : c[Len(a) + k] = one[k]
    <3>1. a \in Seq(S) /\ one \in Seq(S)
      BY <1>2, <2>1
    <3> QED BY <3>1, <2>2
  <2> QED BY <2>1, <2>3
<1> HIDE DEF c
<1>6. /\ r \in Seq(S) /\ Len(r) = Len(c) + Len(b)
      /\ \A k \in 1 .. Len(c) : r[k] = c[k]
      /\ \A k \in 1 .. Len(b) : r[Len(c) + k] = b[k]
  <2>1. c \in Seq(S) /\ b \in Seq(S)
    BY <1>3, <1>5
  <2> QED BY <2>1
<1> HIDE DEF r
<1>7. Len(a) = i - 1 /\ Len(c) = i /\ Len(b) = N - i + 1
  BY <1>1, <1>2, <1>3, <1>5
<1>8. ASSUME NEW k \in 1 .. (N + 1)
      PROVE  r[k] = IF k < i THEN s[k] ELSE IF k = i THEN n ELSE s[k - 1]
  <2>1. CASE k < i
    <3>1. k \in 1 .. Len(a) /\ k \in 1 .. Len(c) /\ k \in 1 .. ((i - 1) - 1 + 1)
      BY <1>1, <1>7, <2>1
    <3>2. r[k] = a[k] /\ a[k] = s[1 + k - 1]
      BY <1>2, <1>5, <1>6, <3>1
    <3> QED BY <2>1, <3>2
  <2>2. CASE k = i
    BY <1>1, <1>5, <1>6, <1>7, <2>2
  <2>3. CASE k > i
    <3>1. k - i \in 1 .. Len(b) /\ k = Len(c) + (k - i)
      BY <1>1, <1>7, <2>3
    <3>2. r[k] = b[k - i] /\ b[k - i] = s[i + (k - i) - 1]
      BY <1>1, <1>3, <1>6, <1>7, <3>1
    <3> QED BY <1>1, <2>3, <3>2
  <2> QED BY <2>1, <2>2, <2>3
<1>9. r \in [1 .. (N + 1) -> S]
  BY <1>1, <1>6, <1>7
<1> QED BY <1>4, <1>8, <1>9

\* The list of what is left is the list without the element that left.
LEMMA WithoutEnumerates ==
  ASSUME NEW f, Numbering(f), NEW n \in DOMAIN f, NEW list, Enumerates(list, f)
  PROVE  Enumerates(Ordered!Without(list, n), GapClosed(f, n))
<1> DEFINE S == DOMAIN f
           N == Cardinality(S)
           g == GapClosed(f, n)
           i == CHOOSE i \in DOMAIN list : list[i] = n
           rest == RemoveAt(list, i)
<1>1. N \in Nat /\ f \in [S -> 0 .. N - 1] /\ \A x, y \in S : f[x] = f[y] => x = y
  BY NumberIsRank DEF Numbering
<1>2. list \in [1 .. N -> S] /\ \A k \in 1 .. N : f[list[k]] = k - 1
  BY DEF Enumerates
<1>3. f[n] + 1 \in 1 .. N /\ list[f[n] + 1] = n
  BY <1>1, <1>2
<1>4. i \in 1 .. N /\ list[i] = n /\ i = f[n] + 1
  <2>1. i \in DOMAIN list /\ list[i] = n
    BY <1>2, <1>3
  <2> QED BY <1>1, <1>2, <2>1
<1>5. n \in ToSet(list)
  BY <1>2, <1>4 DEF ToSet
<1>6. Ordered!Without(list, n) = rest
  BY <1>5 DEF Ordered!Without, Ordered!ToSet, ToSet, Ordered!RemoveAt, RemoveAt
<1>7. list \in Seq(S) /\ Len(list) = N
  BY <1>1, <1>2
<1> HIDE DEF i, S
<1>10. /\ rest \in [1 .. (N - 1) -> S]
       /\ \A k \in 1 .. (N - 1) : rest[k] = IF k < i THEN list[k] ELSE list[k + 1]
  BY <1>4, <1>7, RemovedAt
<1> HIDE DEF rest
<1>11. /\ DOMAIN g = S \ {n} /\ Cardinality(S \ {n}) = N - 1
       /\ \A m \in S \ {n} : g[m] = IF f[m] < f[n] THEN f[m] ELSE f[m] - 1
  BY GapClosedNumbers DEF GapClosed, S
<1> HIDE DEF g
<1>12. ASSUME NEW k \in 1 .. (N - 1)
       PROVE  rest[k] \in S \ {n} /\ g[rest[k]] = k - 1
  <2>1. rest[k] \in S /\ f[rest[k]] = IF k < i THEN k - 1 ELSE k
    <3>1. k \in 1 .. N /\ k + 1 \in 1 .. N /\ (k + 1) - 1 = k
      BY <1>1
    <3>2. f[list[k]] = k - 1 /\ f[list[k + 1]] = (k + 1) - 1 /\ list[k] \in S /\ list[k + 1] \in S
      BY <1>2, <3>1
    <3> QED BY <1>10, <3>1, <3>2
  <2>2. rest[k] # n
    BY <1>1, <1>4, <2>1
  <2> QED BY <1>1, <1>4, <1>11, <2>1, <2>2
<1>13. rest \in [1 .. (N - 1) -> S \ {n}]
  BY <1>10, <1>12
<1> QED BY <1>6, <1>11, <1>12, <1>13 DEF Enumerates, g

\* The list of what there is once one was put in is the list with it put in.
LEMMA InsertEnumerates ==
  ASSUME NEW f, Numbering(f), NEW n, n \notin DOMAIN f, NEW spot \in 0 .. Cardinality(DOMAIN f),
         NEW list, Enumerates(list, f)
  PROVE  /\ Enumerates(InsertAt(list, spot + 1, n), GapMade(f, n, spot))
         /\ Len(list) = Cardinality(DOMAIN f) /\ Len(list) \in Nat
         /\ spot = Cardinality(DOMAIN f) => Enumerates(Append(list, n), GapMade(f, n, spot))
<1> DEFINE S == DOMAIN f
           N == Cardinality(S)
           T == S \cup {n}
           g == GapMade(f, n, spot)
<1>1. N \in Nat /\ f \in [S -> 0 .. N - 1] /\ n \notin S
  BY NumberIsRank DEF Numbering
<1>2. list \in [1 .. N -> S] /\ \A k \in 1 .. N : f[list[k]] = k - 1
  BY DEF Enumerates
<1>3. list \in Seq(T) /\ Len(list) = N
  BY <1>1, <1>2
<1>4. spot + 1 \in 1 .. (Len(list) + 1) /\ n \in T /\ spot \in 0 .. N
  BY <1>1, <1>3
<1>5. /\ DOMAIN g = T /\ Cardinality(T) = N + 1
      /\ \A m \in T : g[m] = IF m = n THEN spot ELSE IF f[m] < spot THEN f[m] ELSE f[m] + 1
  BY GapMadeNumbers DEF GapMade
<1> HIDE DEF g, T, S
<1>6. ASSUME NEW r, r \in [1 .. (N + 1) -> T],
             \A k \in 1 .. (N + 1) :
               r[k] = IF k < spot + 1 THEN list[k] ELSE IF k = spot + 1 THEN n ELSE list[k - 1]
      PROVE  Enumerates(r, g)
  <2>1. ASSUME NEW k \in 1 .. (N + 1)
        PROVE  g[r[k]] = k - 1
    <3>1. CASE k < spot + 1
      <4>1. k \in 1 .. N /\ r[k] = list[k]
        BY <1>1, <1>4, <1>6, <3>1
      <4>2. f[r[k]] = k - 1 /\ r[k] \in S
        BY <1>2, <4>1
      <4> QED BY <1>1, <1>4, <1>5, <3>1, <4>2 DEF T
    <3>2. CASE k = spot + 1
      BY <1>1, <1>4, <1>5, <1>6, <3>2 DEF T
    <3>3. CASE k > spot + 1
      <4>1. k - 1 \in 1 .. N /\ r[k] = list[k - 1]
        BY <1>1, <1>4, <1>6, <3>3
      <4>2. f[r[k]] = (k - 1) - 1 /\ r[k] \in S
        BY <1>2, <4>1
      <4> QED BY <1>1, <1>4, <1>5, <3>3, <4>2 DEF T
    <3> QED BY <1>1, <1>4, <3>1, <3>2, <3>3
  <2> QED BY <1>5, <1>6, <2>1 DEF Enumerates
<1>7. Enumerates(InsertAt(list, spot + 1, n), g)
  <2>1. /\ InsertAt(list, spot + 1, n) \in [1 .. (N + 1) -> T]
        /\ \A k \in 1 .. (N + 1) : InsertAt(list, spot + 1, n)[k] =
              IF k < spot + 1 THEN list[k] ELSE IF k = spot + 1 THEN n ELSE list[k - 1]
    BY <1>1, <1>3, <1>4, InsertedAt
  <2> QED BY <1>6, <2>1
<1>8. ASSUME spot = N
      PROVE  Enumerates(Append(list, n), g)
  <2>1. /\ Append(list, n) \in [1 .. (N + 1) -> T]
        /\ \A k \in 1 .. (N + 1) : Append(list, n)[k] = IF k <= N THEN list[k] ELSE n
    <3> DEFINE r == Append(list, n)
    <3>1. /\ r \in Seq(T) /\ Len(r) = N + 1
          /\ \A k \in 1 .. N : r[k] = list[k]
          /\ r[N + 1] = n
      BY <1>1, <1>3, <1>4
    <3> HIDE DEF r
    <3>2. r \in [1 .. (N + 1) -> T]
      BY <1>1, <3>1
    <3>3. \A k \in 1 .. (N + 1) : r[k] = IF k <= N THEN list[k] ELSE n
      BY <1>1, <3>1
    <3> QED BY <3>2, <3>3 DEF r
  <2>2. \A k \in 1 .. (N + 1) : Append(list, n)[k] =
              IF k < spot + 1 THEN list[k] ELSE IF k = spot + 1 THEN n ELSE list[k - 1]
    BY <1>1, <1>8, <2>1
  <2> QED BY <1>6, <2>1, <2>2
<1> QED BY <1>1, <1>3, <1>7, <1>8 DEF g, S

\* A list of given numbers is the only one.
LEMMA OneList ==
  ASSUME NEW f, Numbering(f), NEW a, Enumerates(a, f), NEW b, Enumerates(b, f)
  PROVE  a = b
<1> DEFINE S == DOMAIN f
           D == 1 .. Cardinality(S)
<1>1. a \in [D -> S] /\ b \in [D -> S] /\ \A i \in D : f[a[i]] = i - 1 /\ f[b[i]] = i - 1
  BY DEF Enumerates
<1>2. \A x, y \in S : f[x] = f[y] => x = y
  BY DEF Numbering
<1> HIDE DEF S, D
<1>3. \A i \in D : a[i] = b[i]
  BY <1>1, <1>2
<1> QED BY <1>1, <1>3

-----------------------------------------------------------------------------
(* The positions in a table *)

Positions(t, p) == [n \in Children(t, p) |-> t[n].pos]

\* Among the children of every page the positions are 0, 1, 2, ...
Numbered(t) == \A p \in Parents(t) : Numbering(Positions(t, p))

Navigation(t) == [p \in Parents(t) |-> Listed(t, p)]

LEMMA ListedIs ==
  ASSUME NEW t, NEW p, Numbering(Positions(t, p))
  PROVE  Enumerates(Listed(t, p), Positions(t, p))
<1> DEFINE S == Children(t, p)
           N == Cardinality(S)
           f == Positions(t, p)
           at(i) == CHOOSE n \in S : Index(t, S, n) = i - 1
<1>1. DOMAIN f = S /\ \A n \in S : f[n] = t[n].pos
  BY DEF Positions
<1>2. /\ N \in Nat
      /\ \A i \in 0 .. N - 1 : \E x \in S : f[x] = i
      /\ \A y \in S : Cardinality({x \in S : f[x] < f[y]}) = f[y]
  <2> HIDE DEF f, S
  <2> QED BY <1>1, NumberIsRank DEF f
<1>3. ASSUME NEW n \in S
      PROVE  Index(t, S, n) = f[n]
  <2>1. {x \in S : f[x] < f[n]} = {x \in S : t[x].pos < t[n].pos}
    BY <1>1
  <2> QED BY <1>2, <2>1 DEF Index
<1>4. Listed(t, p) = [i \in 1 .. N |-> at(i)]
  BY DEF Listed
<1> HIDE DEF f, S
<1>5. ASSUME NEW i \in 1 .. N
      PROVE  at(i) \in S /\ f[at(i)] = i - 1
  <2>1. i - 1 \in 0 .. N - 1
    BY <1>2
  <2>2. \E n \in S : Index(t, S, n) = i - 1
    BY <1>2, <1>3, <2>1
  <2> QED BY <1>3, <2>2
<1> HIDE DEF at
<1> QED BY <1>1, <1>4, <1>5 DEF Enumerates, f

\* The list of a page is known once the numbers of its children are.
LEMMA ListedBy ==
  ASSUME NEW t, NEW p, NEW f, Positions(t, p) = f, Numbering(f), NEW list, Enumerates(list, f)
  PROVE  Listed(t, p) = list
BY ListedIs, OneList

\* reindexPositions gives the numbers that the order of the keys has.
LEMMA Reindexing ==
  ASSUME NEW t, t \in [DOMAIN t -> Row], NEW key, NEW f, Numbering(f), DOMAIN f = DOMAIN key,
         \A x, y \in DOMAIN key : Precedes(key[x], key[y]) <=> f[x] < f[y]
  PROVE  /\ DOMAIN Reindexed(t, key) = DOMAIN t
         /\ Reindexed(t, key) \in [DOMAIN t -> Row]
         /\ \A n \in DOMAIN t : /\ Reindexed(t, key)[n].parent = t[n].parent
                                /\ Reindexed(t, key)[n].pos = IF n \in DOMAIN key THEN f[n] ELSE t[n].pos
         /\ \A p : Children(Reindexed(t, key), p) = Children(t, p)
<1> DEFINE u == Reindexed(t, key)
           S == DOMAIN key
           rank(n) == Cardinality({m \in S : Precedes(key[m], key[n])})
<1>1. ASSUME NEW n \in S
      PROVE  rank(n) = f[n] /\ f[n] \in Nat
  <2>1. {m \in S : Precedes(key[m], key[n])} = {m \in S : f[m] < f[n]}
    OBVIOUS
  <2>2. Cardinality({m \in S : f[m] < f[n]}) = f[n]
    BY NumberIsRank
  <2>3. f[n] \in Nat
    BY DEF Numbering
  <2> QED BY <2>1, <2>2, <2>3
<1>2. u = [n \in DOMAIN t |-> IF n \in S THEN [t[n] EXCEPT !.pos = rank(n)] ELSE t[n]]
  BY DEF Reindexed
<1> HIDE DEF u, rank, S
<1>3. ASSUME NEW n \in DOMAIN t
      PROVE  /\ u[n] \in Row /\ u[n].parent = t[n].parent
             /\ u[n].pos = IF n \in S THEN f[n] ELSE t[n].pos
  <2>1. t[n] \in Row
    OBVIOUS
  <2>2. u[n] = IF n \in S THEN [t[n] EXCEPT !.pos = f[n]] ELSE t[n]
    BY <1>1, <1>2
  <2> QED BY <1>1, <2>1, <2>2 DEF Row
<1>4. DOMAIN u = DOMAIN t /\ u = [n \in DOMAIN t |-> u[n]]
  BY <1>2
<1>5. u \in [DOMAIN t -> Row]
  BY <1>3, <1>4
<1>6. \A p : Children(u, p) = Children(t, p)
  BY <1>3, <1>4 DEF Children
<1> QED BY <1>3, <1>4, <1>5, <1>6 DEF u, S

LEMMA Renumbering ==
  ASSUME NEW t, t \in [DOMAIN t -> Row], NEW p, NEW f, Numbering(f), DOMAIN f = Children(t, p),
         \A x, y \in Children(t, p) : t[x].pos < t[y].pos <=> f[x] < f[y]
  PROVE  /\ DOMAIN Renumbered(t, p) = DOMAIN t
         /\ \A q : Children(Renumbered(t, p), q) = Children(t, q)
         /\ Positions(Renumbered(t, p), p) = f
         /\ \A q : q # p => Positions(Renumbered(t, p), q) = Positions(t, q)
<1> DEFINE key == ByPosition(t, p)
           u == Reindexed(t, key)
<1>1. DOMAIN key = Children(t, p) /\ \A n \in Children(t, p) : key[n] = <<t[n].pos, 0>>
  BY DEF ByPosition
<1>2. \A n \in Children(t, p) : n \in DOMAIN t /\ t[n].pos \in Nat
  BY DEF Children, Row
<1> HIDE DEF key
<1>3. \A x, y \in DOMAIN key : Precedes(key[x], key[y]) <=> f[x] < f[y]
  <2> SUFFICES ASSUME NEW x \in Children(t, p), NEW y \in Children(t, p)
               PROVE  Precedes(<<t[x].pos, 0>>, <<t[y].pos, 0>>) <=> f[x] < f[y]
    BY <1>1
  <2> QED BY DEF Precedes
<1>4. /\ DOMAIN u = DOMAIN t
      /\ \A n \in DOMAIN t : u[n].pos = IF n \in DOMAIN key THEN f[n] ELSE t[n].pos
      /\ \A q : Children(u, q) = Children(t, q)
  BY <1>1, <1>3, Reindexing
<1> HIDE DEF u
<1>5. Positions(u, p) = f
  <2>1. f = [n \in Children(t, p) |-> f[n]]
    BY DEF Numbering
  <2> QED BY <1>1, <1>2, <1>4, <2>1 DEF Positions
<1>6. ASSUME NEW q, q # p
      PROVE  Positions(u, q) = Positions(t, q)
  BY <1>1, <1>4, <1>6 DEF Positions, Children
<1> QED BY <1>4, <1>5, <1>6 DEF u, key, Renumbered

\* A table that is as another but in slugs and kinds has the same lists.
LEMMA SameOrder ==
  ASSUME NEW t, Numbered(t), NEW u, DOMAIN u = DOMAIN t,
         \A n \in DOMAIN t : u[n].parent = t[n].parent /\ u[n].pos = t[n].pos
  PROVE  Numbered(u) /\ Navigation(u) = Navigation(t) /\ \A p : Positions(u, p) = Positions(t, p)
<1>1. /\ Parents(u) = Parents(t)
      /\ \A p : Children(u, p) = Children(t, p) /\ Positions(u, p) = Positions(t, p)
  BY DEF Parents, Children, Positions
<1>2. Numbered(u)
  BY <1>1 DEF Numbered
<1>3. ASSUME NEW p \in Parents(t)
      PROVE  Listed(u, p) = Listed(t, p)
  <2>1. Enumerates(Listed(t, p), Positions(t, p))
    BY ListedIs DEF Numbered
  <2> QED BY <1>1, <2>1, ListedBy DEF Numbered
<1> QED BY <1>1, <1>2, <1>3 DEF Navigation

\* createNodeLocked: the new page is the last child, and has none.
LEMMA AddedOrder ==
  ASSUME NEW t, Good(t), Numbered(t), NEW n \in Id \ DOMAIN t, NEW p \in Parents(t),
         NEW s \in Slug, NEW k \in Kind
  PROVE  /\ Numbered(Added(t, n, p, s, k))
         /\ n \notin Parents(t) /\ Parents(Added(t, n, p, s, k)) = Parents(t) \cup {n}
         /\ Navigation(Added(t, n, p, s, k)) = Ordered!WithLast(Navigation(t), p, n)
<1> DEFINE u == Added(t, n, p, s, k)
           N == Cardinality(Children(t, p))
           f == Positions(t, p)
           g == GapMade(f, n, N)
<1>1. n \notin Parents(t) /\ n # p
  BY PageTreeAssumption DEF Parents
<1>2. /\ DOMAIN u = DOMAIN t \cup {n}
      /\ u[n] = [parent |-> p, slug |-> s, kind |-> k, pos |-> N]
      /\ \A m \in DOMAIN t : u[m] = AsSection(t, p)[m]
  BY DEF Added
<1>3. u[n].parent = p /\ u[n].pos = N
  BY <1>2
<1>4. ASSUME NEW m \in DOMAIN t
      PROVE  u[m].parent = t[m].parent /\ u[m].pos = t[m].pos
  <2>1. t[m] \in Row
    BY DEF Good, Typed
  <2>2. u[m] = IF m = p THEN [t[m] EXCEPT !.kind = "section"] ELSE t[m]
    BY <1>2 DEF AsSection
  <2> QED BY <2>1, <2>2 DEF Row
<1> HIDE DEF u
<1>5. /\ Parents(u) = Parents(t) \cup {n}
      /\ Children(u, n) = {} /\ Children(u, p) = Children(t, p) \cup {n}
      /\ \A q : q # p /\ q # n => Children(u, q) = Children(t, q)
  BY <1>1, <1>2, <1>3, <1>4 DEF Parents, Children, Good, Typed
<1>6. Numbering(f) /\ DOMAIN f = Children(t, p) /\ N \in Nat /\ n \notin DOMAIN f
  BY <1>1, NumberIsRank DEF Numbered, Positions, Children, Parents
<1>7. Positions(u, p) = g
  <2>1. \A m \in Children(t, p) : m # n /\ f[m] = t[m].pos /\ f[m] < N /\ u[m].pos = t[m].pos
    <3>1. \A m \in Children(t, p) : f[m] \in 0 .. N - 1
      BY <1>6 DEF Numbering
    <3>2. \A m \in Children(t, p) : m \in DOMAIN t /\ m # n
      BY <1>1 DEF Children, Parents
    <3>3. \A m \in Children(t, p) : f[m] = t[m].pos
      BY DEF Positions
    <3> HIDE DEF f
    <3>4. \A m \in Children(t, p) : f[m] < N
      BY <1>6, <3>1
    <3> QED BY <1>4, <3>2, <3>3, <3>4
  <2> HIDE DEF f
  <2> QED BY <1>3, <1>5, <1>6, <2>1 DEF Positions, GapMade
<1>8. Numbering(g)
  <2> HIDE DEF f
  <2>1. N \in 0 .. Cardinality(DOMAIN f)
    BY <1>6
  <2> QED BY <1>6, <2>1, GapMadeNumbers
<1>9. ASSUME NEW q, q # p, q # n
      PROVE  Positions(u, q) = Positions(t, q)
  BY <1>4, <1>5, <1>9 DEF Positions, Children
<1>10. Positions(u, n) = <<>> /\ Numbering(<<>>) /\ Enumerates(<<>>, <<>>)
  <2>1. DOMAIN <<>> = {} /\ <<>> = [m \in {} |-> 0] /\ IsFiniteSet({}) /\ Cardinality({}) = 0 /\ 1 .. 0 = {}
    BY FS_EmptySet
  <2>2. Positions(u, n) = [m \in {} |-> u[m].pos]
    BY <1>5 DEF Positions
  <2>3. Positions(u, n) = <<>>
    BY <2>2
  <2> QED BY <2>1, <2>3 DEF Numbering, Enumerates
<1>11. Numbered(u)
  BY <1>5, <1>7, <1>8, <1>9, <1>10 DEF Numbered
<1>12. Listed(u, n) = <<>>
  BY <1>10, ListedBy
<1>13. Listed(u, p) = Append(Listed(t, p), n)
  <2>1. Enumerates(Listed(t, p), f)
    BY <1>6, ListedIs
  <2>2. N \in 0 .. Cardinality(DOMAIN f) /\ N = Cardinality(DOMAIN f)
    BY <1>6
  <2> HIDE DEF f, N
  <2>3. Enumerates(Append(Listed(t, p), n), g)
    BY <1>6, <2>1, <2>2, InsertEnumerates
  <2> HIDE DEF g
  <2> QED BY <1>7, <1>8, <2>3, ListedBy
<1>14. ASSUME NEW q \in Parents(t), q # p
       PROVE  Listed(u, q) = Listed(t, q)
  <2>1. Enumerates(Listed(t, q), Positions(t, q)) /\ Positions(u, q) = Positions(t, q)
    BY <1>1, <1>9, <1>14, ListedIs DEF Numbered
  <2> QED BY <2>1, ListedBy DEF Numbered
<1>15. Navigation(u) = Ordered!WithLast(Navigation(t), p, n)
  <2> DEFINE v == Navigation(u)
             w == Ordered!WithLast(Navigation(t), p, n)
  <2>1. /\ v = [q \in Parents(t) \cup {n} |-> Listed(u, q)]
        /\ w = [q \in Parents(t) \cup {n} |->
                 IF q = n THEN <<>> ELSE IF q = p THEN Append(Listed(t, q), n) ELSE Listed(t, q)]
    BY <1>1, <1>5 DEF Navigation, Ordered!WithLast
  <2> QED BY <1>1, <1>12, <1>13, <1>14, <2>1
<1> QED BY <1>1, <1>5, <1>11, <1>15 DEF u

\* Taking n, and what goes with it, out of the children of a page
LEMMA ClosedOrder ==
  ASSUME NEW t, Typed(t), NEW n, NEW p, Numbering(Positions(t, p)), n \in Children(t, p),
         NEW u, Positions(u, p) = GapClosed(Positions(t, p), n)
  PROVE  Numbering(Positions(u, p)) /\ Listed(u, p) = Ordered!Without(Listed(t, p), n)
<1> DEFINE f == Positions(t, p)
<1>1. Numbering(f) /\ n \in DOMAIN f /\ Enumerates(Listed(t, p), f)
  BY ListedIs DEF Positions
<1> HIDE DEF f
<1>2. Numbering(GapClosed(f, n)) /\ Enumerates(Ordered!Without(Listed(t, p), n), GapClosed(f, n))
  BY <1>1, GapClosedNumbers, WithoutEnumerates
<1> QED BY <1>2, ListedBy DEF f

\* A page that is not in a list is not missed there.
LEMMA NothingTaken ==
  ASSUME NEW t, NEW n, NEW p, Numbering(Positions(t, p)), n \notin Children(t, p)
  PROVE  Ordered!Without(Listed(t, p), n) = Listed(t, p)
<1>1. Enumerates(Listed(t, p), Positions(t, p))
  BY ListedIs
<1>2. n \notin Ordered!ToSet(Listed(t, p))
  BY <1>1 DEF Enumerates, Positions, Ordered!ToSet
<1> QED BY <1>2 DEF Ordered!Without

\* DeleteNode: the rows of the subtree go, and the siblings behind close the gap.
LEMMA DeletedOrder ==
  ASSUME NEW t, Good(t), Numbered(t), NEW n \in DOMAIN t,
         NEW X, X = {n} \cup Below(t, n), NEW u, u = Renumbered(Removed(t, X), t[n].parent)
  PROVE  /\ Numbered(u)
         /\ Navigation(u) = [q \in Parents(t) \ X |-> Ordered!Without(Navigation(t)[q], n)]
<1> DEFINE v == Removed(t, X)
           o == t[n].parent
           f == Positions(t, o)
<1>1. /\ DOMAIN v = DOMAIN t \ X /\ \A m \in DOMAIN v : v[m] = t[m]
      /\ v \in [DOMAIN v -> Row]
  BY DEF Removed, Good, Typed
<1>2. n # Root /\ Root \notin X /\ n \in X
  BY PageTreeAssumption DEF Good, Typed, Below
\* What is below n, but not n, hangs below what is removed.
<1>3. \A m \in X \ {n} : t[m].parent \in X
  <2> SUFFICES ASSUME NEW m \in X \ {n}, t[m].parent \notin X
               PROVE  FALSE
    OBVIOUS
  <2> DEFINE S == Below(t, n) \ {m}
  <2>1. m \in Below(t, n) /\ S \in SUBSET DOMAIN t
    BY DEF Below
  <2>2. Children(t, n) \subseteq S
    BY BelowIsClosed DEF Children
  <2>3. ClosedIn(t, S)
    BY BelowIsClosed DEF ClosedIn, Children
  <2>4. m \in S
    <3> HIDE DEF S
    <3> QED BY <2>1, <2>2, <2>3 DEF Below
  <2> QED BY <2>4
<1>4. ASSUME NEW q, q \notin X
      PROVE  Children(v, q) = Children(t, q) \ {n}
  <2> HIDE DEF v
  <2>1. ASSUME NEW m \in Children(v, q)
        PROVE  m \in Children(t, q) \ {n}
    BY <1>1, <1>2, <2>1 DEF Children
  <2>2. ASSUME NEW m \in Children(t, q) \ {n}
        PROVE  m \in Children(v, q)
    BY <1>1, <1>3, <1>4, <2>2 DEF Children
  <2> QED BY <2>1, <2>2
<1>5. n \in Children(t, o) /\ \A q : q # o => n \notin Children(t, q)
  BY DEF Children
<1>6. o \in Parents(t) /\ Numbering(f) /\ DOMAIN f = Children(t, o) /\ \A m \in Children(t, o) : f[m] = t[m].pos
  BY DEF Good, Typed, Numbered, Positions
\* What hung below a page that was removed went with it.
<1>7. o \in X => Children(v, o) = {}
  BY <1>1, FamilyIsClosed DEF Children
<1> HIDE DEF v, o, f
<1> DEFINE g == IF o \in X THEN [m \in {} |-> 0] ELSE GapClosed(f, n)
<1>8. /\ Numbering(g) /\ DOMAIN g = Children(v, o)
      /\ \A x, y \in Children(v, o) : v[x].pos < v[y].pos <=> g[x] < g[y]
  <2>1. CASE o \in X
    <3>1. IsFiniteSet({}) /\ g = [m \in {} |-> 0]
      BY <2>1, FS_EmptySet
    <3> QED BY <1>7, <2>1, <3>1 DEF Numbering
  <2>2. CASE o \notin X
    <3>1. /\ Numbering(g) /\ DOMAIN g = Children(t, o) \ {n}
          /\ \A x, y \in Children(t, o) \ {n} : g[x] < g[y] <=> f[x] < f[y]
      BY <1>5, <1>6, <2>2, GapClosedNumbers
    <3>2. \A x \in Children(v, o) : v[x] = t[x] /\ x \in Children(t, o) \ {n}
      BY <1>1, <1>4, <2>2 DEF Children
    <3> HIDE DEF g
    <3> QED BY <1>4, <1>6, <2>2, <3>1, <3>2
  <2> QED BY <2>1, <2>2
<1>9. /\ DOMAIN u = DOMAIN v /\ \A q : Children(u, q) = Children(v, q)
      /\ Positions(u, o) = g
      /\ \A q : q # o => Positions(u, q) = Positions(v, q)
  <2> HIDE DEF g
  <2> QED BY <1>1, <1>8, Renumbering DEF v, o
<1>10. Parents(u) = Parents(t) \ X
  BY <1>1, <1>2, <1>9 DEF Parents
<1>11. ASSUME NEW q \in Parents(t) \ X
       PROVE  Numbering(Positions(u, q)) /\ Listed(u, q) = Ordered!Without(Listed(t, q), n)
  <2>1. CASE q = o
    BY <1>5, <1>6, <1>9, <1>11, <2>1, ClosedOrder DEF f, Good
  <2>2. CASE q # o
    <3>1. Children(v, q) = Children(t, q)
      BY <1>4, <1>5, <1>11, <2>2
    <3>2. Positions(v, q) = Positions(t, q)
      BY <1>1, <3>1 DEF Positions, Children
    <3>3. Positions(u, q) = Positions(t, q) /\ Numbering(Positions(t, q))
      BY <1>9, <2>2, <3>2 DEF Numbered
    <3>4. Listed(u, q) = Listed(t, q)
      BY <3>3, ListedIs, ListedBy
    <3> QED BY <1>5, <2>2, <3>3, <3>4, NothingTaken
  <2> QED BY <2>1, <2>2
<1> QED BY <1>10, <1>11 DEF Numbered, Navigation

\* MoveNodeToPosition up to the numbering of the new siblings
LEMMA RelinkedTable ==
  ASSUME NEW t, Good(t), NEW n \in DOMAIN t, NEW p \in Parents(t)
  PROVE  /\ DOMAIN Relinked(t, n, p) = DOMAIN t /\ Relinked(t, n, p) \in [DOMAIN t -> Row]
         /\ \A m \in DOMAIN t : /\ Relinked(t, n, p)[m].pos = t[m].pos
                                /\ Relinked(t, n, p)[m].parent = IF m = n THEN p ELSE t[m].parent
         /\ Children(Relinked(t, n, p), p) = (Children(t, p) \ {n}) \cup {n}
         /\ \A q : q # p => Children(Relinked(t, n, p), q) = Children(t, q) \ {n}
<1> DEFINE v == AsSection(t, p)
           u == Relinked(t, n, p)
<1>1. ASSUME NEW m \in DOMAIN t
      PROVE  v[m] \in Row /\ v[m].parent = t[m].parent /\ v[m].pos = t[m].pos
  <2>1. t[m] \in Row
    BY DEF Good, Typed
  <2>2. v[m] = IF m = p THEN [t[m] EXCEPT !.kind = "section"] ELSE t[m]
    BY DEF AsSection
  <2> HIDE DEF v
  <2> QED BY <2>1, <2>2 DEF Row, Kind
<1>2. DOMAIN v = DOMAIN t /\ v = [m \in DOMAIN t |-> v[m]]
  BY DEF AsSection
<1>3. u = [v EXCEPT ![n] = [v[n] EXCEPT !.parent = p]]
  BY DEF Relinked
<1>4. p \in Id \cup {Root}
  BY DEF Parents, Good, Typed
<1> HIDE DEF u, v
<1>5. DOMAIN u = DOMAIN t /\ u = [m \in DOMAIN t |-> u[m]]
  BY <1>2, <1>3
<1>6. ASSUME NEW m \in DOMAIN t
      PROVE  u[m] \in Row /\ u[m].pos = t[m].pos /\ u[m].parent = IF m = n THEN p ELSE t[m].parent
  <2>1. u[m] = IF m = n THEN [v[m] EXCEPT !.parent = p] ELSE v[m]
    BY <1>2, <1>3
  <2> QED BY <1>1, <1>4, <2>1 DEF Row
<1>7. u \in [DOMAIN t -> Row]
  BY <1>5, <1>6
<1>8. Children(u, p) = (Children(t, p) \ {n}) \cup {n}
  BY <1>5, <1>6 DEF Children
<1>9. ASSUME NEW q, q # p
      PROVE  Children(u, q) = Children(t, q) \ {n}
  BY <1>5, <1>6, <1>9 DEF Children
<1> QED BY <1>5, <1>6, <1>7, <1>8, <1>9 DEF u

\* What MoveNodeToPosition gives its key
Shifted(i, spot) == IF i < spot THEN i ELSE i + 1

\* The other children of p, and where a page is put among them
Others(n, p) == Ordered!Without(Listed(page, p), n)
Spot(at, list) == IF at \in 0 .. Len(list) THEN at ELSE Len(list)

\* MoveNodeToPosition, with or without a change of the parent
LEMMA MovedOrder ==
  ASSUME Good(page), Numbered(page), NEW n \in DOMAIN page, NEW p \in Parents(page), NEW at
  PROVE  /\ DOMAIN Relocated(n, p, at) = DOMAIN page /\ Numbered(Relocated(n, p, at))
         /\ Listed(Relocated(n, p, at), p) = InsertAt(Others(n, p), Spot(at, Others(n, p)) + 1, n)
         /\ \A q \in Parents(page) : q # p => Listed(Relocated(n, p, at), q) = Others(n, q)
<1> DEFINE u == Relocated(n, p, at)
           rest == Others(n, p)
           spot == Spot(at, rest)
<1>0. /\ u = Relocated(n, p, at) /\ rest = Ordered!Without(Listed(page, p), n)
      /\ spot = IF at \in 0 .. Len(rest) THEN at ELSE Len(rest)
  BY DEF Others, Spot
<1> HIDE DEF u, rest, spot
<1> DEFINE R == Children(page, p) \ {n}
           o == page[n].parent
           f == Positions(page, p)
           g == IF o = p THEN GapClosed(f, n) ELSE f
           h == GapMade(g, n, spot)
           size == Cardinality(R)
           key == InsertionKey(page, p, n, spot)
           v == Relinked(page, n, p)
           w == Reindexed(v, key)
<1>1. /\ Numbering(f) /\ DOMAIN f = Children(page, p) /\ Enumerates(Listed(page, p), f)
      /\ \A m \in Children(page, p) : f[m] = page[m].pos /\ m \in DOMAIN page
  BY ListedIs DEF Numbered, Positions, Children
<1>2. \A m \in DOMAIN page : page[m].pos \in Nat
  BY DEF Good, Typed, Row
<1>3. o = p <=> n \in Children(page, p)
  BY DEF Children
<1> HIDE DEF f
\* The numbers of the new siblings without n
<1>4. /\ Numbering(g) /\ DOMAIN g = R /\ Enumerates(rest, g)
      /\ \A x, y \in R : g[x] < g[y] <=> page[x].pos < page[y].pos
      /\ \A x \in R : page[x].pos = g[x] \/ page[x].pos = g[x] + 1
  <2>1. CASE o = p
    <3>1. /\ Numbering(g) /\ DOMAIN g = R /\ Enumerates(rest, g)
          /\ \A x, y \in R : g[x] < g[y] <=> f[x] < f[y]
      BY <1>0, <1>1, <1>3, <2>1, GapClosedNumbers, WithoutEnumerates
    <3>2. \A x \in R : g[x] = IF f[x] < f[n] THEN f[x] ELSE f[x] - 1
      BY <1>1, <2>1 DEF GapClosed
    <3> HIDE DEF g
    <3> QED BY <1>1, <1>2, <3>1, <3>2
  <2>2. CASE o # p
    <3>1. g = f /\ R = Children(page, p)
      BY <1>3, <2>2
    <3>2. rest = Listed(page, p)
      BY <1>0, <1>1, <1>3, <2>2, NothingTaken DEF f
    <3> HIDE DEF g, R
    <3> QED BY <1>1, <3>1, <3>2
  <2> QED BY <2>1, <2>2
<1>5. Len(rest) = size /\ size \in Nat /\ spot \in 0 .. size /\ spot \in Nat
  <2>1. size \in Nat
    BY <1>4, NumberIsRank
  <2>2. rest \in [1 .. size -> R]
    BY <1>4 DEF Enumerates
  <2> HIDE DEF size, R
  <2>3. Len(rest) = size
    BY <2>1, <2>2
  <2> QED BY <1>0, <2>1, <2>3
<1> HIDE DEF g
<1>6. Numbering(h) /\ DOMAIN h = R \cup {n} /\ Enumerates(InsertAt(rest, spot + 1, n), h)
  <2>1. n \notin DOMAIN g /\ spot \in 0 .. Cardinality(DOMAIN g)
    BY <1>4, <1>5
  <2> QED BY <1>4, <2>1, GapMadeNumbers, InsertEnumerates
\* The index in the slice is the number.
<1>7. ASSUME NEW m \in R
      PROVE  Index(page, R, m) = g[m] /\ g[m] \in Nat
  <2>1. {x \in R : page[x].pos < page[m].pos} = {x \in R : g[x] < g[m]}
    BY <1>4
  <2>2. Cardinality({x \in R : g[x] < g[m]}) = g[m]
    BY <1>4, <1>7, NumberIsRank
  <2>3. g[m] \in Nat
    BY <1>4, <1>7 DEF Numbering
  <2> QED BY <2>1, <2>2, <2>3 DEF Index
<1>8. /\ DOMAIN key = R \cup {n} /\ key[n] = <<spot, spot>>
      /\ \A m \in R : key[m] = <<page[m].pos, Shifted(g[m], spot)>>
  <2>1. key = [m \in R \cup {n} |-> IF m = n THEN <<spot, spot>>
                 ELSE <<page[m].pos, IF Index(page, R, m) < spot THEN Index(page, R, m) ELSE Index(page, R, m) + 1>>]
    BY DEF InsertionKey
  <2> HIDE DEF key
  <2> QED BY <1>7, <2>1 DEF Shifted
<1>9. h[n] = spot /\ \A m \in R : h[m] = Shifted(g[m], spot)
  BY <1>4 DEF GapMade, Shifted
<1> HIDE DEF key, h
\* The sort of the keys: a sibling before the spot precedes the page and one behind it follows,
\* although within one list its position may be its index or one more.
<1>10. ASSUME NEW x \in DOMAIN key, NEW y \in DOMAIN key
       PROVE  Precedes(key[x], key[y]) <=> h[x] < h[y]
  <2>1. CASE x \in R /\ y \in R
    <3>1. /\ g[x] \in Nat /\ g[y] \in Nat /\ page[x].pos \in Nat /\ page[y].pos \in Nat
          /\ page[x].pos = g[x] \/ page[x].pos = g[x] + 1
          /\ page[y].pos = g[y] \/ page[y].pos = g[y] + 1
          /\ g[x] < g[y] <=> page[x].pos < page[y].pos
      BY <1>1, <1>2, <1>4, <1>7, <2>1
    <3>2. key[x] = <<page[x].pos, Shifted(g[x], spot)>> /\ key[y] = <<page[y].pos, Shifted(g[y], spot)>>
      BY <1>8, <2>1
    <3>3. h[x] = Shifted(g[x], spot) /\ h[y] = Shifted(g[y], spot)
      BY <1>9, <2>1
    <3>4. Precedes(<<page[x].pos, Shifted(g[x], spot)>>, <<page[y].pos, Shifted(g[y], spot)>>)
             <=> Shifted(g[x], spot) < Shifted(g[y], spot)
      BY <1>5, <3>1 DEF Precedes, Shifted
    <3> QED BY <3>2, <3>3, <3>4
  <2>2. CASE x \in R /\ y = n
    <3>1. /\ g[x] \in Nat /\ page[x].pos \in Nat
          /\ page[x].pos = g[x] \/ page[x].pos = g[x] + 1
      BY <1>1, <1>2, <1>4, <1>7, <2>2
    <3>2. key[x] = <<page[x].pos, Shifted(g[x], spot)>> /\ key[y] = <<spot, spot>>
      BY <1>8, <2>2
    <3>3. h[x] = Shifted(g[x], spot) /\ h[y] = spot
      BY <1>9, <2>2
    <3>4. Precedes(<<page[x].pos, Shifted(g[x], spot)>>, <<spot, spot>>) <=> Shifted(g[x], spot) < spot
      BY <1>5, <3>1 DEF Precedes, Shifted
    <3> QED BY <3>2, <3>3, <3>4
  <2>3. CASE x = n /\ y \in R
    <3>1. /\ g[y] \in Nat /\ page[y].pos \in Nat
          /\ page[y].pos = g[y] \/ page[y].pos = g[y] + 1
      BY <1>1, <1>2, <1>4, <1>7, <2>3
    <3>2. key[y] = <<page[y].pos, Shifted(g[y], spot)>> /\ key[x] = <<spot, spot>>
      BY <1>8, <2>3
    <3>3. h[y] = Shifted(g[y], spot) /\ h[x] = spot
      BY <1>9, <2>3
    <3>4. Precedes(<<spot, spot>>, <<page[y].pos, Shifted(g[y], spot)>>) <=> spot < Shifted(g[y], spot)
      BY <1>5, <3>1 DEF Precedes, Shifted
    <3> QED BY <3>2, <3>3, <3>4
  <2>4. CASE x = n /\ y = n
    BY <1>5, <1>8, <1>9, <2>4 DEF Precedes
  <2> QED BY <1>8, <2>1, <2>2, <2>3, <2>4
<1>11. /\ DOMAIN v = DOMAIN page /\ v \in [DOMAIN page -> Row]
       /\ \A m \in DOMAIN page : v[m].pos = page[m].pos
       /\ Children(v, p) = R \cup {n} /\ \A q : q # p => Children(v, q) = Children(page, q) \ {n}
  BY RelinkedTable
<1> HIDE DEF v
<1>12. /\ DOMAIN w = DOMAIN page /\ w \in [DOMAIN page -> Row]
       /\ \A m \in DOMAIN page : w[m].pos = IF m \in DOMAIN key THEN h[m] ELSE page[m].pos
       /\ \A q : Children(w, q) = Children(v, q)
  BY <1>6, <1>8, <1>10, <1>11, Reindexing
<1>13. u = Renumbered(w, o)
  BY <1>0, <1>5 DEF Relocated, w, key, v
<1> HIDE DEF w, R
<1>14. \A m \in Children(w, p) : w[m].pos = h[m]
  BY <1>8, <1>11, <1>12 DEF Children
<1>15. Positions(w, p) = h
  <2>1. h = [m \in R \cup {n} |-> h[m]]
    BY <1>6 DEF Numbering
  <2> QED BY <1>11, <1>12, <1>14, <2>1 DEF Positions
<1>16. ASSUME NEW q, q # p
       PROVE  /\ Children(w, q) = Children(page, q) \ {n}
              /\ \A m \in Children(w, q) : w[m].pos = page[m].pos
  <2>1. Children(w, q) = Children(page, q) \ {n}
    BY <1>11, <1>12, <1>16
  <2>2. \A m \in Children(w, q) : m \in DOMAIN page /\ m \notin DOMAIN key
    BY <1>8, <1>16, <2>1 DEF Children, R
  <2> QED BY <1>12, <2>1, <2>2
<1>17. n \in Children(page, o) /\ \A q : q # o => n \notin Children(page, q)
  BY DEF Children
<1> DEFINE e == IF o = p THEN h ELSE GapClosed(Positions(page, o), n)
<1>18. /\ Numbering(e) /\ DOMAIN e = Children(w, o)
       /\ \A x, y \in Children(w, o) : w[x].pos < w[y].pos <=> e[x] < e[y]
  <2>1. CASE o = p
    <3>1. e = h
      BY <2>1
    <3> HIDE DEF e
    <3> QED BY <1>6, <1>11, <1>12, <1>14, <2>1, <3>1
  <2>2. CASE o # p
    <3> DEFINE d == Positions(page, o)
    <3>1. /\ Numbering(d) /\ DOMAIN d = Children(page, o) /\ n \in DOMAIN d
          /\ \A m \in Children(page, o) : d[m] = page[m].pos
      BY <1>17 DEF Numbered, Positions, Good, Typed
    <3>2. e = GapClosed(d, n)
      BY <2>2
    <3> HIDE DEF d, e
    <3>3. /\ Numbering(e) /\ DOMAIN e = Children(page, o) \ {n}
          /\ \A x, y \in Children(page, o) \ {n} : e[x] < e[y] <=> d[x] < d[y]
      BY <3>1, <3>2, GapClosedNumbers
    <3> HIDE DEF o
    <3> QED BY <1>16, <2>2, <3>1, <3>3
  <2> QED BY <2>1, <2>2
<1>19. /\ DOMAIN u = DOMAIN w /\ Positions(u, o) = e
       /\ \A q : q # o => Positions(u, q) = Positions(w, q)
  <2> HIDE DEF e, o
  <2> QED BY <1>12, <1>13, <1>18, Renumbering
<1>20. Positions(u, p) = h
  BY <1>15, <1>19
<1>21. Listed(u, p) = InsertAt(rest, spot + 1, n)
  BY <1>6, <1>20, ListedBy
<1>22. ASSUME NEW q \in Parents(page), q # p
       PROVE  /\ Numbering(Positions(u, q))
              /\ Listed(u, q) = Ordered!Without(Listed(page, q), n)
  <2>1. CASE q = o
    <3>1. Positions(u, q) = GapClosed(Positions(page, q), n) /\ Numbering(Positions(page, q)) /\ n \in Children(page, q)
      BY <1>17, <1>19, <1>22, <2>1 DEF Numbered
    <3> QED BY <3>1, ClosedOrder DEF Good
  <2>2. CASE q # o
    <3>1. n \notin Children(page, q)
      BY <1>17, <2>2
    <3>2. Positions(u, q) = Positions(page, q) /\ Numbering(Positions(page, q))
      <4>1. Children(w, q) = Children(page, q) /\ \A m \in Children(page, q) : w[m].pos = page[m].pos
        BY <1>16, <1>22, <3>1
      <4>2. Positions(w, q) = Positions(page, q)
        BY <4>1 DEF Positions
      <4>3. Positions(u, q) = Positions(w, q)
        BY <1>19, <2>2
      <4> QED BY <1>22, <4>2, <4>3 DEF Numbered
    <3>3. Listed(u, q) = Listed(page, q)
      BY <3>2, ListedIs, ListedBy
    <3> QED BY <3>1, <3>2, <3>3, NothingTaken
  <2> QED BY <2>1, <2>2
<1>23. Numbered(u) /\ DOMAIN u = DOMAIN page
  <2>1. DOMAIN u = DOMAIN page
    BY <1>12, <1>19
  <2>2. Parents(u) = Parents(page)
    BY <2>1 DEF Parents
  <2>3. Numbering(Positions(u, p))
    BY <1>6, <1>20
  <2> QED BY <1>22, <2>1, <2>2, <2>3 DEF Numbered
<1> QED BY <1>21, <1>22, <1>23 DEF u, rest, spot, Others

\* SortPages: the positions are those the client gave.
LEMMA SortedOrder ==
  ASSUME TreeInv, Numbered(page), NEW p, NEW order, SortPages(p, order)
  PROVE  /\ Numbered(page') /\ p \in Parents(page) /\ DOMAIN page' = DOMAIN page
         /\ Enumerates(Listed(page', p), Positions(page', p)) /\ DOMAIN Positions(page', p) = Children(page, p)
         /\ \A q \in Parents(page) : q # p => Listed(page', q) = Listed(page, q)
<1> DEFINE u == page'
           S == Children(page, p)
           N == Cardinality(S)
<1>1. u = [n \in DOMAIN page |-> IF n \in S THEN [page[n] EXCEPT !.pos = order[n]] ELSE page[n]]
  BY DEF SortPages, Live
<1>2. /\ p \in Parents(page) /\ order \in [S -> 0 .. N - 1] /\ IsFiniteSet(S)
      /\ \A m, n \in S : order[m] = order[n] => m = n
  BY ChildrenAreFinite DEF SortPages, TreeInv, Good
<1> HIDE DEF u
<1>3. ASSUME NEW n \in DOMAIN page
      PROVE  u[n].parent = page[n].parent /\ u[n].pos = IF n \in S THEN order[n] ELSE page[n].pos
  <2>1. page[n] \in Row
    BY DEF TreeInv, Good, Typed
  <2> HIDE DEF S
  <2>2. u[n] = IF n \in S THEN [page[n] EXCEPT !.pos = order[n]] ELSE page[n]
    BY <1>1
  <2> QED BY <2>1, <2>2 DEF Row
<1>4. DOMAIN u = DOMAIN page /\ Parents(u) = Parents(page)
  BY <1>1 DEF Parents
<1>5. \A q : Children(u, q) = Children(page, q)
  BY <1>3, <1>4 DEF Children
<1>6. Positions(u, p) = order
  <2>1. \A n \in S : n \in DOMAIN page /\ u[n].pos = order[n]
    BY <1>3 DEF Children
  <2> HIDE DEF S
  <2> QED BY <1>2, <1>5, <2>1 DEF Positions, S
<1>7. Numbering(order) /\ DOMAIN order = S
  BY <1>2 DEF Numbering
<1>8. ASSUME NEW q \in Parents(page), q # p
      PROVE  Numbering(Positions(u, q)) /\ Listed(u, q) = Listed(page, q)
  <2>1. Positions(u, q) = Positions(page, q)
    BY <1>3, <1>5, <1>8 DEF Positions, Children
  <2> QED BY <2>1, ListedIs, ListedBy DEF Numbered
<1>9. Numbered(u)
  BY <1>4, <1>6, <1>7, <1>8 DEF Numbered
<1>10. Enumerates(Listed(u, p), Positions(u, p))
  BY <1>6, <1>7, ListedIs
<1> QED BY <1>2, <1>4, <1>6, <1>7, <1>8, <1>9, <1>10 DEF u

-----------------------------------------------------------------------------
(* The lists and the table *)

LEMMA MembersAre ==
  ASSUME NEW f, Numbering(f), NEW list, Enumerates(list, f)
  PROVE  Ordered!ToSet(list) = DOMAIN f
<1> DEFINE S == DOMAIN f
           N == Cardinality(S)
<1>1. N \in Nat /\ f \in [S -> 0 .. N - 1] /\ \A x, y \in S : f[x] = f[y] => x = y
  BY NumberIsRank DEF Numbering
<1>2. list \in [1 .. N -> S] /\ \A i \in 1 .. N : f[list[i]] = i - 1
  BY DEF Enumerates
<1> HIDE DEF S
<1>3. ASSUME NEW x \in S
      PROVE  \E i \in DOMAIN list : list[i] = x
  <2>1. f[x] + 1 \in 1 .. N /\ f[list[f[x] + 1]] = f[x] /\ list[f[x] + 1] \in S
    BY <1>1, <1>2
  <2> QED BY <1>1, <1>2, <2>1
<1> QED BY <1>2, <1>3 DEF Ordered!ToSet, S

\* A page and what hangs below it in the lists is what the foreign key takes with it.
LEMMA FamilyIs ==
  ASSUME TreeInv, Numbered(page), NEW n \in DOMAIN page
  PROVE  Ordered!Family(n) = {n} \cup Below(page, n)
<1> DEFINE X == {n} \cup Below(page, n)
           F == Ordered!Family(n)
           D == Parents(page)
           kids == [p \in D |-> Listed(page, p)]
<1>1. \A q \in D : Ordered!ToSet(kids[q]) = Children(page, q)
  <2> TAKE q \in D
  <2>1. Enumerates(Listed(page, q), Positions(page, q)) /\ DOMAIN Positions(page, q) = Children(page, q)
    BY ListedIs DEF Numbered, Positions
  <2> QED BY <2>1, MembersAre DEF Numbered
<1>2. F = {m \in D : \A S \in SUBSET D : n \in S /\ (\A q \in S : Ordered!ToSet(kids[q]) \subseteq S) => m \in S}
  BY DEF Ordered!Family, Ordered!Hereditary
<1> HIDE DEF F, kids
<1>3. F = {m \in D : \A S \in SUBSET D : n \in S /\ ClosedIn(page, S) => m \in S}
  <2>1. ASSUME NEW S \in SUBSET D
        PROVE  (\A q \in S : Ordered!ToSet(kids[q]) \subseteq S) <=> ClosedIn(page, S)
    BY <1>1 DEF ClosedIn
  <2> QED BY <1>2, <2>1
<1>4. X \in SUBSET D /\ n \in X /\ ClosedIn(page, X)
  BY BelowIsClosed DEF ClosedIn, Parents, Below
<1>5. F \subseteq X
  BY <1>3, <1>4
<1>6. ASSUME NEW m \in Below(page, n), NEW S \in SUBSET D, n \in S, ClosedIn(page, S)
      PROVE  m \in S
  <2> DEFINE T == S \cap DOMAIN page
  <2>1. T \in SUBSET DOMAIN page /\ Children(page, n) \subseteq T /\ ClosedIn(page, T)
    BY <1>6 DEF ClosedIn, Children
  <2>2. m \in T
    <3> HIDE DEF T
    <3> QED BY <2>1 DEF Below
  <2> QED BY <2>2
<1>7. X \subseteq F
  BY <1>3, <1>6 DEF Parents, Below
<1> QED BY <1>5, <1>7 DEF F

-----------------------------------------------------------------------------
(* Every transaction is a step of the lists *)

Shown == Numbered(page') /\ (Ordered!ListNext \/ Navigation(page') = Navigation(page))

LEMMA CreateIsShown ==
  ASSUME TreeInv, Numbered(page), NEW n \in Id, NEW p, NEW s \in Slug, NEW k \in Kind, Create(n, p, s, k)
  PROVE  Shown
<1>1. /\ Numbered(page') /\ n \notin Parents(page) /\ p \in Parents(page)
      /\ Navigation(page') = Ordered!WithLast(Navigation(page), p, n)
  BY AddedOrder DEF Create, Live, TreeInv
<1>2. Ordered!New(p, n)
  BY <1>1 DEF Ordered!New, Navigation
<1> QED BY <1>1, <1>2 DEF Shown, Ordered!ListNext


LEMMA SameCardinality == \A S : Ordered!Cardinality(S) = Cardinality(S)
BY DEF Cardinality, Ordered!Cardinality

LEMMA EnsurePathIsShown ==
  ASSUME TreeInv, Numbered(page), NEW a \in Id, NEW b \in Id, NEW p, NEW s \in Slug, NEW t \in Slug,
         NEW k \in Kind, EnsurePath(a, b, p, s, t, k)
  PROVE  Shown
<1> DEFINE u == Added(page, a, p, s, "section")
<1>1. /\ a \in Id \ DOMAIN page /\ b \in Id \ (DOMAIN page \cup {a}) /\ p \in Parents(page)
      /\ Named(page, p, s) = {} /\ "section" \in Kind
  BY DEF EnsurePath, Live, Kind
<1>2. Good(u) /\ DOMAIN u = DOMAIN page \cup {a}
  BY AddedIsGood DEF EnsurePath, TreeInv, Live, Kind
<1>3. /\ Numbered(u) /\ a \notin Parents(page) /\ Parents(u) = Parents(page) \cup {a}
      /\ Navigation(u) = Ordered!WithLast(Navigation(page), p, a)
  BY <1>1, AddedOrder DEF TreeInv
<1>4. page' = Added(u, b, a, t, k)
  BY DEF EnsurePath
<1> HIDE DEF u
<1>5. /\ Numbered(page') /\ b \notin Parents(u)
      /\ Navigation(page') = Ordered!WithLast(Navigation(u), a, b)
  BY <1>1, <1>2, <1>3, <1>4, AddedOrder
<1>6. Ordered!NewPath(p, a, b)
  BY <1>1, <1>3, <1>5 DEF Ordered!NewPath, Navigation
<1> QED BY <1>1, <1>5, <1>6 DEF Shown, Ordered!ListNext

LEMMA DeleteIsShown ==
  ASSUME TreeInv, Numbered(page), NEW n, NEW recursive, Delete(n, recursive)
  PROVE  Shown
<1>1. n \in DOMAIN page /\ n \in Parents(page) \ {Root}
  BY PageTreeAssumption DEF Delete, Live, Parents, TreeInv, Good, Typed
<1>2. /\ Numbered(page')
      /\ Navigation(page') = [q \in Parents(page) \ ({n} \cup Below(page, n)) |-> Ordered!Without(Navigation(page)[q], n)]
  BY <1>1, DeletedOrder DEF Delete, TreeInv
<1>3. Ordered!Family(n) = {n} \cup Below(page, n)
  BY <1>1, FamilyIs
<1>4. n \notin Parents(page')
  BY <1>2 DEF Navigation
<1>5. Ordered!Drop(n)
  BY <1>2, <1>3, <1>4 DEF Ordered!Drop, Navigation
<1> QED BY <1>1, <1>2, <1>5 DEF Shown, Ordered!ListNext

LEMMA RenameIsShown ==
  ASSUME TreeInv, Numbered(page), NEW n, NEW s, Rename(n, s)
  PROVE  Shown
<1>1. page' = [page EXCEPT ![n] = [page[n] EXCEPT !.slug = s]] /\ page \in [DOMAIN page -> Row]
  BY DEF Rename, TreeInv, Good, Typed
<1>2. DOMAIN page' = DOMAIN page
  BY <1>1
<1>3. \A m \in DOMAIN page : page'[m].parent = page[m].parent /\ page'[m].pos = page[m].pos
  BY <1>1 DEF Row
<1> QED BY <1>2, <1>3, SameOrder DEF Shown

LEMMA ConvertIsShown ==
  ASSUME TreeInv, Numbered(page), NEW n, NEW k, ConvertNode(n, k)
  PROVE  Shown
<1>1. page' = [page EXCEPT ![n] = [page[n] EXCEPT !.kind = k]] /\ page \in [DOMAIN page -> Row]
  BY DEF ConvertNode, TreeInv, Good, Typed
<1>2. DOMAIN page' = DOMAIN page
  BY <1>1
<1>3. \A m \in DOMAIN page : page'[m].parent = page[m].parent /\ page'[m].pos = page[m].pos
  BY <1>1 DEF Row
<1> QED BY <1>2, <1>3, SameOrder DEF Shown

LEMMA MoveIsShown ==
  ASSUME TreeInv, Numbered(page), NEW n, NEW p, NEW at \in -1 .. Cardinality(Live), MoveNode(n, p, at)
  PROVE  Shown
<1> DEFINE D == Parents(page)
           rest == [q \in D |-> Ordered!Without(Listed(page, q), n)]
           spot == IF at \in 0 .. Len(rest[p]) THEN at ELSE Len(rest[p])
<1>1. /\ n \in DOMAIN page /\ p \in D /\ p # n /\ p \notin Below(page, n)
      /\ page' = Relocated(n, p, at) /\ n \in D \ {Root}
  BY PageTreeAssumption DEF MoveNode, Live, Parents, TreeInv, Good, Typed
<1>2. /\ DOMAIN page' = DOMAIN page /\ Numbered(page')
      /\ Listed(page', p) = InsertAt(rest[p], spot + 1, n)
      /\ \A q \in D : q # p => Listed(page', q) = rest[q]
  <2>1. Good(page) /\ Numbered(page) /\ n \in DOMAIN page /\ p \in Parents(page)
    BY <1>1 DEF TreeInv
  <2>2. \A q \in D : rest[q] = Others(n, q)
    BY DEF Others
  <2>3. spot = Spot(at, Others(n, p))
    BY <1>1, <2>2 DEF Spot
  <2> HIDE DEF rest, spot
  <2> QED BY <1>1, <2>1, <2>2, <2>3, MovedOrder
<1>3. Parents(page') = D
  BY <1>2 DEF Parents
<1>4. InsertAt(rest[p], spot + 1, n) = Ordered!InsertAt(rest[p], spot + 1, n)
  BY DEF InsertAt, Ordered!InsertAt
<1>5. [q \in Parents(page') |-> Listed(page', q)] = [rest EXCEPT ![p] = Ordered!InsertAt(rest[p], spot + 1, n)]
  <2> HIDE DEF spot
  <2> QED BY <1>1, <1>2, <1>3, <1>4
<1>6. p \notin Ordered!Family(n)
  BY <1>1, FamilyIs
<1>7. Ordered!Place(n, p, at)
  BY <1>1, <1>5, <1>6 DEF Ordered!Place
<1>8. Parents(page) \ {Root} = Live
  BY PageTreeAssumption DEF Parents, Live, TreeInv, Good, Typed
<1>9. at \in -1 .. Ordered!Cardinality(D \ {Root}) /\ DOMAIN [q \in D |-> Listed(page, q)] = D
  BY <1>8, SameCardinality
<1>10. Ordered!ListNext
  <2> HIDE DEF rest, spot
  <2> QED BY <1>1, <1>7, <1>9 DEF Ordered!ListNext
<1> QED BY <1>2, <1>10 DEF Shown

LEMMA SortIsShown ==
  ASSUME TreeInv, Numbered(page), NEW p, NEW order, SortPages(p, order)
  PROVE  Shown
<1> DEFINE S == Children(page, p)
           N == Cardinality(S)
           list == Listed(page', p)
           f == Positions(page', p)
<1>1. /\ Numbered(page') /\ p \in Parents(page) /\ DOMAIN page' = DOMAIN page
      /\ Enumerates(list, f) /\ DOMAIN f = S
      /\ \A q \in Parents(page) : q # p => Listed(page', q) = Listed(page, q)
  BY SortedOrder
<1>2. Ordered!ToSet(Listed(page, p)) = S
  <2>1. Enumerates(Listed(page, p), Positions(page, p)) /\ DOMAIN Positions(page, p) = S
    BY <1>1, ListedIs DEF Numbered, Positions
  <2> QED BY <1>1, <2>1, MembersAre DEF Numbered
<1> HIDE DEF list, f, S
<1>3. list \in [1 .. N -> S] /\ \A i \in 1 .. N : f[list[i]] = i - 1
  BY <1>1 DEF Enumerates
<1>4. \A i, j \in 1 .. N : i # j => list[i] # list[j]
  BY <1>3
<1>5. list \in Ordered!SetToSeqs(S)
  BY <1>3, <1>4, SameCardinality DEF Ordered!SetToSeqs
<1>6. [q \in Parents(page') |-> Listed(page', q)] = [[q \in Parents(page) |-> Listed(page, q)] EXCEPT ![p] = list]
  BY <1>1 DEF list, Parents
<1>7. Ordered!Reorder(p)
  BY <1>1, <1>2, <1>5, <1>6 DEF Ordered!Reorder
<1> QED BY <1>1, <1>7 DEF Shown, Ordered!ListNext

LEMMA StepIsShown == TreeInv /\ Numbered(page) /\ TreeNext => Shown
<1> SUFFICES ASSUME TreeInv, Numbered(page), TreeNext
             PROVE  Shown
  OBVIOUS
<1>1. CASE Creates
  BY <1>1, CreateIsShown DEF Creates
<1>2. CASE EnsuresPath
  BY <1>2, EnsurePathIsShown DEF EnsuresPath
<1>3. CASE \E n \in Live, recursive \in BOOLEAN : Delete(n, recursive)
  BY <1>3, DeleteIsShown
<1>4. CASE \E n \in Live, s \in Slug : Rename(n, s)
  BY <1>4, RenameIsShown
<1>5. CASE \E n \in Live, k \in Kind : ConvertNode(n, k)
  BY <1>5, ConvertIsShown
<1>6. CASE Moves
  BY <1>6, MoveIsShown DEF Moves
<1>7. CASE Sorts
  BY <1>7, SortIsShown DEF Sorts
<1> QED BY <1>1, <1>2, <1>3, <1>4, <1>5, <1>6, <1>7 DEF TreeNext

LEMMA EmptyNavigation ==
  ASSUME TreeInit
  PROVE  Numbered(page) /\ Navigation(page) = [p \in {Root} |-> <<>>]
<1>1. DOMAIN page = {} /\ Parents(page) = {Root} /\ \A p : Children(page, p) = {}
  BY DEF TreeInit, Parents, Children
<1>2. Positions(page, Root) = <<>> /\ Numbering(<<>>) /\ Enumerates(<<>>, <<>>)
  <2>1. DOMAIN <<>> = {} /\ <<>> = [m \in {} |-> 0] /\ IsFiniteSet({}) /\ Cardinality({}) = 0 /\ 1 .. 0 = {}
    BY FS_EmptySet
  <2>2. Positions(page, Root) = [m \in {} |-> page[m].pos]
    BY <1>1 DEF Positions
  <2>3. Positions(page, Root) = <<>>
    BY <2>2
  <2> QED BY <2>1, <2>3 DEF Numbering, Enumerates
<1>3. Listed(page, Root) = <<>>
  BY <1>2, ListedBy
<1> QED BY <1>1, <1>2, <1>3 DEF Numbered, Navigation

\* Whatever operations ran, the positions of the children of a page are 0, 1, 2, ...: those that
\* reindexPositions, createNodeLocked and SortPages write leave no gap and no tie.
THEOREM PositionsAreDense == TreeSpec => []Numbered(page)
<1>1. TreeInit => Numbered(page)
  BY EmptyNavigation
<1>2. TreeInv /\ Numbered(page) /\ [TreeNext]_page => Numbered(page)'
  <2> SUFFICES ASSUME TreeInv, Numbered(page), [TreeNext]_page
               PROVE  Numbered(page')
    BY DEF Numbered, Numbering, Positions, Parents, Children
  <2> QED BY StepIsShown DEF Shown
<1> QED BY <1>1, <1>2, TreeInvariant, PTL DEF TreeSpec

\* MovesLand, for any table: MoveNodeToPosition puts a page at the index that was asked for.
THEOREM MovesDoLand == TreeSpec => []MovesLand
<1>1. TreeInv /\ Numbered(page) => MovesLand
  <2> SUFFICES ASSUME TreeInv, Numbered(page), NEW n \in Live, NEW p \in Parents(page),
                      NEW at \in -1 .. Cardinality(Live), p \notin {n} \cup Below(page, n)
               PROVE  LET rest == Ordered!Without(Listed(page, p), n)
                          spot == IF at \in 0 .. Len(rest) THEN at ELSE Len(rest)
                      IN Listed(Relocated(n, p, at), p) = InsertAt(rest, spot + 1, n)
    BY DEF MovesLand
  <2>1. Good(page) /\ n \in DOMAIN page
    BY DEF TreeInv, Live
  <2>2. Listed(Relocated(n, p, at), p) = InsertAt(Others(n, p), Spot(at, Others(n, p)) + 1, n)
    BY <2>1, MovedOrder
  <2> QED BY <2>2 DEF Others, Spot
<1> QED BY <1>1, TreeInvariant, PositionsAreDense, PTL

\* ImplementsOrder: for any identifiers and slugs, the table is the lists of OrderedTree, and
\* each transaction of the tree one of their operations or none.
THEOREM TreeImplementsOrder == TreeSpec => ImplementsOrder
<1>1. TreeInit => Ordered!ListInit
  BY EmptyNavigation DEF Ordered!ListInit, Navigation
<1>2. TreeInv /\ Numbered(page) /\ [TreeNext]_page =>
        Ordered!ListNext \/ UNCHANGED [p \in Parents(page) |-> Listed(page, p)]
  <2> SUFFICES ASSUME TreeInv, Numbered(page), [TreeNext]_page
               PROVE  Ordered!ListNext \/ UNCHANGED [p \in Parents(page) |-> Listed(page, p)]
    OBVIOUS
  <2>1. CASE TreeNext
    BY <2>1, StepIsShown DEF Shown, Navigation
  <2>2. CASE UNCHANGED page
    BY <2>2 DEF Parents, Listed, Children, Index
  <2> QED BY <2>1, <2>2
<1> QED BY <1>1, <1>2, TreeInvariant, PositionsAreDense, PTL DEF TreeSpec, ImplementsOrder, Ordered!ListSpec

-----------------------------------------------------------------------------
(* The migration of an old tree                                             *)
(*                                                                         *)
(* What is saved is redone from the version that is saved: so each version *)
(* must bring about what it promises from any state in which it was left   *)
(* half done, and must not undo what the versions before it promised.      *)

Trees == [Page -> [kind : {"", "page", "section"}, created : {"zero", "old"}]]
Content == [id : Nat, title : BOOLEAN, created : {"zero", "old", "now"}, age : {"old", "now"}]
Spots == Page \X {"file", "index"}

\* A page with children that is a file has two places in the end.
TwoPlaces == <<1, "file">> \in had

\* What there was of a page, and the place it has from then on
Present == {p[1] : p \in had}
Seat(n) == <<n, IF n = 1 THEN "index" ELSE "file">>
KindOf(n) == IF n = 1 THEN "section" ELSE "page"

\* What the versions bring about, in a tree or in the files
Times(tree) == \A n \in Page : tree[n].created = IF n \in Present THEN "old" ELSE "zero"
KindsOf(tree) == \A n \in Page : tree[n].kind = KindOf(n)
Titled(n) == n = 1 \/ n \in Present => Seat(n) \in DOMAIN text /\ text[Seat(n)].id = n /\ text[Seat(n)].title
TimesIn(n) == n \in Present => text[Seat(n)].created = "old"
TopSorted == TreeTop \in DOMAIN sorted /\ sorted[TreeTop] = <<2, 1>>

\* A tree to which version v has been applied, or part of the next one
TreeAt(tree, v) ==
  /\ tree \in Trees
  /\ \A n \in {2, 3} : tree[n].kind # "section"
  /\ ~TwoPlaces =>
       /\ tree[1].kind # "page"
       /\ Times(tree) \/ (v = 0 /\ \A n \in Page : tree[n].created = "zero")
       /\ v >= 2 => KindsOf(tree)

\* The start at step i of the next version
At(i) == i \in 1..Len(Saved(schema + 1)) /\ work = SubSeq(Saved(schema + 1), i, Len(Saved(schema + 1)))

Progress(i) ==
  /\ i = Len(Saved(schema + 1)) => snapshot = mem
  /\ schema = 4 /\ i > 1 => TopSorted
  /\ schema = 4 /\ i > 3 => 1 \in folder
  /\ ~TwoPlaces =>
       /\ schema = 0 /\ i > 1 => Times(mem)
       /\ schema = 1 /\ i > 1 => KindsOf(mem)
       /\ schema = 1 => \A j \in 1..3 : i > j + 1 => Titled(Walk[j])
       /\ schema = 2 => \A j \in 1..3 : i > j => TimesIn(Walk[j])

MigrationTypeOK ==
  /\ had \subseteq Page \X {"file", "index", "folder"}
  /\ DOMAIN text \subseteq Spots /\ text \in [DOMAIN text -> Content]
  /\ folder \subseteq {1}
  /\ sorted \in [DOMAIN sorted -> Seq(Page)]
  /\ schema \in -1..Current
  /\ state \in {"down", "starting", "up", "refused"}

\* What is on the disk, whatever the version
DiskOK ==
  IF TwoPlaces THEN <<1, "file">> \in DOMAIN text
  ELSE /\ <<1, "file">> \notin DOMAIN text
       /\ \A n \in {2, 3} : <<n, "file">> \in DOMAIN text <=> n \in Present
       /\ (1 \in Present \/ 3 \in Present) => 1 \in folder
       /\ \A n \in Page : Seat(n) \in DOMAIN text => text[Seat(n)].id \in {0, n}

\* What the version that is saved says of it
SchemaOK ==
  /\ schema = 0 => /\ \A n \in Page : n \in folder <=> <<n, "folder">> \in had
                   /\ \A p \in Spots : p \in DOMAIN text <=> p \in had
                   /\ \A p \in DOMAIN text : text[p].age = "old"
  /\ schema \in 0..(Current - 1) => TreeAt(snapshot, schema)
  /\ ~TwoPlaces /\ schema >= 2 => \A n \in Page : Titled(n)
  /\ ~TwoPlaces /\ schema >= 3 => \A n \in Page : TimesIn(n)
  /\ schema = Current => TopSorted /\ 1 \in folder

Serves ==
  /\ ~TwoPlaces
  /\ \A n \in Present : n \in DOMAIN served.page /\ served.page[n] = [id |-> n, title |-> TRUE, created |-> "old"]
  /\ {1, 2} \subseteq Present => served.top = <<2, 1>>

StartOK ==
  /\ state = "starting" /\ schema < Current =>
       schema >= 0 /\ TreeAt(mem, schema) /\ \E i \in 1..6 : At(i) /\ Progress(i)
  /\ state = "starting" /\ schema = Current =>
       \/ work = After(Current)
       \/ work = <<Do("rebuild", TreeTop)>>
       \/ work = <<Do("remove", TreeTop)>> /\ Serves
  /\ state = "up" => schema = Current /\ Serves
  /\ state = "refused" => schema = -1 \/ TwoPlaces \/ Fileless

MigrationInv == MigrationTypeOK /\ DiskOK /\ SchemaOK /\ StartOK

-----------------------------------------------------------------------------
(* The steps of the versions *)

MigrationJob == {"times", "kinds", "front", "meta", "index", "order", "tree", "schema"}
MigrationStep == [do : MigrationJob, node : Nat]

LEMMA StepIs ==
  \A do \in MigrationJob, n \in Nat : Do(do, n) \in MigrationStep /\ Do(do, n).do = do /\ Do(do, n).node = n
BY DEF Do, MigrationStep

LEMMA OneStep ==
  ASSUME NEW S, NEW a \in S
  PROVE  LET s == <<a>> IN s \in Seq(S) /\ Len(s) = 1 /\ s[1] = a
OBVIOUS

LEMMA TwoSteps ==
  ASSUME NEW S, NEW a \in S, NEW b \in S
  PROVE  LET s == <<a, b>> IN s \in Seq(S) /\ Len(s) = 2 /\ s[1] = a /\ s[2] = b
OBVIOUS

LEMMA JoinedSteps ==
  ASSUME NEW S, NEW s \in Seq(S), NEW t \in Seq(S)
  PROVE  LET c == s \o t IN
         /\ c \in Seq(S) /\ Len(c) = Len(s) + Len(t)
         /\ \A i \in 1..Len(s) : c[i] = s[i]
         /\ \A i \in 1..Len(t) : c[Len(s) + i] = t[i]
OBVIOUS

LEMMA StepTables ==
  /\ Saved(1) \in Seq(MigrationStep) /\ Len(Saved(1)) = 3
  /\ Saved(1)[1] = Do("times", 0) /\ Saved(1)[2] = Do("tree", 0) /\ Saved(1)[3] = Do("schema", 1)
  /\ Saved(2) \in Seq(MigrationStep) /\ Len(Saved(2)) = 6
  /\ Saved(2)[1] = Do("kinds", 0) /\ Saved(2)[2] = Do("front", 2) /\ Saved(2)[3] = Do("front", 1)
  /\ Saved(2)[4] = Do("front", 3) /\ Saved(2)[5] = Do("tree", 0) /\ Saved(2)[6] = Do("schema", 2)
  /\ Saved(3) \in Seq(MigrationStep) /\ Len(Saved(3)) = 5
  /\ Saved(3)[1] = Do("meta", 2) /\ Saved(3)[2] = Do("meta", 1) /\ Saved(3)[3] = Do("meta", 3)
  /\ Saved(3)[4] = Do("tree", 0) /\ Saved(3)[5] = Do("schema", 3)
  /\ Saved(4) \in Seq(MigrationStep) /\ Len(Saved(4)) = 5
  /\ Saved(4)[1] = Do("index", 2) /\ Saved(4)[2] = Do("index", 1) /\ Saved(4)[3] = Do("index", 3)
  /\ Saved(4)[4] = Do("tree", 0) /\ Saved(4)[5] = Do("schema", 4)
  /\ Saved(5) \in Seq(MigrationStep) /\ Len(Saved(5)) = 6
  /\ Saved(5)[1] = Do("order", 0) /\ Saved(5)[2] = Do("order", 2) /\ Saved(5)[3] = Do("order", 1)
  /\ Saved(5)[4] = Do("order", 3) /\ Saved(5)[5] = Do("tree", 0) /\ Saved(5)[6] = Do("schema", 5)
<1>1. \A do \in {"front", "meta", "index", "order"} :
        LET s == ForAll(do) IN
        s \in Seq(MigrationStep) /\ Len(s) = 3 /\ s[1] = Do(do, 2) /\ s[2] = Do(do, 1) /\ s[3] = Do(do, 3)
  <2> SUFFICES ASSUME NEW do \in {"front", "meta", "index", "order"}
               PROVE  LET s == ForAll(do) IN
                      s \in Seq(MigrationStep) /\ Len(s) = 3
                      /\ s[1] = Do(do, 2) /\ s[2] = Do(do, 1) /\ s[3] = Do(do, 3)
    OBVIOUS
  <2> DEFINE m(i) == Do(do, Walk[i])
  <2>1. Walk \in [1..3 -> Nat] /\ Walk[1] = 2 /\ Walk[2] = 1 /\ Walk[3] = 3
    BY DEF Walk
  <2>2. \A i \in 1..3 : m(i) \in MigrationStep
    <3> TAKE i \in 1..3
    <3>1. Walk[i] \in Nat
      BY <2>1
    <3>2. do \in MigrationJob
      BY DEF MigrationJob
    <3> QED
      BY <3>1, <3>2 DEF Do, MigrationStep
  <2>3. ForAll(do) = [i \in 1..3 |-> m(i)]
    BY DEF ForAll, Walk
  <2> HIDE DEF m
  <2>4. LET s == [i \in 1..3 |-> m(i)] IN
        s \in Seq(MigrationStep) /\ Len(s) = 3 /\ s[1] = m(1) /\ s[2] = m(2) /\ s[3] = m(3)
    BY <2>2
  <2>5. m(1) = Do(do, 2) /\ m(2) = Do(do, 1) /\ m(3) = Do(do, 3)
    BY <2>1, Zenon DEF m
  <2> QED
    BY <2>3, <2>4, <2>5, Zenon
<1>2. /\ Migration(1) = <<Do("times", 0)>> /\ Migration(2) = <<Do("kinds", 0)>> \o ForAll("front")
      /\ Migration(3) = ForAll("meta") /\ Migration(4) = ForAll("index")
      /\ Migration(5) = <<Do("order", 0)>> \o ForAll("order")
  BY DEF Migration, TreeTop
<1>3. \A v : Saved(v) = Migration(v) \o <<Do("tree", 0), Do("schema", v)>>
  BY DEF Saved, TreeTop
<1>4. \A v \in 1..5 : LET s == <<Do("tree", 0), Do("schema", v)>> IN
        s \in Seq(MigrationStep) /\ Len(s) = 2 /\ s[1] = Do("tree", 0) /\ s[2] = Do("schema", v)
  <2> SUFFICES ASSUME NEW v \in 1..5
               PROVE  LET s == <<Do("tree", 0), Do("schema", v)>> IN
                      s \in Seq(MigrationStep) /\ Len(s) = 2 /\ s[1] = Do("tree", 0) /\ s[2] = Do("schema", v)
    OBVIOUS
  <2> QED
    <3>1. Do("tree", 0) \in MigrationStep
      BY DEF Do, MigrationStep, MigrationJob
    <3>2. v \in Nat
      OBVIOUS
    <3>3. Do("schema", v) \in MigrationStep
      BY <3>2 DEF Do, MigrationStep, MigrationJob
    <3> QED
      BY <3>1, <3>3, TwoSteps, Zenon
<1>5. \A do \in {"times", "kinds", "order"} : LET s == <<Do(do, 0)>> IN
        s \in Seq(MigrationStep) /\ Len(s) = 1 /\ s[1] = Do(do, 0)
  <2> SUFFICES ASSUME NEW do \in {"times", "kinds", "order"}
               PROVE  LET s == <<Do(do, 0)>> IN s \in Seq(MigrationStep) /\ Len(s) = 1 /\ s[1] = Do(do, 0)
    OBVIOUS
  <2> QED
    <3>1. do \in MigrationJob
      BY DEF MigrationJob
    <3>2. Do(do, 0) \in MigrationStep
      BY <3>1 DEF Do, MigrationStep
    <3> QED
      BY <3>2, OneStep, Zenon
<1>6. /\ Migration(1) \in Seq(MigrationStep) /\ Len(Migration(1)) = 1
      /\ Migration(1)[1] = Do("times", 0)
  BY <1>1, <1>2, <1>5
<1>7. /\ Migration(2) \in Seq(MigrationStep) /\ Len(Migration(2)) = 4
      /\ Migration(2)[1] = Do("kinds", 0) /\ Migration(2)[2] = Do("front", 2) /\ Migration(2)[3] = Do("front", 1)
      /\ Migration(2)[4] = Do("front", 3)
  <2> DEFINE s == <<Do("kinds", 0)>>
             t == ForAll("front")
             c == s \o t
  <2>1. /\ s \in Seq(MigrationStep) /\ Len(s) = 1
        /\ s[1] = Do("kinds", 0)
    BY <1>5
  <2>2. /\ t \in Seq(MigrationStep) /\ Len(t) = 3
        /\ t[1] = Do("front", 2) /\ t[2] = Do("front", 1) /\ t[3] = Do("front", 3)
    BY <1>1
  <2>3. Migration(2) = c
    BY <1>2
  <2> HIDE DEF s, t
  <2>4. c \in Seq(MigrationStep) /\ Len(c) = Len(s) + Len(t)
        /\ (\A i \in 1..Len(s) : c[i] = s[i]) /\ \A i \in 1..Len(t) : c[Len(s) + i] = t[i]
    <3>1. s \in Seq(MigrationStep) /\ t \in Seq(MigrationStep)
      BY <2>1, <2>2
    <3> QED
      BY <3>1
  <2> HIDE DEF c
  <2>5. c[1] = Do("kinds", 0)
    BY <2>1, <2>2, <2>4
  <2>6. c[2] = Do("front", 2)
    BY <2>1, <2>2, <2>4
  <2>7. c[3] = Do("front", 1)
    BY <2>1, <2>2, <2>4
  <2>8. c[4] = Do("front", 3)
    BY <2>1, <2>2, <2>4
  <2>9. Len(c) = 4
    BY <2>1, <2>2, <2>4
  <2> QED
    BY <2>3, <2>4, <2>5, <2>6, <2>7, <2>8, <2>9
<1>8. /\ Migration(3) \in Seq(MigrationStep) /\ Len(Migration(3)) = 3
      /\ Migration(3)[1] = Do("meta", 2) /\ Migration(3)[2] = Do("meta", 1) /\ Migration(3)[3] = Do("meta", 3)
  BY <1>1, <1>2, <1>5
<1>9. /\ Migration(4) \in Seq(MigrationStep) /\ Len(Migration(4)) = 3
      /\ Migration(4)[1] = Do("index", 2) /\ Migration(4)[2] = Do("index", 1) /\ Migration(4)[3] = Do("index", 3)
  BY <1>1, <1>2, <1>5
<1>10. /\ Migration(5) \in Seq(MigrationStep) /\ Len(Migration(5)) = 4
      /\ Migration(5)[1] = Do("order", 0) /\ Migration(5)[2] = Do("order", 2) /\ Migration(5)[3] = Do("order", 1)
      /\ Migration(5)[4] = Do("order", 3)
  <2> DEFINE s == <<Do("order", 0)>>
             t == ForAll("order")
             c == s \o t
  <2>1. /\ s \in Seq(MigrationStep) /\ Len(s) = 1
        /\ s[1] = Do("order", 0)
    BY <1>5
  <2>2. /\ t \in Seq(MigrationStep) /\ Len(t) = 3
        /\ t[1] = Do("order", 2) /\ t[2] = Do("order", 1) /\ t[3] = Do("order", 3)
    BY <1>1
  <2>3. Migration(5) = c
    BY <1>2
  <2> HIDE DEF s, t
  <2>4. c \in Seq(MigrationStep) /\ Len(c) = Len(s) + Len(t)
        /\ (\A i \in 1..Len(s) : c[i] = s[i]) /\ \A i \in 1..Len(t) : c[Len(s) + i] = t[i]
    <3>1. s \in Seq(MigrationStep) /\ t \in Seq(MigrationStep)
      BY <2>1, <2>2
    <3> QED
      BY <3>1
  <2> HIDE DEF c
  <2>5. c[1] = Do("order", 0)
    BY <2>1, <2>2, <2>4
  <2>6. c[2] = Do("order", 2)
    BY <2>1, <2>2, <2>4
  <2>7. c[3] = Do("order", 1)
    BY <2>1, <2>2, <2>4
  <2>8. c[4] = Do("order", 3)
    BY <2>1, <2>2, <2>4
  <2>9. Len(c) = 4
    BY <2>1, <2>2, <2>4
  <2> QED
    BY <2>3, <2>4, <2>5, <2>6, <2>7, <2>8, <2>9
<1>11. /\ Saved(1) \in Seq(MigrationStep) /\ Len(Saved(1)) = 3
      /\ Saved(1)[1] = Do("times", 0) /\ Saved(1)[2] = Do("tree", 0) /\ Saved(1)[3] = Do("schema", 1)
  <2> DEFINE s == Migration(1)
             t == <<Do("tree", 0), Do("schema", 1)>>
             c == s \o t
  <2>1. /\ s \in Seq(MigrationStep) /\ Len(s) = 1
        /\ s[1] = Do("times", 0)
    BY <1>6
  <2>2. /\ t \in Seq(MigrationStep) /\ Len(t) = 2
        /\ t[1] = Do("tree", 0) /\ t[2] = Do("schema", 1)
    BY <1>4
  <2>3. Saved(1) = c
    BY <1>3
  <2> HIDE DEF s, t
  <2>4. c \in Seq(MigrationStep) /\ Len(c) = Len(s) + Len(t)
        /\ (\A i \in 1..Len(s) : c[i] = s[i]) /\ \A i \in 1..Len(t) : c[Len(s) + i] = t[i]
    <3>1. s \in Seq(MigrationStep) /\ t \in Seq(MigrationStep)
      BY <2>1, <2>2
    <3> QED
      BY <3>1
  <2> HIDE DEF c
  <2>5. c[1] = Do("times", 0)
    BY <2>1, <2>2, <2>4
  <2>6. c[2] = Do("tree", 0)
    BY <2>1, <2>2, <2>4
  <2>7. c[3] = Do("schema", 1)
    BY <2>1, <2>2, <2>4
  <2>8. Len(c) = 3
    BY <2>1, <2>2, <2>4
  <2> QED
    BY <2>3, <2>4, <2>5, <2>6, <2>7, <2>8
<1>12. /\ Saved(2) \in Seq(MigrationStep) /\ Len(Saved(2)) = 6
      /\ Saved(2)[1] = Do("kinds", 0) /\ Saved(2)[2] = Do("front", 2) /\ Saved(2)[3] = Do("front", 1)
      /\ Saved(2)[4] = Do("front", 3) /\ Saved(2)[5] = Do("tree", 0) /\ Saved(2)[6] = Do("schema", 2)
  <2> DEFINE s == Migration(2)
             t == <<Do("tree", 0), Do("schema", 2)>>
             c == s \o t
  <2>1. /\ s \in Seq(MigrationStep) /\ Len(s) = 4
        /\ s[1] = Do("kinds", 0) /\ s[2] = Do("front", 2) /\ s[3] = Do("front", 1)
        /\ s[4] = Do("front", 3)
    BY <1>7
  <2>2. /\ t \in Seq(MigrationStep) /\ Len(t) = 2
        /\ t[1] = Do("tree", 0) /\ t[2] = Do("schema", 2)
    BY <1>4
  <2>3. Saved(2) = c
    BY <1>3
  <2> HIDE DEF s, t
  <2>4. c \in Seq(MigrationStep) /\ Len(c) = Len(s) + Len(t)
        /\ (\A i \in 1..Len(s) : c[i] = s[i]) /\ \A i \in 1..Len(t) : c[Len(s) + i] = t[i]
    <3>1. s \in Seq(MigrationStep) /\ t \in Seq(MigrationStep)
      BY <2>1, <2>2
    <3> QED
      BY <3>1
  <2> HIDE DEF c
  <2>5. c[1] = Do("kinds", 0)
    BY <2>1, <2>2, <2>4
  <2>6. c[2] = Do("front", 2)
    BY <2>1, <2>2, <2>4
  <2>7. c[3] = Do("front", 1)
    BY <2>1, <2>2, <2>4
  <2>8. c[4] = Do("front", 3)
    BY <2>1, <2>2, <2>4
  <2>9. c[5] = Do("tree", 0)
    BY <2>1, <2>2, <2>4
  <2>10. c[6] = Do("schema", 2)
    BY <2>1, <2>2, <2>4
  <2>11. Len(c) = 6
    BY <2>1, <2>2, <2>4
  <2> QED
    BY <2>3, <2>4, <2>5, <2>6, <2>7, <2>8, <2>9, <2>10, <2>11
<1>13. /\ Saved(3) \in Seq(MigrationStep) /\ Len(Saved(3)) = 5
      /\ Saved(3)[1] = Do("meta", 2) /\ Saved(3)[2] = Do("meta", 1) /\ Saved(3)[3] = Do("meta", 3)
      /\ Saved(3)[4] = Do("tree", 0) /\ Saved(3)[5] = Do("schema", 3)
  <2> DEFINE s == Migration(3)
             t == <<Do("tree", 0), Do("schema", 3)>>
             c == s \o t
  <2>1. /\ s \in Seq(MigrationStep) /\ Len(s) = 3
        /\ s[1] = Do("meta", 2) /\ s[2] = Do("meta", 1) /\ s[3] = Do("meta", 3)
    BY <1>8
  <2>2. /\ t \in Seq(MigrationStep) /\ Len(t) = 2
        /\ t[1] = Do("tree", 0) /\ t[2] = Do("schema", 3)
    BY <1>4
  <2>3. Saved(3) = c
    BY <1>3
  <2> HIDE DEF s, t
  <2>4. c \in Seq(MigrationStep) /\ Len(c) = Len(s) + Len(t)
        /\ (\A i \in 1..Len(s) : c[i] = s[i]) /\ \A i \in 1..Len(t) : c[Len(s) + i] = t[i]
    <3>1. s \in Seq(MigrationStep) /\ t \in Seq(MigrationStep)
      BY <2>1, <2>2
    <3> QED
      BY <3>1
  <2> HIDE DEF c
  <2>5. c[1] = Do("meta", 2)
    BY <2>1, <2>2, <2>4
  <2>6. c[2] = Do("meta", 1)
    BY <2>1, <2>2, <2>4
  <2>7. c[3] = Do("meta", 3)
    BY <2>1, <2>2, <2>4
  <2>8. c[4] = Do("tree", 0)
    BY <2>1, <2>2, <2>4
  <2>9. c[5] = Do("schema", 3)
    BY <2>1, <2>2, <2>4
  <2>10. Len(c) = 5
    BY <2>1, <2>2, <2>4
  <2> QED
    BY <2>3, <2>4, <2>5, <2>6, <2>7, <2>8, <2>9, <2>10
<1>14. /\ Saved(4) \in Seq(MigrationStep) /\ Len(Saved(4)) = 5
      /\ Saved(4)[1] = Do("index", 2) /\ Saved(4)[2] = Do("index", 1) /\ Saved(4)[3] = Do("index", 3)
      /\ Saved(4)[4] = Do("tree", 0) /\ Saved(4)[5] = Do("schema", 4)
  <2> DEFINE s == Migration(4)
             t == <<Do("tree", 0), Do("schema", 4)>>
             c == s \o t
  <2>1. /\ s \in Seq(MigrationStep) /\ Len(s) = 3
        /\ s[1] = Do("index", 2) /\ s[2] = Do("index", 1) /\ s[3] = Do("index", 3)
    BY <1>9
  <2>2. /\ t \in Seq(MigrationStep) /\ Len(t) = 2
        /\ t[1] = Do("tree", 0) /\ t[2] = Do("schema", 4)
    BY <1>4
  <2>3. Saved(4) = c
    BY <1>3
  <2> HIDE DEF s, t
  <2>4. c \in Seq(MigrationStep) /\ Len(c) = Len(s) + Len(t)
        /\ (\A i \in 1..Len(s) : c[i] = s[i]) /\ \A i \in 1..Len(t) : c[Len(s) + i] = t[i]
    <3>1. s \in Seq(MigrationStep) /\ t \in Seq(MigrationStep)
      BY <2>1, <2>2
    <3> QED
      BY <3>1
  <2> HIDE DEF c
  <2>5. c[1] = Do("index", 2)
    BY <2>1, <2>2, <2>4
  <2>6. c[2] = Do("index", 1)
    BY <2>1, <2>2, <2>4
  <2>7. c[3] = Do("index", 3)
    BY <2>1, <2>2, <2>4
  <2>8. c[4] = Do("tree", 0)
    BY <2>1, <2>2, <2>4
  <2>9. c[5] = Do("schema", 4)
    BY <2>1, <2>2, <2>4
  <2>10. Len(c) = 5
    BY <2>1, <2>2, <2>4
  <2> QED
    BY <2>3, <2>4, <2>5, <2>6, <2>7, <2>8, <2>9, <2>10
<1>15. /\ Saved(5) \in Seq(MigrationStep) /\ Len(Saved(5)) = 6
      /\ Saved(5)[1] = Do("order", 0) /\ Saved(5)[2] = Do("order", 2) /\ Saved(5)[3] = Do("order", 1)
      /\ Saved(5)[4] = Do("order", 3) /\ Saved(5)[5] = Do("tree", 0) /\ Saved(5)[6] = Do("schema", 5)
  <2> DEFINE s == Migration(5)
             t == <<Do("tree", 0), Do("schema", 5)>>
             c == s \o t
  <2>1. /\ s \in Seq(MigrationStep) /\ Len(s) = 4
        /\ s[1] = Do("order", 0) /\ s[2] = Do("order", 2) /\ s[3] = Do("order", 1)
        /\ s[4] = Do("order", 3)
    BY <1>10
  <2>2. /\ t \in Seq(MigrationStep) /\ Len(t) = 2
        /\ t[1] = Do("tree", 0) /\ t[2] = Do("schema", 5)
    BY <1>4
  <2>3. Saved(5) = c
    BY <1>3
  <2> HIDE DEF s, t
  <2>4. c \in Seq(MigrationStep) /\ Len(c) = Len(s) + Len(t)
        /\ (\A i \in 1..Len(s) : c[i] = s[i]) /\ \A i \in 1..Len(t) : c[Len(s) + i] = t[i]
    <3>1. s \in Seq(MigrationStep) /\ t \in Seq(MigrationStep)
      BY <2>1, <2>2
    <3> QED
      BY <3>1
  <2> HIDE DEF c
  <2>5. c[1] = Do("order", 0)
    BY <2>1, <2>2, <2>4
  <2>6. c[2] = Do("order", 2)
    BY <2>1, <2>2, <2>4
  <2>7. c[3] = Do("order", 1)
    BY <2>1, <2>2, <2>4
  <2>8. c[4] = Do("order", 3)
    BY <2>1, <2>2, <2>4
  <2>9. c[5] = Do("tree", 0)
    BY <2>1, <2>2, <2>4
  <2>10. c[6] = Do("schema", 5)
    BY <2>1, <2>2, <2>4
  <2>11. Len(c) = 6
    BY <2>1, <2>2, <2>4
  <2> QED
    BY <2>3, <2>4, <2>5, <2>6, <2>7, <2>8, <2>9, <2>10, <2>11
<1> QED
  BY <1>11, <1>12, <1>13, <1>14, <1>15

LEMMA StepsTyped == \A v \in 1..5 : Saved(v) \in Seq(MigrationStep)
BY StepTables

LEMMA RestOfSteps ==
  ASSUME NEW S, NEW s \in Seq(S), NEW i \in 1..Len(s)
  PROVE  LET rest == SubSeq(s, i, Len(s)) IN
         /\ rest # <<>> /\ Head(rest) = s[i]
         /\ Tail(rest) = SubSeq(s, i + 1, Len(s))
<1> DEFINE rest == SubSeq(s, i, Len(s))
           more == SubSeq(s, i + 1, Len(s))
<1>1. rest \in Seq(S) /\ Len(rest) = Len(s) - i + 1 /\ \A j \in 1..Len(rest) : rest[j] = s[i + j - 1]
  BY SubSeqProperties
<1>2. more \in Seq(S) /\ Len(more) = Len(s) - i /\ \A j \in 1..Len(more) : more[j] = s[i + j]
  BY SubSeqProperties
<1> HIDE DEF rest, more
<1>3. rest # <<>> /\ Head(rest) = s[i]
  BY <1>1
<1>4. Tail(rest) \in Seq(S) /\ Len(Tail(rest)) = Len(rest) - 1
      /\ \A j \in 1..Len(Tail(rest)) : Tail(rest)[j] = rest[j + 1]
  BY <1>1, <1>3
<1>5. Tail(rest) = more
  <2>1. rest \in Seq(S) /\ more \in Seq(S) /\ Tail(rest) \in Seq(S) /\ Len(Tail(rest)) = Len(more)
    BY <1>1, <1>2, <1>4
  <2>2. \A j \in 1..Len(Tail(rest)) : Tail(rest)[j] = more[j]
    <3> TAKE j \in 1..Len(Tail(rest))
    <3>1. j + 1 \in 1..Len(rest) /\ j \in 1..Len(more) /\ i + (j + 1) - 1 = i + j
      BY <1>1, <1>2, <1>4
    <3>2. Tail(rest)[j] = s[i + (j + 1) - 1]
      BY <3>1, <1>1, <1>4
    <3> QED
      BY <3>1, <3>2, <1>2
  <2> QED
    BY <2>1, <2>2, SeqEqual, Zenon
<1> QED
  BY <1>3, <1>5 DEF rest, more

LEMMA WhereItIs ==
  ASSUME schema \in 0..4, NEW i \in Int, At(i)
  PROVE  LET step == Head(work)
             last == Len(Saved(schema + 1))
         IN /\ work # <<>> /\ last \in 3..6 /\ i \in 1..last
            /\ Tail(work) = SubSeq(Saved(schema + 1), i + 1, last)
            /\ step.do = "times" => schema = 0 /\ i = 1 /\ last = 3
            /\ step.do = "kinds" => schema = 1 /\ i = 1 /\ last = 6
            /\ step.do = "front" => schema = 1 /\ i \in 2..4 /\ step.node = Walk[i - 1] /\ last = 6
            /\ step.do = "meta" => schema = 2 /\ i \in 1..3 /\ step.node = Walk[i] /\ last = 5
            /\ step.do = "index" => schema = 3 /\ i \in 1..3 /\ step.node = Walk[i] /\ last = 5
            /\ step.do = "order" => schema = 4 /\ i \in 1..4 /\ last = 6
                                    /\ step.node = IF i = 1 THEN TreeTop ELSE Walk[i - 1]
            /\ step.do = "tree" => i = last - 1
            /\ step.do = "schema" => i = last /\ step.node = schema + 1
            /\ step.do \notin {"rebuild", "remove"}
<1>1. Saved(schema + 1) \in Seq(MigrationStep) /\ i \in 1..Len(Saved(schema + 1))
  BY StepsTyped DEF At
<1>2. work # <<>> /\ Head(work) = Saved(schema + 1)[i]
      /\ Tail(work) = SubSeq(Saved(schema + 1), i + 1, Len(Saved(schema + 1)))
  BY <1>1, RestOfSteps DEF At
<1>3. CASE schema = 0
  <2>1. schema + 1 = 1 /\ Len(Saved(1)) = 3
    BY <1>3, StepTables
  <2>2. i \in 1..3 /\ Head(work) = Saved(1)[i]
    BY <1>1, <1>2, <2>1
  <2>3. CASE i = 1
    <3>1. Head(work) = Do("times", 0)
      BY <2>2, <2>3, StepTables, Zenon
    <3>2. Head(work).do = "times" /\ Head(work).node = 0
      BY <3>1 DEF Do
    <3> QED
      BY <1>2, <1>3, <2>1, <2>3, <3>2 DEF Walk, TreeTop
  <2>4. CASE i = 2
    <3>1. Head(work) = Do("tree", 0)
      BY <2>2, <2>4, StepTables, Zenon
    <3>2. Head(work).do = "tree" /\ Head(work).node = 0
      BY <3>1 DEF Do
    <3> QED
      BY <1>2, <1>3, <2>1, <2>4, <3>2 DEF Walk, TreeTop
  <2>5. CASE i = 3
    <3>1. Head(work) = Do("schema", 1)
      BY <2>2, <2>5, StepTables, Zenon
    <3>2. Head(work).do = "schema" /\ Head(work).node = 1
      BY <3>1 DEF Do
    <3> QED
      BY <1>2, <1>3, <2>1, <2>5, <3>2 DEF Walk, TreeTop
  <2>6. i = 1 \/ i = 2 \/ i = 3
    BY <2>2
  <2> QED
    BY <2>3, <2>4, <2>5, <2>6, Zenon
<1>4. CASE schema = 1
  <2>1. schema + 1 = 2 /\ Len(Saved(2)) = 6
    BY <1>4, StepTables
  <2>2. i \in 1..6 /\ Head(work) = Saved(2)[i]
    BY <1>1, <1>2, <2>1
  <2>3. CASE i = 1
    <3>1. Head(work) = Do("kinds", 0)
      BY <2>2, <2>3, StepTables, Zenon
    <3>2. Head(work).do = "kinds" /\ Head(work).node = 0
      BY <3>1 DEF Do
    <3> QED
      BY <1>2, <1>4, <2>1, <2>3, <3>2 DEF Walk, TreeTop
  <2>4. CASE i = 2
    <3>1. Head(work) = Do("front", 2)
      BY <2>2, <2>4, StepTables, Zenon
    <3>2. Head(work).do = "front" /\ Head(work).node = 2
      BY <3>1 DEF Do
    <3> QED
      BY <1>2, <1>4, <2>1, <2>4, <3>2 DEF Walk, TreeTop
  <2>5. CASE i = 3
    <3>1. Head(work) = Do("front", 1)
      BY <2>2, <2>5, StepTables, Zenon
    <3>2. Head(work).do = "front" /\ Head(work).node = 1
      BY <3>1 DEF Do
    <3> QED
      BY <1>2, <1>4, <2>1, <2>5, <3>2 DEF Walk, TreeTop
  <2>6. CASE i = 4
    <3>1. Head(work) = Do("front", 3)
      BY <2>2, <2>6, StepTables, Zenon
    <3>2. Head(work).do = "front" /\ Head(work).node = 3
      BY <3>1 DEF Do
    <3> QED
      <4>1. Walk[i - 1] = 3
        BY <2>6 DEF Walk
      <4> QED
        BY <1>2, <1>4, <2>1, <2>6, <3>2, <4>1
  <2>7. CASE i = 5
    <3>1. Head(work) = Do("tree", 0)
      BY <2>2, <2>7, StepTables, Zenon
    <3>2. Head(work).do = "tree" /\ Head(work).node = 0
      BY <3>1 DEF Do
    <3> QED
      BY <1>2, <1>4, <2>1, <2>7, <3>2 DEF Walk, TreeTop
  <2>8. CASE i = 6
    <3>1. Head(work) = Do("schema", 2)
      BY <2>2, <2>8, StepTables, Zenon
    <3>2. Head(work).do = "schema" /\ Head(work).node = 2
      BY <3>1 DEF Do
    <3> QED
      BY <1>2, <1>4, <2>1, <2>8, <3>2 DEF Walk, TreeTop
  <2>9. i = 1 \/ i = 2 \/ i = 3 \/ i = 4 \/ i = 5 \/ i = 6
    BY <2>2
  <2> QED
    BY <2>3, <2>4, <2>5, <2>6, <2>7, <2>8, <2>9, Zenon
<1>5. CASE schema = 2
  <2>1. schema + 1 = 3 /\ Len(Saved(3)) = 5
    BY <1>5, StepTables
  <2>2. i \in 1..5 /\ Head(work) = Saved(3)[i]
    BY <1>1, <1>2, <2>1
  <2>3. CASE i = 1
    <3>1. Head(work) = Do("meta", 2)
      BY <2>2, <2>3, StepTables, Zenon
    <3>2. Head(work).do = "meta" /\ Head(work).node = 2
      BY <3>1 DEF Do
    <3> QED
      BY <1>2, <1>5, <2>1, <2>3, <3>2 DEF Walk, TreeTop
  <2>4. CASE i = 2
    <3>1. Head(work) = Do("meta", 1)
      BY <2>2, <2>4, StepTables, Zenon
    <3>2. Head(work).do = "meta" /\ Head(work).node = 1
      BY <3>1 DEF Do
    <3> QED
      BY <1>2, <1>5, <2>1, <2>4, <3>2 DEF Walk, TreeTop
  <2>5. CASE i = 3
    <3>1. Head(work) = Do("meta", 3)
      BY <2>2, <2>5, StepTables, Zenon
    <3>2. Head(work).do = "meta" /\ Head(work).node = 3
      BY <3>1 DEF Do
    <3> QED
      BY <1>2, <1>5, <2>1, <2>5, <3>2 DEF Walk, TreeTop
  <2>6. CASE i = 4
    <3>1. Head(work) = Do("tree", 0)
      BY <2>2, <2>6, StepTables, Zenon
    <3>2. Head(work).do = "tree" /\ Head(work).node = 0
      BY <3>1 DEF Do
    <3> QED
      BY <1>2, <1>5, <2>1, <2>6, <3>2 DEF Walk, TreeTop
  <2>7. CASE i = 5
    <3>1. Head(work) = Do("schema", 3)
      BY <2>2, <2>7, StepTables, Zenon
    <3>2. Head(work).do = "schema" /\ Head(work).node = 3
      BY <3>1 DEF Do
    <3> QED
      BY <1>2, <1>5, <2>1, <2>7, <3>2 DEF Walk, TreeTop
  <2>8. i = 1 \/ i = 2 \/ i = 3 \/ i = 4 \/ i = 5
    BY <2>2
  <2> QED
    BY <2>3, <2>4, <2>5, <2>6, <2>7, <2>8, Zenon
<1>6. CASE schema = 3
  <2>1. schema + 1 = 4 /\ Len(Saved(4)) = 5
    BY <1>6, StepTables
  <2>2. i \in 1..5 /\ Head(work) = Saved(4)[i]
    BY <1>1, <1>2, <2>1
  <2>3. CASE i = 1
    <3>1. Head(work) = Do("index", 2)
      BY <2>2, <2>3, StepTables, Zenon
    <3>2. Head(work).do = "index" /\ Head(work).node = 2
      BY <3>1 DEF Do
    <3> QED
      BY <1>2, <1>6, <2>1, <2>3, <3>2 DEF Walk, TreeTop
  <2>4. CASE i = 2
    <3>1. Head(work) = Do("index", 1)
      BY <2>2, <2>4, StepTables, Zenon
    <3>2. Head(work).do = "index" /\ Head(work).node = 1
      BY <3>1 DEF Do
    <3> QED
      BY <1>2, <1>6, <2>1, <2>4, <3>2 DEF Walk, TreeTop
  <2>5. CASE i = 3
    <3>1. Head(work) = Do("index", 3)
      BY <2>2, <2>5, StepTables, Zenon
    <3>2. Head(work).do = "index" /\ Head(work).node = 3
      BY <3>1 DEF Do
    <3> QED
      BY <1>2, <1>6, <2>1, <2>5, <3>2 DEF Walk, TreeTop
  <2>6. CASE i = 4
    <3>1. Head(work) = Do("tree", 0)
      BY <2>2, <2>6, StepTables, Zenon
    <3>2. Head(work).do = "tree" /\ Head(work).node = 0
      BY <3>1 DEF Do
    <3> QED
      BY <1>2, <1>6, <2>1, <2>6, <3>2 DEF Walk, TreeTop
  <2>7. CASE i = 5
    <3>1. Head(work) = Do("schema", 4)
      BY <2>2, <2>7, StepTables, Zenon
    <3>2. Head(work).do = "schema" /\ Head(work).node = 4
      BY <3>1 DEF Do
    <3> QED
      BY <1>2, <1>6, <2>1, <2>7, <3>2 DEF Walk, TreeTop
  <2>8. i = 1 \/ i = 2 \/ i = 3 \/ i = 4 \/ i = 5
    BY <2>2
  <2> QED
    BY <2>3, <2>4, <2>5, <2>6, <2>7, <2>8, Zenon
<1>7. CASE schema = 4
  <2>1. schema + 1 = 5 /\ Len(Saved(5)) = 6
    BY <1>7, StepTables
  <2>2. i \in 1..6 /\ Head(work) = Saved(5)[i]
    BY <1>1, <1>2, <2>1
  <2>3. CASE i = 1
    <3>1. Head(work) = Do("order", 0)
      BY <2>2, <2>3, StepTables, Zenon
    <3>2. Head(work).do = "order" /\ Head(work).node = 0
      BY <3>1 DEF Do
    <3> QED
      BY <1>2, <1>7, <2>1, <2>3, <3>2 DEF Walk, TreeTop
  <2>4. CASE i = 2
    <3>1. Head(work) = Do("order", 2)
      BY <2>2, <2>4, StepTables, Zenon
    <3>2. Head(work).do = "order" /\ Head(work).node = 2
      BY <3>1 DEF Do
    <3> QED
      BY <1>2, <1>7, <2>1, <2>4, <3>2 DEF Walk, TreeTop
  <2>5. CASE i = 3
    <3>1. Head(work) = Do("order", 1)
      BY <2>2, <2>5, StepTables, Zenon
    <3>2. Head(work).do = "order" /\ Head(work).node = 1
      BY <3>1 DEF Do
    <3> QED
      BY <1>2, <1>7, <2>1, <2>5, <3>2 DEF Walk, TreeTop
  <2>6. CASE i = 4
    <3>1. Head(work) = Do("order", 3)
      BY <2>2, <2>6, StepTables, Zenon
    <3>2. Head(work).do = "order" /\ Head(work).node = 3
      BY <3>1 DEF Do
    <3> QED
      BY <1>2, <1>7, <2>1, <2>6, <3>2 DEF Walk, TreeTop
  <2>7. CASE i = 5
    <3>1. Head(work) = Do("tree", 0)
      BY <2>2, <2>7, StepTables, Zenon
    <3>2. Head(work).do = "tree" /\ Head(work).node = 0
      BY <3>1 DEF Do
    <3> QED
      BY <1>2, <1>7, <2>1, <2>7, <3>2 DEF Walk, TreeTop
  <2>8. CASE i = 6
    <3>1. Head(work) = Do("schema", 5)
      BY <2>2, <2>8, StepTables, Zenon
    <3>2. Head(work).do = "schema" /\ Head(work).node = 5
      BY <3>1 DEF Do
    <3> QED
      BY <1>2, <1>7, <2>1, <2>8, <3>2 DEF Walk, TreeTop
  <2>9. i = 1 \/ i = 2 \/ i = 3 \/ i = 4 \/ i = 5 \/ i = 6
    BY <2>2
  <2> QED
    BY <2>3, <2>4, <2>5, <2>6, <2>7, <2>8, <2>9, Zenon
<1>8. schema = 0 \/ schema = 1 \/ schema = 2 \/ schema = 3 \/ schema = 4
  OBVIOUS
<1> QED
  BY <1>3, <1>4, <1>5, <1>6, <1>7, <1>8, Zenon

LEMMA AtTheNext ==
  ASSUME schema \in 0..4, NEW i \in Int, At(i), i < Len(Saved(schema + 1)), work' = Tail(work), schema' = schema
  PROVE  At(i + 1)'
<1>1. i \in 1..Len(Saved(schema + 1)) /\ Tail(work) = SubSeq(Saved(schema + 1), i + 1, Len(Saved(schema + 1)))
  BY WhereItIs
<1> QED
  BY <1>1, WhereItIs DEF At

LEMMA AtTheFirst ==
  ASSUME NEW v \in 0..4, schema' = v, work' = After(v)
  PROVE  At(1)' /\ Len(Saved(v + 1)) \in 3..6
<1>1. Saved(v + 1) \in Seq(MigrationStep)
  BY StepsTyped
<1>2. Len(Saved(v + 1)) \in 3..6
  BY StepTables
<1>3. SubSeq(Saved(v + 1), 1, Len(Saved(v + 1))) = Saved(v + 1)
  BY <1>1, <1>2
<1> QED
  BY <1>2, <1>3 DEF At, After, Current

LEMMA PutIs ==
  ASSUME NEW f, NEW x, NEW v
  PROVE  /\ DOMAIN Put(f, x, v) = DOMAIN f \cup {x} /\ Put(f, x, v)[x] = v
         /\ \A y \in DOMAIN f : y # x => Put(f, x, v)[y] = f[y]
BY DEF Put

LEMMA PutStays ==
  ASSUME NEW S, NEW f, f \in [DOMAIN f -> S], NEW x, NEW v \in S
  PROVE  Put(f, x, v) \in [DOMAIN Put(f, x, v) -> S]
BY DEF Put

LEMMA PagesAre == Page = {1, 2, 3} /\ Walk[1] = 2 /\ Walk[2] = 1 /\ Walk[3] = 3
BY DEF Page, Walk

LEMMA LastSteps ==
  LET x == Do("rebuild", TreeTop)
      y == Do("remove", TreeTop)
  IN /\ Head(After(Current)) = x /\ Tail(After(Current)) = <<y>> /\ After(Current) # <<>>
     /\ Head(<<x>>) = x /\ Tail(<<x>>) = <<>> /\ <<x>> # <<>>
     /\ Head(<<y>>) = y /\ Tail(<<y>>) = <<>> /\ <<y>> # <<>>
     /\ x.do = "rebuild" /\ y.do = "remove"
<1> DEFINE x == Do("rebuild", TreeTop)
           y == Do("remove", TreeTop)
<1>1. x.do = "rebuild" /\ y.do = "remove"
  BY DEF Do
<1>2. After(Current) = <<x, y>>
  BY DEF After, Current
<1> HIDE DEF x, y
<1>3. /\ Head(<<x, y>>) = x /\ Tail(<<x, y>>) = <<y>> /\ <<x, y>> # <<>>
  OBVIOUS
<1>4. \A z : Head(<<z>>) = z /\ Tail(<<z>>) = <<>> /\ <<z>> # <<>>
  OBVIOUS
<1> QED
  BY <1>1, <1>2, <1>3, <1>4, Zenon DEF x, y

(* A step of a version is at its place, and leads to the next one. *)
LEMMA InAVersion ==
  ASSUME MigrationInv, NEW do, Has(do), do \notin {"rebuild", "remove"}
  PROVE  /\ schema \in 0..4 /\ Head(work).do = do
         /\ TreeAt(mem, schema)
         /\ \E i \in 1..6 : At(i) /\ Progress(i)
<1>1. state = "starting" /\ Head(work).do = do
  BY DEF Has
<1>2. schema # Current
  BY <1>1, LastSteps, Zenon DEF MigrationInv, StartOK
<1> QED
  BY <1>1, <1>2 DEF MigrationInv, StartOK, MigrationTypeOK, Current

LEMMA VersionGoesOn ==
  ASSUME MigrationInv, schema \in 0..4, state = "starting", NEW i \in 1..6, At(i), i < Len(Saved(schema + 1)),
         Done, schema' = schema,
         TreeAt(mem, schema)', Progress(i + 1)', MigrationTypeOK', DiskOK', SchemaOK'
  PROVE  MigrationInv'
<1>1. At(i + 1)' /\ i + 1 \in 1..6
  <2>1. i \in Int /\ work' = Tail(work)
    BY DEF Done
  <2>2. Len(Saved(schema + 1)) \in 3..6
    BY <2>1, WhereItIs
  <2>3. At(i + 1)'
    BY <2>1, AtTheNext
  <2>4. i + 1 \in 1..6
    <3> DEFINE last == Len(Saved(schema + 1))
    <3>1. last \in 3..6 /\ i < last
      BY <2>2
    <3> HIDE DEF last
    <3> QED
      BY <3>1
  <2> QED
    BY <2>3, <2>4, Zenon
<1>2. \E j \in 1..6 : At(j)' /\ Progress(j)'
  BY <1>1
<1>3. StartOK'
  BY <1>2 DEF StartOK, Done, Current
<1> QED
  BY <1>3 DEF MigrationInv
LEMMA MigrationStarts == MigrationInit => MigrationInv
<1> SUFFICES ASSUME MigrationInit PROVE MigrationInv
  OBVIOUS
<1>1. PICK shape \in Shapes, bare \in BOOLEAN, kinds \in BOOLEAN :
        /\ folder = IF bare \/ <<1, "index">> \in shape \/ <<3, "file">> \in shape THEN {1} ELSE {}
        /\ text = [p \in shape |-> File(0, FALSE, "zero", "old")]
        /\ snapshot = [n \in Page |-> [kind |-> IF kinds /\ Resolved(n) # "none" THEN Resolved(n) ELSE "",
                                       created |-> "zero"]]
        /\ had = shape \cup {<<n, "folder">> : n \in folder}
        /\ mem = snapshot /\ sorted = [n \in {} |-> <<>>] /\ schema = 0 /\ state = "down"
  BY DEF MigrationInit
<1>2. shape \subseteq {<<1, "file">>, <<1, "index">>, <<2, "file">>, <<3, "file">>}
  BY DEF Shapes
<1>3. folder \subseteq {1} /\ DOMAIN text = shape
      /\ \A p \in shape : text[p] = [id |-> 0, title |-> FALSE, created |-> "zero", age |-> "old"]
  BY <1>1 DEF File
<1>4. MigrationTypeOK
  <2>1. had \subseteq Page \X {"file", "index", "folder"}
    <3>1. ASSUME NEW p \in shape PROVE p \in Page \X {"file", "index", "folder"}
      BY <1>2 DEF Page
    <3>2. ASSUME NEW n \in folder PROVE <<n, "folder">> \in Page \X {"file", "index", "folder"}
      BY <1>3 DEF Page
    <3> QED
      BY <1>1, <3>1, <3>2
  <2>2. DOMAIN text \subseteq Spots
    BY <1>2, <1>3 DEF Spots, Page
  <2>3. text \in [DOMAIN text -> Content]
    <3>1. [id |-> 0, title |-> FALSE, created |-> "zero", age |-> "old"] \in Content
      BY DEF Content
    <3>2. text = [p \in shape |-> text[p]]
      BY <1>1
    <3> QED
      BY <1>3, <3>1, <3>2
  <2>4. sorted \in [DOMAIN sorted -> Seq(Page)]
    BY <1>1
  <2> QED
    <3>1. schema \in -1..Current
      <4>1. schema = 0
        BY <1>1
      <4> QED
        BY <4>1 DEF Current
    <3>2. state \in {"down", "starting", "up", "refused"}
      BY <1>1
    <3> QED
      BY <1>3, <2>1, <2>2, <2>3, <2>4, <3>1, <3>2, Zenon DEF MigrationTypeOK
<1>5. \A n \in Page, what \in {"file", "index"} : <<n, what>> \in had <=> <<n, what>> \in shape
  BY <1>1
<1>6. \A n \in Page : <<n, "folder">> \in had <=> n \in folder
  BY <1>1, <1>2
<1>7. \A n \in Page : n \in Present <=> <<n, "file">> \in shape \/ <<n, "index">> \in shape \/ n \in folder
  <2>1. \A p \in had : p \in shape \/ \E n \in folder : p = <<n, "folder">>
    BY <1>1
  <2>2. ASSUME NEW n \in Page, n \in Present
        PROVE  <<n, "file">> \in shape \/ <<n, "index">> \in shape \/ n \in folder
    <3>1. PICK p \in had : p[1] = n
      BY <2>2 DEF Present
    <3> QED
      BY <1>2, <2>1, <3>1
  <2>3. ASSUME NEW n \in Page, <<n, "file">> \in shape \/ <<n, "index">> \in shape \/ n \in folder
        PROVE  n \in Present
    <3>1. <<n, "file">> \in had \/ <<n, "index">> \in had \/ <<n, "folder">> \in had
      BY <1>1, <2>3
    <3> QED
      BY <3>1 DEF Present
  <2> QED
    BY <2>2, <2>3
<1>8. DiskOK
  <2>1. CASE TwoPlaces
    BY <1>2, <1>3, <1>5, <2>1 DEF DiskOK, TwoPlaces, Page
  <2>2. CASE ~TwoPlaces
    <3>1. <<1, "file">> \notin DOMAIN text
      BY <1>3, <1>5, <2>2 DEF TwoPlaces, Page
    <3>2. \A n \in {2, 3} : <<n, "file">> \in DOMAIN text <=> n \in Present
      BY <1>2, <1>3, <1>7 DEF Page
    <3>3. (1 \in Present \/ 3 \in Present) => 1 \in folder
      <4>1. CASE 1 \in Present
        <5>1. <<1, "file">> \in shape \/ <<1, "index">> \in shape \/ 1 \in folder
          BY <1>7, <4>1 DEF Page
        <5> QED
          BY <1>1, <1>3, <3>1, <5>1
      <4>2. CASE 3 \in Present
        <5>1. <<3, "file">> \in shape
          BY <1>2, <1>3, <1>7, <4>2 DEF Page
        <5> QED
          BY <1>1, <5>1
      <4> QED
        BY <4>1, <4>2
    <3>4. \A n \in Page : Seat(n) \in DOMAIN text => text[Seat(n)].id \in {0, n}
      BY <1>3
    <3> QED
      BY <2>2, <3>1, <3>2, <3>3, <3>4 DEF DiskOK
  <2> QED
    BY <2>1, <2>2
<1>9. SchemaOK
  <2>1. \A n \in Page : Resolved(n) \in {"page", "section", "none"} /\ (n # 1 => Resolved(n) # "section")
                        /\ (Resolved(n) = "page" => <<n, "file">> \in shape)
    BY <1>3 DEF Resolved, Written
  <2>2. snapshot \in Trees
    BY <1>1, <2>1 DEF Trees
  <2>3. \A n \in {2, 3} : snapshot[n].kind # "section"
    <3>1. ASSUME NEW n \in {2, 3} PROVE n \in Page /\ Resolved(n) # "section"
      BY <2>1 DEF Page
    <3>2. \A n \in Page : snapshot[n].kind = IF kinds /\ Resolved(n) # "none" THEN Resolved(n) ELSE ""
      BY <1>1
    <3> QED
      BY <3>1, <3>2
  <2>4. ~TwoPlaces => snapshot[1].kind # "page"
    <3>1. 1 \in Page
      BY DEF Page
    <3>2. ~TwoPlaces => <<1, "file">> \notin shape
      BY <1>1 DEF TwoPlaces
    <3>3. snapshot[1].kind = IF kinds /\ Resolved(1) # "none" THEN Resolved(1) ELSE ""
      BY <1>1, <3>1
    <3> QED
      BY <2>1, <3>1, <3>2, <3>3
  <2>5. \A n \in Page : snapshot[n].created = "zero"
    BY <1>1
  <2>6. TreeAt(snapshot, 0)
    BY <2>2, <2>3, <2>4, <2>5 DEF TreeAt
  <2>7. \A p \in Spots : p \in DOMAIN text <=> p \in had
    <3> TAKE p \in Spots
    <3>1. PICK n \in Page, what \in {"file", "index"} : p = <<n, what>>
      BY DEF Spots
    <3> QED
      BY <1>3, <1>5, <3>1
  <2> QED
    <3>1. \A p \in DOMAIN text : text[p].age = "old"
      BY <1>3
    <3>2. schema = 0 /\ TreeAt(snapshot, schema)
      BY <1>1, <2>6
    <3> QED
      BY <1>6, <2>7, <3>1, <3>2 DEF SchemaOK, Current
<1>10. StartOK
  BY <1>1 DEF StartOK
<1> QED
  BY <1>4, <1>8, <1>9, <1>10 DEF MigrationInv

LEMMA BackfillMetadataKeeps == ASSUME MigrationInv, BackfillMetadata PROVE MigrationInv'
<1>1. Has("times") /\ Done /\ UNCHANGED <<snapshot, text, folder, sorted, schema>>
      /\ mem' = [n \in Page |-> IF ~Dated(n) /\ Reached(n) THEN [mem[n] EXCEPT !.created = Age(n)] ELSE mem[n]]
  BY DEF BackfillMetadata, InTree
<1>2. state = "starting" /\ schema \in 0..4 /\ Head(work).do = "times" /\ TreeAt(mem, schema)
  BY <1>1, InAVersion DEF Has
<1>3. PICK i \in 1..6 : At(i) /\ Progress(i)
  BY <1>1, InAVersion
<1>4. schema = 0 /\ i = 1 /\ Len(Saved(schema + 1)) = 3
  BY <1>2, <1>3, WhereItIs
<1>5. \A n \in Page : Age(n) = "old"
  BY <1>4 DEF Age, Written, MigrationInv, SchemaOK
<1>6. \A n \in Page : mem'[n].kind = mem[n].kind /\ mem'[n].created = IF ~Dated(n) /\ Reached(n) THEN "old" ELSE mem[n].created
  BY <1>1, <1>2, <1>5 DEF TreeAt, Trees
<1>7. mem' \in Trees
  BY <1>1, <1>2, <1>5 DEF TreeAt, Trees
<1>8. ASSUME ~TwoPlaces PROVE Times(mem')
  <2>1. \A n \in Page : Resolved(n) # "none" <=> n \in Present
    <3> TAKE n \in Page
    <3>1. Resolved(n) # "none" => n \in Present
      <4>1. <<n, "file">> \in DOMAIN text => <<n, "file">> \in had
        <5>1. <<n, "file">> \in Spots
          BY DEF Spots
        <5> QED
          BY <1>4, <5>1 DEF MigrationInv, SchemaOK
      <4>2. n \in folder => <<n, "folder">> \in had
        BY <1>4 DEF MigrationInv, SchemaOK
      <4>3. \A what : <<n, what>> \in had => n \in Present
        BY DEF Present
      <4> QED
        BY <4>1, <4>2, <4>3 DEF Resolved, Written
    <3>2. n \in Present => Resolved(n) # "none"
      BY <1>8, PagesAre DEF Resolved, Written, MigrationInv, DiskOK
    <3> QED
      BY <3>1, <3>2
  <2>2. CASE Times(mem)
    <3>1. ASSUME NEW n \in Page PROVE mem'[n].created = IF n \in Present THEN "old" ELSE "zero"
      <4>1. n \in Present => Dated(n)
        BY <2>2 DEF Times, Dated
      <4>2. n \notin Present => ~Reached(n)
        BY <2>1 DEF Reached
      <4> QED
        BY <1>6, <2>2, <4>1, <4>2 DEF Times
    <3> QED
      BY <3>1 DEF Times
  <2>3. CASE \A n \in Page : mem[n].created = "zero"
    <3>1. ASSUME NEW n \in Page PROVE mem'[n].created = IF n \in Present THEN "old" ELSE "zero"
      <4>1. ~Dated(n) /\ ~Dated(1)
        BY <2>3, PagesAre DEF Dated
      <4>2. 3 \in Present => 1 \in Present
        <5>1. 3 \in Present => 1 \in folder
          BY <1>8 DEF MigrationInv, DiskOK
        <5>2. 1 \in folder => Resolved(1) # "none"
          BY DEF Resolved
        <5> QED
          BY <2>1, <5>1, <5>2, PagesAre
      <4>3. Reached(n) <=> n \in Present
        BY <2>1, <4>1, <4>2, PagesAre DEF Reached, Above, TreeTop
      <4> QED
        BY <1>6, <2>3, <4>1, <4>3
    <3> QED
      BY <3>1 DEF Times
  <2> QED
    BY <1>2, <1>4, <1>8, <2>2, <2>3 DEF TreeAt
<1>9. had' = had /\ text' = text /\ folder' = folder /\ sorted' = sorted /\ schema' = schema /\ snapshot' = snapshot
  BY <1>1 DEF Done
<1>10. TreeAt(mem, schema)'
  BY <1>2, <1>4, <1>6, <1>7, <1>8, <1>9, PagesAre DEF TreeAt, TwoPlaces, Times, Present
<1>11. Progress(i + 1)'
  BY <1>4, <1>8, <1>9, PagesAre DEF Progress, TwoPlaces, Times, Present
<1>12. MigrationTypeOK' /\ DiskOK' /\ SchemaOK'
  BY <1>1, <1>9 DEF MigrationInv, MigrationTypeOK, DiskOK, SchemaOK, TwoPlaces, Present, TreeAt, Times, KindsOf, Titled, TimesIn, TopSorted, Done
<1> QED
  BY <1>1, <1>2, <1>3, <1>4, <1>9, <1>10, <1>11, <1>12, VersionGoesOn

LEMMA BackfillKindKeeps == ASSUME MigrationInv, BackfillKind PROVE MigrationInv'
<1>1. Has("kinds") /\ Done /\ UNCHANGED <<snapshot, text, folder, sorted, schema>>
      /\ mem' = [n \in Page |->
           IF mem[n].kind # "" THEN mem[n]
           ELSE [mem[n] EXCEPT !.kind = IF Resolved(n) # "none" THEN Resolved(n)
                                        ELSE IF SortedAs(n) # <<>> THEN "section" ELSE "page"]]
  BY DEF BackfillKind, InTree
<1>2. state = "starting" /\ schema \in 0..4 /\ Head(work).do = "kinds" /\ TreeAt(mem, schema)
  BY <1>1, InAVersion DEF Has
<1>3. PICK i \in 1..6 : At(i) /\ Progress(i)
  BY <1>1, InAVersion
<1>4. schema = 1 /\ i = 1 /\ Len(Saved(schema + 1)) = 6
  BY <1>2, <1>3, WhereItIs
<1> DEFINE kind(n) == IF Resolved(n) # "none" THEN Resolved(n) ELSE IF SortedAs(n) # <<>> THEN "section" ELSE "page"
<1>5. \A n \in Page : kind(n) \in {"page", "section"}
  BY DEF Resolved
<1>6. kind(2) = "page" /\ kind(3) = "page"
  BY DEF Resolved, SortedAs, TreeTop, MigrationInv, MigrationTypeOK
<1>7. ~TwoPlaces => kind(1) = "section"
  <2>1. SortedAs(1) # <<>>
    BY DEF SortedAs, TreeTop
  <2> QED
    BY <2>1 DEF Resolved, Written, MigrationInv, DiskOK
<1> HIDE DEF kind
<1>8. mem' = [n \in Page |-> IF mem[n].kind # "" THEN mem[n] ELSE [mem[n] EXCEPT !.kind = kind(n)]]
  BY <1>1 DEF kind
<1>9. mem' \in Trees /\ \A n \in Page : /\ mem'[n].created = mem[n].created
                                        /\ mem'[n].kind = IF mem[n].kind # "" THEN mem[n].kind ELSE kind(n)
  BY <1>2, <1>5, <1>8 DEF TreeAt, Trees
<1>10. had' = had /\ text' = text /\ folder' = folder /\ sorted' = sorted /\ schema' = schema /\ snapshot' = snapshot
  BY <1>1 DEF Done
<1>11. \A n \in Page : mem[n].kind \in {"", "page", "section"}
  BY <1>2 DEF TreeAt, Trees
<1>12. \A n \in {2, 3} : mem'[n].kind = "page"
  BY <1>2, <1>6, <1>9, <1>11, PagesAre DEF TreeAt
<1>13. ~TwoPlaces => mem'[1].kind = "section"
  BY <1>2, <1>7, <1>9, <1>11, PagesAre DEF TreeAt
<1>14. ~TwoPlaces => KindsOf(mem')
  BY <1>12, <1>13, PagesAre DEF KindsOf, KindOf
<1>15. ~TwoPlaces => Times(mem')
  <2>1. ~TwoPlaces => Times(mem)
    BY <1>2, <1>4 DEF TreeAt
  <2> QED
    BY <1>9, <2>1 DEF Times
<1>16. TreeAt(mem, schema)'
  BY <1>4, <1>9, <1>10, <1>12, <1>13, <1>14, <1>15 DEF TreeAt, TwoPlaces, Times, Present, KindsOf
<1>17. Progress(i + 1)'
  BY <1>4, <1>10, <1>14, PagesAre DEF Progress, TwoPlaces, KindsOf
<1>18. MigrationTypeOK' /\ DiskOK' /\ SchemaOK'
  BY <1>1, <1>10 DEF MigrationInv, MigrationTypeOK, DiskOK, SchemaOK, TwoPlaces, Present, TreeAt, Times, KindsOf, Titled, TimesIn, TopSorted, Done
<1>19. i < Len(Saved(schema + 1))
  <2> DEFINE last == Len(Saved(schema + 1))
  <2>1. last = 6 /\ i = 1
    BY <1>4
  <2> HIDE DEF last
  <2>2. i < last
    BY <2>1
  <2> QED
    BY <2>2 DEF last
<1> QED
  BY <1>1, <1>2, <1>3, <1>10, <1>16, <1>17, <1>18, <1>19, VersionGoesOn, Zenon
LEMMA AddFrontmatterKeeps == ASSUME MigrationInv, AddFrontmatter PROVE MigrationInv'
<1> DEFINE n == It
           new == [Contents(n) EXCEPT !.id = IF @ = 0 THEN n ELSE @, !.title = TRUE, !.age = "now"]
<1>1. /\ Has("front") /\ Done /\ UNCHANGED <<snapshot, sorted, schema, mem>>
      /\ mem[n].kind = "page" => Own(n) \in DOMAIN text
      /\ text' = IF Contents(n).id # 0 /\ Contents(n).title THEN text ELSE Put(text, Own(n), new)
      /\ folder' = IF mem[n].kind = "section" THEN folder \cup Ancestors(n) ELSE folder
  BY DEF AddFrontmatter, InFiles, Drifted, Written
<1>2. state = "starting" /\ schema \in 0..4 /\ Head(work).do = "front" /\ TreeAt(mem, schema)
  BY <1>1, InAVersion DEF Has
<1>3. PICK i \in 1..6 : At(i) /\ Progress(i)
  BY <1>1, InAVersion
<1>4. schema = 1 /\ i \in 2..4 /\ n = Walk[i - 1] /\ Len(Saved(schema + 1)) = 6
  BY <1>2, <1>3, WhereItIs DEF It
<1>5. n \in Page
  BY <1>4, PagesAre
<1> HIDE DEF n
<1>6. mem[n].kind = "section" => n = 1
  BY <1>2, <1>5, PagesAre DEF TreeAt
<1>7. Own(n) \in Spots
  BY <1>5 DEF Own, Place, Spots
<1>8. Contents(n) \in Content
  <2>1. File(0, FALSE, "zero", "now") \in Content
    BY DEF File, Content
  <2> QED
    BY <2>1 DEF Contents, Written, MigrationInv, MigrationTypeOK
<1>9. new \in Content /\ new.title = TRUE /\ new.id = (IF Contents(n).id = 0 THEN n ELSE Contents(n).id)
  <2> DEFINE c == Contents(n)
             id == IF c.id = 0 THEN n ELSE c.id
  <2>1. id \in Nat /\ c.created \in {"zero", "old", "now"} /\ c \in Content
    BY <1>5, <1>8, PagesAre DEF Content
  <2>2. new = [c EXCEPT !.id = id, !.title = TRUE, !.age = "now"]
    BY <1>8 DEF Content
  <2> HIDE DEF new, c, id
  <2>3. new = [id |-> id, title |-> TRUE, created |-> c.created, age |-> "now"]
    BY <2>1, <2>2 DEF Content
  <2>4. new \in Content
    BY <2>1, <2>3 DEF Content
  <2> QED
    BY <2>3, <2>4 DEF c, id
<1> HIDE DEF new
<1>10. text' = text \/ text' = Put(text, Own(n), new)
  BY <1>1
<1>11. DOMAIN text' \subseteq Spots /\ text' \in [DOMAIN text' -> Content] /\ DOMAIN text \subseteq DOMAIN text'
       /\ DOMAIN text' \subseteq DOMAIN text \cup {Own(n)}
  <2>1. CASE text' = text
    BY <2>1 DEF MigrationInv, MigrationTypeOK
  <2>2. CASE text' = Put(text, Own(n), new)
    <3>1. text' \in [DOMAIN text' -> Content]
      BY <1>9, <2>2, PutStays, Zenon DEF MigrationInv, MigrationTypeOK
    <3>2. DOMAIN text' = DOMAIN text \cup {Own(n)}
      BY <2>2, PutIs
    <3> QED
      BY <1>7, <3>1, <3>2 DEF MigrationInv, MigrationTypeOK
  <2> QED
    BY <1>10, <2>1, <2>2
<1>12. \A p \in DOMAIN text : p # Own(n) => text'[p] = text[p]
  <2>1. CASE text' = Put(text, Own(n), new)
    <3>1. \A p \in DOMAIN text : p # Own(n) => Put(text, Own(n), new)[p] = text[p]
      BY DEF Put
    <3> QED
      BY <2>1, <3>1, Zenon
  <2> QED
    BY <1>10, <2>1, Zenon
<1>13. folder' \subseteq {1} /\ folder \subseteq folder'
  BY <1>1, <1>6 DEF MigrationInv, MigrationTypeOK, Ancestors, Above
<1>14. had' = had /\ sorted' = sorted /\ schema' = schema /\ snapshot' = snapshot /\ mem' = mem /\ state' = state
  BY <1>1 DEF Done
<1>15. MigrationTypeOK'
  BY <1>11, <1>13, <1>14 DEF MigrationInv, MigrationTypeOK
<1>16. ASSUME ~TwoPlaces
       PROVE  Own(n) = Seat(n) /\ mem[n].kind = KindOf(n) /\ KindsOf(mem)
  <2>1. KindsOf(mem)
    BY <1>3, <1>4, <1>16 DEF Progress
  <2> QED
    BY <1>5, <2>1 DEF KindsOf, KindOf, Own, Place, Seat
<1>17. ASSUME ~TwoPlaces, NEW m \in Page
       PROVE  Seat(m) \in DOMAIN text' /\ m # n => Seat(m) \in DOMAIN text /\ text'[Seat(m)] = text[Seat(m)]
  <2>1. m # n => Seat(m) # Own(n)
    BY <1>16, <1>17 DEF Seat
  <2> QED
    BY <1>11, <1>12, <2>1
<1>18. ASSUME ~TwoPlaces
       PROVE  /\ KindOf(n) = "page" => Seat(n) \in DOMAIN text
              /\ Seat(n) \in DOMAIN text' /\ text'[Seat(n)].id = n /\ text'[Seat(n)].title
  <2>1. text' = IF Contents(n).id # 0 /\ Contents(n).title THEN text ELSE Put(text, Seat(n), new)
    BY <1>1, <1>16, <1>18
  <2>2. Seat(n) \notin DOMAIN text => Contents(n).id = 0
    BY <1>16, <1>18 DEF Contents, Written, File
  <2>3. Seat(n) \in DOMAIN text => Contents(n) = text[Seat(n)] /\ Contents(n).id \in {0, n}
    BY <1>5, <1>16, <1>18 DEF Contents, Written, MigrationInv, DiskOK
  <2>4. CASE Contents(n).id # 0 /\ Contents(n).title
    BY <1>1, <1>16, <1>18, <2>1, <2>2, <2>3, <2>4
  <2>5. CASE ~(Contents(n).id # 0 /\ Contents(n).title)
    <3>1. text' = Put(text, Seat(n), new)
      BY <2>1, <2>5
    <3>2. Seat(n) \in DOMAIN text' /\ text'[Seat(n)] = new
      <4>1. DOMAIN Put(text, Seat(n), new) = DOMAIN text \cup {Seat(n)} /\ Put(text, Seat(n), new)[Seat(n)] = new
        BY DEF Put
      <4> QED
        BY <3>1, <4>1
    <3>3. new.id = n /\ new.title
      BY <1>9, <2>2, <2>3
    <3> QED
      BY <1>1, <1>16, <1>18, <3>2, <3>3
  <2> QED
    BY <2>4, <2>5
<1>19. DiskOK'
  <2>1. CASE TwoPlaces
    BY <1>11, <1>14, <2>1 DEF MigrationInv, DiskOK, TwoPlaces
  <2>2. CASE ~TwoPlaces
    <3>1. <<1, "file">> \notin DOMAIN text'
      BY <1>11, <1>16, <2>2 DEF MigrationInv, DiskOK, Seat
    <3>2. ASSUME NEW m \in {2, 3} PROVE <<m, "file">> \in DOMAIN text' <=> m \in Present
      <4>1. <<m, "file">> = Seat(m) /\ m \in Page
        BY PagesAre DEF Seat
      <4>2. <<m, "file">> \in DOMAIN text' <=> <<m, "file">> \in DOMAIN text
        <5>1. CASE m = n
          <6>1. KindOf(n) = "page"
            BY <5>1 DEF KindOf
          <6> QED
            BY <1>11, <1>18, <2>2, <4>1, <5>1, <6>1
        <5>2. CASE m # n
          BY <1>11, <1>17, <2>2, <4>1, <5>2
        <5> QED
          BY <5>1, <5>2
      <4> QED
        BY <2>2, <4>2 DEF MigrationInv, DiskOK
    <3>3. ASSUME NEW m \in Page, Seat(m) \in DOMAIN text' PROVE text'[Seat(m)].id \in {0, m}
      <4>1. CASE m = n
        BY <1>18, <2>2, <3>3, <4>1
      <4>2. CASE m # n
        BY <1>17, <2>2, <3>3, <4>2 DEF MigrationInv, DiskOK
      <4> QED
        BY <4>1, <4>2
    <3> QED
      BY <1>13, <1>14, <2>2, <3>1, <3>2, <3>3 DEF MigrationInv, DiskOK, TwoPlaces, Present, Seat
  <2> QED
    BY <2>1, <2>2
<1>20. TreeAt(snapshot, schema)' /\ TreeAt(mem, schema)'
  <2>1. TreeAt(snapshot, schema)
    BY <1>4 DEF MigrationInv, SchemaOK, Current
  <2> QED
    BY <1>2, <1>14, <2>1 DEF TreeAt, TwoPlaces, Times, KindsOf, Present
<1>21. SchemaOK'
  BY <1>4, <1>14, <1>20 DEF SchemaOK, Current
<1>22. ASSUME ~TwoPlaces, NEW m \in Page, m = n \/ Titled(m)
       PROVE  Titled(m)'
  <2>1. CASE m = n
    <3>1. n = 1 \/ n \in Present => ~(KindOf(n) = "page" /\ Seat(n) \notin DOMAIN text)
      BY <1>5, <1>22, PagesAre DEF KindOf, Seat, MigrationInv, DiskOK
    <3> QED
      BY <1>14, <1>18, <1>22, <2>1, <3>1 DEF Titled, Present, Seat
  <2>2. CASE m # n
    <3>1. m = 1 \/ m \in Present => Seat(m) \in DOMAIN text /\ text[Seat(m)].id = m /\ text[Seat(m)].title
      BY <1>22, <2>2 DEF Titled
    <3>2. m = 1 \/ m \in Present => Seat(m) \in DOMAIN text'
      BY <1>11, <3>1
    <3> QED
      BY <1>14, <1>17, <1>22, <2>2, <3>1, <3>2 DEF Titled, Present, Seat
  <2> QED
    BY <2>1, <2>2
<1>23. Progress(i + 1)'
  <2>1. i + 1 # Len(Saved(schema + 1))
    <3> DEFINE last == Len(Saved(schema + 1))
    <3>1. last = 6 /\ i \in 2..4
      BY <1>4
    <3> HIDE DEF last
    <3>2. i + 1 # last
      BY <3>1
    <3> QED
      BY <3>2 DEF last
  <2>2. ASSUME ~TwoPlaces, NEW j \in 1..3, i + 1 > j + 1 PROVE Titled(Walk[j])'
    <3>1. Walk[j] \in Page
      BY PagesAre
    <3>2. Walk[j] = n \/ Titled(Walk[j])
      BY <1>3, <1>4, <2>2 DEF Progress
    <3> QED
      BY <1>22, <2>2, <3>1, <3>2
  <2>3. ~TwoPlaces => KindsOf(mem)'
    BY <1>14, <1>16 DEF KindsOf
  <2>4. TwoPlaces' <=> TwoPlaces
    BY <1>14 DEF TwoPlaces
  <2>5. schema' = 1 /\ Len(Saved(schema + 1))' = Len(Saved(schema + 1))
    BY <1>4, <1>14
  <2> QED
    BY <2>1, <2>2, <2>3, <2>4, <2>5 DEF Progress
<1>24. i < Len(Saved(schema + 1))
  <2> DEFINE last == Len(Saved(schema + 1))
  <2>1. last = 6 /\ i \in 2..4
    BY <1>4
  <2> HIDE DEF last
  <2>2. i < last
    BY <2>1
  <2> QED
    BY <2>2 DEF last
<1> QED
  BY <1>1, <1>2, <1>3, <1>14, <1>15, <1>19, <1>20, <1>21, <1>23, <1>24, VersionGoesOn, Zenon
LEMMA RefuseDriftKeeps == ASSUME MigrationInv, RefuseDrift PROVE MigrationInv'
<1> DEFINE n == It
<1>1. /\ Has("front") /\ mem[n].kind = "page" /\ Own(n) \notin DOMAIN text
      /\ state' = "refused" /\ UNCHANGED <<snapshot, text, folder, sorted, schema, mem, served, had>>
  BY DEF RefuseDrift, Drifted, Written
<1>2. schema \in 0..4 /\ Head(work).do = "front" /\ TreeAt(mem, schema)
  BY <1>1, InAVersion
<1>3. PICK i \in 1..6 : At(i) /\ Progress(i)
  BY <1>1, InAVersion
<1>4. n \in Page
  BY <1>2, <1>3, WhereItIs, PagesAre DEF It
<1>5. TwoPlaces \/ Fileless
  <2> SUFFICES ASSUME ~TwoPlaces PROVE Fileless
    OBVIOUS
  <2>1. n \in {2, 3}
    BY <1>1, <1>2, <1>4, PagesAre DEF TreeAt
  <2> HIDE DEF n
  <2>2. Own(n) = <<n, "file">>
    BY <1>1 DEF Own, Place
  <2>3. <<n, "file">> \notin had
    BY <1>1, <2>1, <2>2 DEF MigrationInv, DiskOK, Present
  <2>4. SortedAs(n) = <<>>
    BY <2>1 DEF SortedAs, TreeTop
  <2> QED
    BY <1>4, <2>3, <2>4 DEF Fileless
<1>6. MigrationTypeOK' /\ DiskOK'
  BY <1>1 DEF MigrationInv, MigrationTypeOK, DiskOK, TwoPlaces, Present, Seat
<1>7. SchemaOK'
  BY <1>1 DEF MigrationInv, SchemaOK, TreeAt, TwoPlaces, Times, KindsOf, Titled, TimesIn, Present, Seat, TopSorted
<1>8. StartOK'
  BY <1>1, <1>5 DEF StartOK, TwoPlaces, Fileless
<1> QED
  BY <1>6, <1>7, <1>8 DEF MigrationInv

LEMMA BackfillMetadataFrontmatterKeeps == ASSUME MigrationInv, BackfillMetadataFrontmatter PROVE MigrationInv'
<1> DEFINE n == It
           p == Own(n)
           new == [text[p] EXCEPT !.created = mem[n].created, !.age = "now"]
<1>1. /\ Has("meta") /\ Done /\ UNCHANGED <<snapshot, sorted, schema, mem, folder>>
      /\ text' = IF Written(p) THEN [text EXCEPT ![p] = new] ELSE text
  BY DEF BackfillMetadataFrontmatter, InFiles
<1>2. state = "starting" /\ schema \in 0..4 /\ Head(work).do = "meta" /\ TreeAt(mem, schema)
  BY <1>1, InAVersion DEF Has
<1>3. PICK i \in 1..6 : At(i) /\ Progress(i)
  BY <1>1, InAVersion
<1>4. schema = 2 /\ i \in 1..3 /\ n = Walk[i] /\ Len(Saved(schema + 1)) = 5
  BY <1>2, <1>3, WhereItIs DEF It
<1>5. n \in Page
  BY <1>4, PagesAre
<1> HIDE DEF n
<1>6. Written(p) => new \in Content /\ new.id = text[p].id /\ new.title = text[p].title /\ new.created = mem[n].created
  <2>1. mem[n].created \in {"zero", "old", "now"}
    BY <1>2, <1>5 DEF TreeAt, Trees
  <2>2. Written(p) => text[p] \in Content
    BY DEF Written, MigrationInv, MigrationTypeOK
  <2> QED
    BY <2>1, <2>2 DEF Content
<1> HIDE DEF p, new
<1>7. DOMAIN text' = DOMAIN text /\ text' \in [DOMAIN text -> Content]
  BY <1>1, <1>6 DEF MigrationInv, MigrationTypeOK, Written
<1>8. \A q \in DOMAIN text : text'[q] = IF q = p THEN new ELSE text[q]
  BY <1>1 DEF Written
<1>9. had' = had /\ sorted' = sorted /\ schema' = schema /\ snapshot' = snapshot /\ mem' = mem /\ state' = state
      /\ folder' = folder
  BY <1>1 DEF Done
<1>10. MigrationTypeOK'
  BY <1>7, <1>9 DEF MigrationInv, MigrationTypeOK
<1>11. \A q \in DOMAIN text : text'[q].id = text[q].id /\ text'[q].title = text[q].title
  BY <1>6, <1>8 DEF Written
<1>12. DiskOK'
  BY <1>7, <1>9, <1>11 DEF MigrationInv, DiskOK, TwoPlaces, Present, Seat
<1>13. TreeAt(snapshot, schema)' /\ TreeAt(mem, schema)'
  <2>1. TreeAt(snapshot, schema)
    BY <1>4 DEF MigrationInv, SchemaOK, Current
  <2> QED
    BY <1>2, <1>9, <2>1 DEF TreeAt, TwoPlaces, Times, KindsOf, Present
<1>14. \A m \in Page : Titled(m) => Titled(m)'
  BY <1>7, <1>9, <1>11 DEF Titled, Present, Seat
<1>15. SchemaOK'
  <2>1. ~TwoPlaces => \A m \in Page : Titled(m)
    BY <1>4 DEF MigrationInv, SchemaOK
  <2>2. TwoPlaces' <=> TwoPlaces
    BY <1>9 DEF TwoPlaces
  <2> QED
    BY <1>4, <1>9, <1>13, <1>14, <2>1, <2>2 DEF SchemaOK, Current
<1>16. ASSUME ~TwoPlaces, NEW m \in Page, m = n \/ TimesIn(m)
       PROVE  TimesIn(m)'
  <2>1. KindsOf(mem) /\ Times(mem) /\ Titled(m)
    BY <1>2, <1>4, <1>16 DEF TreeAt, MigrationInv, SchemaOK
  <2>2. p = Seat(n)
    BY <1>5, <2>1 DEF p, Own, Place, Seat, KindsOf, KindOf
  <2>3. m \in Present => Seat(m) \in DOMAIN text
    BY <2>1 DEF Titled
  <2>4. CASE m = n
    <3>1. m \in Present => mem[n].created = "old"
      BY <1>5, <2>1, <2>4 DEF Times
    <3> QED
      BY <1>6, <1>8, <1>9, <2>2, <2>3, <2>4, <3>1 DEF TimesIn, Present, Seat, Written
  <2>5. CASE m # n
    <3>1. Seat(m) # p
      BY <2>2, <2>5 DEF Seat
    <3> QED
      BY <1>8, <1>9, <1>16, <2>3, <2>5, <3>1 DEF TimesIn, Present, Seat
  <2> QED
    BY <2>4, <2>5
<1>17. i < Len(Saved(schema + 1)) /\ (i + 1 = Len(Saved(schema + 1)) => FALSE)
  <2> DEFINE last == Len(Saved(schema + 1))
  <2>1. last = 5 /\ i \in 1..3
    BY <1>4
  <2> HIDE DEF last
  <2>2. i < last /\ i + 1 # last
    BY <2>1
  <2> QED
    BY <2>2 DEF last
<1>18. Progress(i + 1)'
  <2>1. ASSUME ~TwoPlaces, NEW j \in 1..3, i + 1 > j PROVE TimesIn(Walk[j])'
    <3>1. Walk[j] \in Page
      BY PagesAre
    <3>2. Walk[j] = n \/ TimesIn(Walk[j])
      BY <1>3, <1>4, <2>1 DEF Progress
    <3> QED
      BY <1>16, <2>1, <3>1, <3>2
  <2>2. TwoPlaces' <=> TwoPlaces
    BY <1>9 DEF TwoPlaces
  <2>3. schema' = 2 /\ Len(Saved(schema + 1))' = Len(Saved(schema + 1))
    BY <1>4, <1>9
  <2> QED
    BY <1>17, <2>1, <2>2, <2>3 DEF Progress
<1> QED
  BY <1>1, <1>2, <1>3, <1>9, <1>10, <1>12, <1>13, <1>15, <1>17, <1>18, VersionGoesOn, Zenon

LEMMA MaterializeSectionIndexKeeps == ASSUME MigrationInv, MaterializeSectionIndex PROVE MigrationInv'
<1> DEFINE n == It
           new == File(n, TRUE, mem[n].created, "now")
<1>1. /\ Has("index") /\ Done /\ UNCHANGED <<snapshot, sorted, schema, mem>>
      /\ mem[n].kind # "section" => text' = text /\ folder' = folder
      /\ mem[n].kind = "section" => text' = Put(text, Own(n), new) /\ folder' = folder \cup Ancestors(n)
  BY DEF MaterializeSectionIndex, InFiles
<1>2. state = "starting" /\ schema \in 0..4 /\ Head(work).do = "index" /\ TreeAt(mem, schema)
  BY <1>1, InAVersion DEF Has
<1>3. PICK i \in 1..6 : At(i) /\ Progress(i)
  BY <1>1, InAVersion
<1>4. schema = 3 /\ i \in 1..3 /\ n = Walk[i] /\ Len(Saved(schema + 1)) = 5
  BY <1>2, <1>3, WhereItIs DEF It
<1>5. n \in Page
  BY <1>4, PagesAre
<1> HIDE DEF n
<1>6. mem[n].kind = "section" => n = 1 /\ Own(n) = Seat(1)
  BY <1>2, <1>5, PagesAre DEF TreeAt, Own, Place, Seat
<1>7. new \in Content /\ new.id = n /\ new.title = TRUE /\ new.created = mem[n].created
  <2>1. mem[n].created \in {"zero", "old", "now"}
    BY <1>2, <1>5 DEF TreeAt, Trees
  <2>2. new = [id |-> n, title |-> TRUE, created |-> mem[n].created, age |-> "now"]
    BY DEF File
  <2> HIDE DEF new
  <2> QED
    BY <1>5, <2>1, <2>2, PagesAre DEF Content
<1> HIDE DEF new
<1>8. (text' = text /\ folder' = folder) \/ (n = 1 /\ text' = Put(text, Seat(1), new) /\ folder' = folder \cup {1})
  <2>1. Ancestors(1) = {1}
    BY DEF Ancestors, Above, TreeTop
  <2> QED
    <3>1. CASE mem[n].kind # "section"
      BY <1>1, <3>1, Zenon
    <3>2. CASE mem[n].kind = "section"
      <4>1. Own(n) = Seat(1) /\ Ancestors(n) = {1} /\ n = 1
        BY <1>6, <2>1, <3>2
      <4> QED
        BY <1>1, <3>2, <4>1, Zenon
    <3> QED
      BY <3>1, <3>2
<1>9. DOMAIN text' \in {DOMAIN text, DOMAIN text \cup {Seat(1)}} /\ text' \in [DOMAIN text' -> Content]
      /\ \A q \in DOMAIN text' : IF q \in DOMAIN text /\ text'[q] = text[q] THEN TRUE
                                 ELSE q = Seat(1) /\ n = 1 /\ text'[q] = new
  <2>1. CASE n = 1 /\ text' = Put(text, Seat(1), new)
    <3>1. text' \in [DOMAIN text' -> Content]
      BY <1>7, <2>1, PutStays, Zenon DEF MigrationInv, MigrationTypeOK
    <3>2. DOMAIN Put(text, Seat(1), new) = DOMAIN text \cup {Seat(1)} /\ Put(text, Seat(1), new)[Seat(1)] = new
      BY DEF Put
    <3>3. \A q \in DOMAIN text : q # Seat(1) => Put(text, Seat(1), new)[q] = text[q]
      BY DEF Put
    <3> QED
      BY <2>1, <3>1, <3>2, <3>3
  <2>2. CASE text' = text
    BY <2>2 DEF MigrationInv, MigrationTypeOK
  <2> QED
    BY <1>8, <2>1, <2>2
<1>10. had' = had /\ sorted' = sorted /\ schema' = schema /\ snapshot' = snapshot /\ mem' = mem /\ state' = state
       /\ folder \subseteq folder' /\ folder' \subseteq {1}
  BY <1>1, <1>8 DEF Done, MigrationInv, MigrationTypeOK
<1>11. Seat(1) \in Spots /\ Seat(1) = <<1, "index">>
  BY PagesAre DEF Seat, Spots
<1>12. DOMAIN text' \subseteq Spots /\ DOMAIN text \subseteq DOMAIN text'
  BY <1>9, <1>11 DEF MigrationInv, MigrationTypeOK
<1>13. MigrationTypeOK'
  BY <1>9, <1>10, <1>12 DEF MigrationInv, MigrationTypeOK
<1>14. DiskOK'
  <2>1. CASE TwoPlaces
    BY <1>10, <1>12, <2>1 DEF MigrationInv, DiskOK, TwoPlaces
  <2>2. CASE ~TwoPlaces
    <3>1. \A m \in Page : <<m, "file">> \in DOMAIN text' <=> <<m, "file">> \in DOMAIN text
      BY <1>9, <1>11
    <3>2. ASSUME NEW m \in Page, Seat(m) \in DOMAIN text' PROVE text'[Seat(m)].id \in {0, m}
      <4>1. CASE Seat(m) \in DOMAIN text /\ text'[Seat(m)] = text[Seat(m)]
        BY <2>2, <4>1 DEF MigrationInv, DiskOK
      <4>2. CASE Seat(m) = Seat(1) /\ n = 1 /\ text'[Seat(m)] = new
        <5>1. m = 1
          BY <4>2 DEF Seat
        <5> QED
          BY <1>7, <4>2, <5>1
      <4> QED
        BY <1>9, <3>2, <4>1, <4>2
    <3> QED
      BY <1>10, <2>2, <3>1, <3>2, PagesAre DEF MigrationInv, DiskOK, TwoPlaces, Present, Seat
  <2> QED
    BY <2>1, <2>2
<1>15. TreeAt(snapshot, schema)' /\ TreeAt(mem, schema)'
  <2>1. TreeAt(snapshot, schema)
    BY <1>4 DEF MigrationInv, SchemaOK, Current
  <2> QED
    BY <1>2, <1>10, <2>1 DEF TreeAt, TwoPlaces, Times, KindsOf, Present
<1>16. ASSUME ~TwoPlaces, NEW m \in Page PROVE Titled(m)' /\ TimesIn(m)'
  <2>1. Times(mem) /\ Titled(m) /\ TimesIn(m)
    BY <1>2, <1>4, <1>16 DEF TreeAt, MigrationInv, SchemaOK
  <2>2. Seat(m) \in DOMAIN text => Seat(m) \in DOMAIN text'
    BY <1>12
  <2>3. CASE text'[Seat(m)] = text[Seat(m)]
    BY <1>10, <2>1, <2>2, <2>3 DEF Titled, TimesIn, Present, Seat
  <2>4. CASE Seat(m) = Seat(1) /\ n = 1 /\ text'[Seat(m)] = new
    <3>1. m = 1 /\ (m \in Present => mem[n].created = "old")
      BY <2>1, <2>4, PagesAre DEF Seat, Times
    <3> QED
      BY <1>7, <1>10, <2>1, <2>2, <2>4, <3>1 DEF Titled, TimesIn, Present, Seat
  <2>5. CASE Seat(m) \notin DOMAIN text'
    BY <1>10, <2>1, <2>2, <2>5 DEF Titled, TimesIn, Present, Seat
  <2> QED
    BY <1>9, <2>3, <2>4, <2>5
<1>17. SchemaOK'
  <2>1. TwoPlaces' <=> TwoPlaces
    BY <1>10 DEF TwoPlaces
  <2> QED
    BY <1>4, <1>10, <1>15, <1>16, <2>1 DEF SchemaOK, Current
<1>18. i < Len(Saved(schema + 1)) /\ i + 1 # Len(Saved(schema + 1))
  <2> DEFINE last == Len(Saved(schema + 1))
  <2>1. last = 5 /\ i \in 1..3
    BY <1>4
  <2> HIDE DEF last
  <2>2. i < last /\ i + 1 # last
    BY <2>1
  <2> QED
    BY <2>2 DEF last
<1>19. Progress(i + 1)'
  <2>1. schema' = 3 /\ Len(Saved(schema + 1))' = Len(Saved(schema + 1))
    BY <1>4, <1>10
  <2> QED
    BY <1>18, <2>1 DEF Progress
<1> QED
  BY <1>1, <1>2, <1>3, <1>10, <1>13, <1>14, <1>15, <1>17, <1>18, <1>19, VersionGoesOn, Zenon
LEMMA BackfillChildOrderKeeps == ASSUME MigrationInv, BackfillChildOrder PROVE MigrationInv'
<1> DEFINE n == It
<1>1. /\ Has("order") /\ Done /\ UNCHANGED <<snapshot, text, schema>>
      /\ IF SortedAs(n) = <<>> THEN UNCHANGED <<sorted, folder, mem>>
         ELSE /\ sorted' = Put(sorted, n, SortedAs(n))
              /\ folder' = folder \cup {m \in {n} : m # TreeTop}
              /\ mem' = IF n = TreeTop THEN mem ELSE [mem EXCEPT ![n].kind = "section"]
  BY DEF BackfillChildOrder
<1>2. state = "starting" /\ schema \in 0..4 /\ Head(work).do = "order" /\ TreeAt(mem, schema)
  BY <1>1, InAVersion DEF Has
<1>3. PICK i \in 1..6 : At(i) /\ Progress(i)
  BY <1>1, InAVersion
<1>4. schema = 4 /\ i \in 1..4 /\ n = (IF i = 1 THEN TreeTop ELSE Walk[i - 1]) /\ Len(Saved(schema + 1)) = 6
  BY <1>2, <1>3, WhereItIs DEF It
<1> HIDE DEF n
<1>5. SortedAs(TreeTop) = <<2, 1>> /\ SortedAs(1) = <<3>> /\ SortedAs(2) = <<>> /\ SortedAs(3) = <<>>
  BY DEF SortedAs, TreeTop
<1>6. <<3>> # <<>> /\ <<2, 1>> # <<>> /\ <<3>> \in Seq(Page) /\ <<2, 1>> \in Seq(Page)
  BY PagesAre
<1>7. n \in {0, 1, 2, 3} /\ (i = 1 <=> n = 0) /\ (i = 3 <=> n = 1)
  BY <1>4, PagesAre DEF TreeTop
<1>8. \/ UNCHANGED <<sorted, folder, mem>> /\ n \in {2, 3}
      \/ n = 0 /\ sorted' = Put(sorted, 0, <<2, 1>>) /\ folder' = folder /\ mem' = mem
      \/ n = 1 /\ sorted' = Put(sorted, 1, <<3>>) /\ folder' = folder \cup {1} /\ mem' = [mem EXCEPT ![1].kind = "section"]
  <2>1. CASE n = 0
    BY <1>1, <1>5, <1>6, <2>1 DEF TreeTop
  <2>2. CASE n = 1
    <3>1. {m \in {n} : m # TreeTop} = {1}
      BY <2>2 DEF TreeTop
    <3> QED
      BY <1>1, <1>5, <1>6, <2>2, <3>1 DEF TreeTop
  <2>3. CASE n \in {2, 3}
    BY <1>1, <1>5, <2>3
  <2> QED
    BY <1>7, <2>1, <2>2, <2>3
<1>9. had' = had /\ text' = text /\ schema' = schema /\ snapshot' = snapshot /\ state' = state
  BY <1>1 DEF Done
<1>10. folder \subseteq folder' /\ folder' \subseteq {1} /\ (n = 1 => 1 \in folder')
  BY <1>8 DEF MigrationInv, MigrationTypeOK
<1>11. sorted' \in [DOMAIN sorted' -> Seq(Page)]
  <2>1. sorted \in [DOMAIN sorted -> Seq(Page)]
    BY DEF MigrationInv, MigrationTypeOK
  <2>2. CASE sorted' = Put(sorted, 0, <<2, 1>>)
    BY <1>6, <2>1, <2>2, PutStays, Zenon
  <2>3. CASE sorted' = Put(sorted, 1, <<3>>)
    BY <1>6, <2>1, <2>3, PutStays, Zenon
  <2>4. CASE sorted' = sorted
    BY <2>1, <2>4
  <2> QED
    BY <1>8, <2>2, <2>3, <2>4
<1>12. MigrationTypeOK'
  BY <1>9, <1>10, <1>11 DEF MigrationInv, MigrationTypeOK
<1>13. DiskOK'
  BY <1>9, <1>10 DEF MigrationInv, DiskOK, TwoPlaces, Present, Seat
<1>14. (n = 0 \/ TopSorted) => TopSorted'
  <2>1. CASE n = 0 /\ sorted' = Put(sorted, 0, <<2, 1>>)
    <3>1. 0 \in DOMAIN sorted' /\ sorted'[0] = <<2, 1>>
      BY <2>1 DEF Put
    <3> QED
      BY <3>1 DEF TopSorted, TreeTop
  <2>2. CASE n = 1 /\ sorted' = Put(sorted, 1, <<3>>)
    <3>1. 0 \in DOMAIN sorted => 0 \in DOMAIN sorted' /\ sorted'[0] = sorted[0]
      BY <2>2 DEF Put
    <3> QED
      BY <2>2, <3>1 DEF TopSorted, TreeTop
  <2>3. CASE n \in {2, 3} /\ sorted' = sorted
    BY <2>3 DEF TopSorted
  <2> QED
    BY <1>8, <2>1, <2>2, <2>3
<1>15. /\ mem' \in Trees /\ \A m \in Page : mem'[m].created = mem[m].created
       /\ \A m \in Page : m # 1 => mem'[m].kind = mem[m].kind
       /\ mem'[1].kind \in {mem[1].kind, "section"}
  <2>1. CASE mem' = mem
    BY <1>2, <2>1 DEF TreeAt
  <2>2. CASE mem' = [mem EXCEPT ![1].kind = "section"]
    <3>1. mem \in Trees /\ 1 \in Page
      BY <1>2, PagesAre DEF TreeAt
    <3> QED
      BY <2>2, <3>1 DEF Trees
  <2> QED
    BY <1>8, <2>1, <2>2
<1>16. TreeAt(snapshot, schema)'
  <2>1. TreeAt(snapshot, schema)
    BY <1>4 DEF MigrationInv, SchemaOK, Current
  <2> QED
    BY <1>9, <2>1 DEF TreeAt, TwoPlaces, Times, KindsOf, Present
<1>17. TreeAt(mem, schema)'
  <2>1. \A m \in {2, 3} : mem'[m].kind # "section"
    BY <1>2, <1>15, PagesAre DEF TreeAt
  <2>2. ~TwoPlaces => mem'[1].kind # "page"
    BY <1>2, <1>15 DEF TreeAt
  <2>3. ~TwoPlaces => Times(mem')
    BY <1>2, <1>4, <1>15 DEF TreeAt, Times
  <2>4. ~TwoPlaces => KindsOf(mem')
    BY <1>2, <1>4, <1>15, PagesAre DEF TreeAt, KindsOf, KindOf
  <2> QED
    BY <1>4, <1>9, <1>15, <2>1, <2>2, <2>3, <2>4 DEF TreeAt, TwoPlaces, Times, KindsOf, Present
<1>18. SchemaOK'
  <2>1. TwoPlaces' <=> TwoPlaces
    BY <1>9 DEF TwoPlaces
  <2>2. ~TwoPlaces => \A m \in Page : Titled(m)' /\ TimesIn(m)'
    <3>1. ~TwoPlaces => \A m \in Page : Titled(m) /\ TimesIn(m)
      BY <1>4 DEF MigrationInv, SchemaOK
    <3> QED
      BY <1>9, <3>1 DEF Titled, TimesIn, Present, Seat
  <2> QED
    BY <1>4, <1>9, <1>16, <2>1, <2>2 DEF SchemaOK, Current
<1>19. i < Len(Saved(schema + 1)) /\ i + 1 # Len(Saved(schema + 1))
  <2> DEFINE last == Len(Saved(schema + 1))
  <2>1. last = 6 /\ i \in 1..4
    BY <1>4
  <2> HIDE DEF last
  <2>2. i < last /\ i + 1 # last
    BY <2>1
  <2> QED
    BY <2>2 DEF last
<1>20. Progress(i + 1)'
  <2>1. schema' = 4 /\ Len(Saved(schema + 1))' = Len(Saved(schema + 1))
    BY <1>4, <1>9
  <2>2. TopSorted'
    <3>1. i = 1 \/ TopSorted
      BY <1>3, <1>4 DEF Progress
    <3> QED
      BY <1>7, <1>14, <3>1
  <2>3. i + 1 > 3 => 1 \in folder'
    <3>1. i > 3 => 1 \in folder
      BY <1>3, <1>4 DEF Progress
    <3>2. i + 1 > 3 => i = 3 \/ i > 3
      BY <1>4
    <3> QED
      BY <1>7, <1>10, <3>1, <3>2
  <2> QED
    BY <1>19, <2>1, <2>2, <2>3 DEF Progress
<1> QED
  BY <1>1, <1>2, <1>3, <1>9, <1>12, <1>13, <1>17, <1>18, <1>19, <1>20, VersionGoesOn, Zenon

LEMMA SaveTreeKeeps == ASSUME MigrationInv, SaveTree PROVE MigrationInv'
<1>1. Has("tree") /\ snapshot' = mem /\ Done /\ UNCHANGED <<text, folder, sorted, schema, mem>>
  BY DEF SaveTree
<1>2. state = "starting" /\ schema \in 0..4 /\ Head(work).do = "tree" /\ TreeAt(mem, schema)
  BY <1>1, InAVersion DEF Has
<1>3. PICK i \in 1..6 : At(i) /\ Progress(i)
  BY <1>1, InAVersion
<1> DEFINE last == Len(Saved(schema + 1))
<1>4. last \in 3..6 /\ i = last - 1
  BY <1>2, <1>3, WhereItIs
<1>5. /\ schema = 0 => last = 3
      /\ schema = 1 => last = 6
      /\ schema = 2 => last = 5
      /\ schema = 4 => last = 6
  BY StepTables
<1> HIDE DEF last
<1>6. had' = had /\ sorted' = sorted /\ schema' = schema /\ text' = text /\ mem' = mem /\ state' = state /\ folder' = folder
  BY <1>1 DEF Done
<1>7. MigrationTypeOK' /\ DiskOK'
  BY <1>6 DEF MigrationInv, MigrationTypeOK, DiskOK, TwoPlaces, Present, Seat
<1>8. TreeAt(mem, schema)' /\ TreeAt(snapshot, schema)'
  BY <1>1, <1>2, <1>6 DEF TreeAt, TwoPlaces, Times, KindsOf, Present
<1>9. SchemaOK'
  <2>1. TwoPlaces' <=> TwoPlaces
    BY <1>6 DEF TwoPlaces
  <2>2. ~TwoPlaces /\ schema >= 2 => \A m \in Page : Titled(m)'
    BY <1>6 DEF MigrationInv, SchemaOK, Titled, Present, Seat
  <2>3. ~TwoPlaces /\ schema >= 3 => \A m \in Page : TimesIn(m)'
    BY <1>6 DEF MigrationInv, SchemaOK, TimesIn, Present, Seat
  <2>4. schema = 0 => /\ \A n \in Page : n \in folder' <=> <<n, "folder">> \in had'
                      /\ \A p \in Spots : p \in DOMAIN text' <=> p \in had'
                      /\ \A p \in DOMAIN text' : text'[p].age = "old"
    BY <1>6 DEF MigrationInv, SchemaOK
  <2> QED
    BY <1>2, <1>6, <1>8, <2>1, <2>2, <2>3, <2>4 DEF SchemaOK, Current
<1>10. Progress(i + 1)'
  <2>1. snapshot' = mem' /\ last' = last
    BY <1>1, <1>6 DEF last
  <2>2. schema = 4 => TopSorted' /\ 1 \in folder'
    BY <1>3, <1>4, <1>5, <1>6 DEF Progress, TopSorted
  <2>3. ~TwoPlaces => /\ schema = 0 => Times(mem)'
                      /\ schema = 1 => KindsOf(mem)'
                      /\ schema = 1 => \A j \in 1..3 : Titled(Walk[j])'
                      /\ schema = 2 => \A j \in 1..3 : TimesIn(Walk[j])'
    <3> SUFFICES ASSUME ~TwoPlaces
                 PROVE  /\ schema = 0 => Times(mem)'
                        /\ schema = 1 => KindsOf(mem)'
                        /\ schema = 1 => \A j \in 1..3 : Titled(Walk[j])'
                        /\ schema = 2 => \A j \in 1..3 : TimesIn(Walk[j])'
      OBVIOUS
    <3>1. schema = 0 => Times(mem)
      BY <1>3, <1>4, <1>5 DEF Progress
    <3>2. schema = 1 => KindsOf(mem)
      BY <1>3, <1>4, <1>5 DEF Progress
    <3>3. schema = 1 => \A j \in 1..3 : Titled(Walk[j])
      BY <1>3, <1>4, <1>5 DEF Progress
    <3>4. schema = 2 => \A j \in 1..3 : TimesIn(Walk[j])
      BY <1>3, <1>4, <1>5 DEF Progress
    <3> QED
      BY <1>6, <3>1, <3>2, <3>3, <3>4 DEF Times, KindsOf, Titled, TimesIn, Present, Seat
  <2>4. TwoPlaces' <=> TwoPlaces
    BY <1>6 DEF TwoPlaces
  <2> QED
    BY <1>6, <2>1, <2>2, <2>3, <2>4 DEF Progress
<1>11. i < Len(Saved(schema + 1))
  <2>1. i < last
    BY <1>4
  <2> QED
    BY <2>1 DEF last
<1> QED
  BY <1>1, <1>2, <1>3, <1>6, <1>7, <1>8, <1>9, <1>10, <1>11, VersionGoesOn, Zenon

LEMMA SaveSchemaKeeps == ASSUME MigrationInv, SaveSchema PROVE MigrationInv'
<1>1. Has("schema") /\ schema' = It /\ work' = After(It)
      /\ UNCHANGED <<snapshot, text, folder, sorted, mem, served, state, stops, had>>
  BY DEF SaveSchema
<1>2. state = "starting" /\ schema \in 0..4 /\ Head(work).do = "schema" /\ TreeAt(mem, schema)
  BY <1>1, InAVersion DEF Has
<1>3. PICK i \in 1..6 : At(i) /\ Progress(i)
  BY <1>1, InAVersion
<1> DEFINE last == Len(Saved(schema + 1))
<1>4. last \in 3..6 /\ i = last /\ It = schema + 1
  BY <1>2, <1>3, WhereItIs DEF It
<1>5. /\ schema = 0 => last = 3
      /\ schema = 1 => last = 6
      /\ schema = 2 => last = 5
      /\ schema = 4 => last = 6
  BY StepTables
<1>6. snapshot = mem
  BY <1>3, <1>4 DEF Progress
<1> HIDE DEF last
<1>7. schema = 4 => TopSorted /\ 1 \in folder
  BY <1>3, <1>4, <1>5 DEF Progress
<1>8. ASSUME ~TwoPlaces
      PROVE  /\ Times(mem)
             /\ schema >= 1 => KindsOf(mem) /\ \A m \in Page : Titled(m)
             /\ schema >= 2 => \A m \in Page : TimesIn(m)
  <2>1. Times(mem)
    BY <1>2, <1>3, <1>4, <1>5, <1>8 DEF Progress, TreeAt
  <2>2. schema >= 1 => KindsOf(mem)
    BY <1>2, <1>3, <1>4, <1>5, <1>8 DEF Progress, TreeAt
  <2>3. schema >= 1 => \A m \in Page : Titled(m)
    <3>1. schema = 1 => \A j \in 1..3 : Titled(Walk[j])
      BY <1>3, <1>4, <1>5, <1>8 DEF Progress
    <3>2. schema >= 2 => \A m \in Page : Titled(m)
      BY <1>8 DEF MigrationInv, SchemaOK
    <3> QED
      BY <1>2, <3>1, <3>2, PagesAre
  <2>4. schema >= 2 => \A m \in Page : TimesIn(m)
    <3>1. schema = 2 => \A j \in 1..3 : TimesIn(Walk[j])
      BY <1>3, <1>4, <1>5, <1>8 DEF Progress
    <3>2. schema >= 3 => \A m \in Page : TimesIn(m)
      BY <1>8 DEF MigrationInv, SchemaOK
    <3> QED
      BY <1>2, <3>1, <3>2, PagesAre
  <2> QED
    BY <2>1, <2>2, <2>3, <2>4
<1>9. schema' = schema + 1 /\ schema' \in 1..5
  BY <1>1, <1>2, <1>4
<1>10. MigrationTypeOK' /\ DiskOK'
  BY <1>1, <1>9 DEF MigrationInv, MigrationTypeOK, DiskOK, TwoPlaces, Present, Seat, Current
<1>11. TwoPlaces' <=> TwoPlaces
  BY <1>1 DEF TwoPlaces
<1>12. TreeAt(mem, schema)' /\ TreeAt(snapshot, schema)'
  BY <1>1, <1>2, <1>6, <1>8, <1>9 DEF TreeAt, TwoPlaces, Times, KindsOf, Present
<1>13. SchemaOK'
  <2>1. ~TwoPlaces /\ schema' >= 2 => \A m \in Page : Titled(m)'
    BY <1>1, <1>2, <1>8, <1>9 DEF Titled, Present, Seat
  <2>2. ~TwoPlaces /\ schema' >= 3 => \A m \in Page : TimesIn(m)'
    BY <1>1, <1>2, <1>8, <1>9 DEF TimesIn, Present, Seat
  <2>3. schema' = 5 => TopSorted' /\ 1 \in folder'
    BY <1>1, <1>2, <1>7, <1>9 DEF TopSorted
  <2> QED
    BY <1>9, <1>11, <1>12, <2>1, <2>2, <2>3 DEF SchemaOK, Current
<1>14. StartOK'
  <2>1. CASE schema' \in 0..4
    <3>1. At(1)' /\ Len(Saved(schema' + 1)) \in 3..6
      BY <1>1, <1>4, <1>9, <2>1, AtTheFirst
    <3>2. Progress(1)'
      <4>1. Len(Saved(schema + 1))' # 1
        BY <3>1
      <4> QED
        BY <4>1 DEF Progress
    <3>3. \E j \in 1..6 : At(j)' /\ Progress(j)'
      BY <3>1, <3>2
    <3> QED
      BY <1>1, <1>2, <1>12, <2>1, <3>3 DEF StartOK, Current
  <2>2. CASE schema' = 5
    <3>1. work' = After(Current) /\ state' = "starting"
      BY <1>1, <1>2, <1>4, <1>9, <2>2 DEF Current
    <3> QED
      BY <2>2, <3>1 DEF StartOK, Current
  <2> QED
    BY <1>9, <2>1, <2>2
<1> QED
  BY <1>10, <1>13, <1>14 DEF MigrationInv
LEMMA StartKeeps == ASSUME MigrationInv, Start PROVE MigrationInv'
<1>1. /\ state = "down" /\ UNCHANGED <<snapshot, text, folder, sorted, schema, served, stops, had>>
      /\ IF schema = -1 THEN state' = "refused" /\ UNCHANGED <<work, mem>>
         ELSE /\ state' = "starting"
              /\ work' = IF schema = Current THEN <<Do("rebuild", TreeTop)>> ELSE After(schema)
              /\ mem' = IF schema = Current THEN mem ELSE snapshot
  BY DEF Start
<1>2. state' \in {"starting", "refused"}
  BY <1>1
<1>3. MigrationTypeOK' /\ DiskOK'
  BY <1>1, <1>2 DEF MigrationInv, MigrationTypeOK, DiskOK, TwoPlaces, Present, Seat
<1>4. TreeAt(snapshot, schema) => TreeAt(snapshot, schema)'
  BY <1>1 DEF TreeAt, TwoPlaces, Times, KindsOf, Present
<1>5. SchemaOK'
  BY <1>1, <1>4 DEF MigrationInv, SchemaOK, TwoPlaces, Titled, TimesIn, Present, Seat, TopSorted
<1>6. StartOK'
  <2>1. CASE schema = -1
    BY <1>1, <2>1 DEF StartOK, Current
  <2>2. CASE schema = Current
    <3>1. state' = "starting" /\ work' = <<Do("rebuild", TreeTop)>> /\ schema' = Current
      BY <1>1, <2>2 DEF Current
    <3> QED
      BY <3>1 DEF StartOK, Current
  <2>3. CASE schema \in 0..4
    <3>1. state' = "starting" /\ work' = After(schema) /\ mem' = snapshot /\ schema' = schema
      BY <1>1, <2>3 DEF Current
    <3>2. At(1)' /\ Len(Saved(schema + 1)) \in 3..6
      BY <2>3, <3>1, AtTheFirst
    <3>3. Progress(1)'
      <4>1. Len(Saved(schema + 1))' # 1
        BY <3>1, <3>2
      <4> QED
        BY <4>1 DEF Progress
    <3>4. TreeAt(mem, schema)'
      <4>1. TreeAt(snapshot, schema)
        BY <2>3 DEF MigrationInv, SchemaOK, Current
      <4> QED
        BY <1>1, <3>1, <4>1 DEF TreeAt, TwoPlaces, Times, KindsOf, Present
    <3>5. \E j \in 1..6 : At(j)' /\ Progress(j)'
      BY <3>2, <3>3
    <3> QED
      BY <2>3, <3>1, <3>4, <3>5 DEF StartOK, Current
  <2> QED
    BY <2>1, <2>2, <2>3 DEF MigrationInv, MigrationTypeOK, Current
<1> QED
  BY <1>3, <1>5, <1>6 DEF MigrationInv

LEMMA StopKeeps == ASSUME MigrationInv, Stop PROVE MigrationInv'
<1>1. /\ state' = "down" /\ UNCHANGED <<snapshot, text, folder, sorted, mem, served, had>>
      /\ schema' = schema \/ schema' = -1
  BY DEF Stop, MayStop
<1>2. MigrationTypeOK' /\ DiskOK'
  BY <1>1 DEF MigrationInv, MigrationTypeOK, DiskOK, TwoPlaces, Present, Seat, Current
<1>3. SchemaOK'
  <2>1. CASE schema' = schema
    <3>1. TreeAt(snapshot, schema) => TreeAt(snapshot, schema)'
      BY <1>1, <2>1 DEF TreeAt, TwoPlaces, Times, KindsOf, Present
    <3> QED
      BY <1>1, <2>1, <3>1 DEF MigrationInv, SchemaOK, TwoPlaces, Titled, TimesIn, Present, Seat, TopSorted
  <2>2. CASE schema' = -1
    BY <2>2 DEF SchemaOK, Current
  <2> QED
    BY <1>1, <2>1, <2>2
<1>4. StartOK'
  BY <1>1 DEF StartOK
<1> QED
  BY <1>2, <1>3, <1>4 DEF MigrationInv

LEMMA RemoveSnapshotKeeps == ASSUME MigrationInv, RemoveSnapshot PROVE MigrationInv'
<1>1. Has("remove") /\ state' = "up" /\ UNCHANGED <<text, folder, sorted, schema, mem, served, stops, had>>
  BY DEF RemoveSnapshot
<1>2. state = "starting" /\ Head(work).do = "remove" /\ work # <<>>
  BY <1>1 DEF Has
<1>3. schema = Current
  <2>1. SUFFICES ASSUME schema < Current PROVE FALSE
    BY DEF MigrationInv, MigrationTypeOK, Current
  <2>2. schema \in 0..4 /\ \E i \in 1..6 : At(i)
    BY <1>2, <2>1 DEF MigrationInv, StartOK, Current, MigrationTypeOK
  <2>3. PICK i \in 1..6 : At(i)
    BY <2>2
  <2> QED
    BY <1>2, <2>2, <2>3, WhereItIs
<1>4. Serves
  BY <1>2, <1>3, LastSteps DEF MigrationInv, StartOK
<1>5. MigrationTypeOK' /\ DiskOK'
  BY <1>1 DEF MigrationInv, MigrationTypeOK, DiskOK, TwoPlaces, Present, Seat
<1>6. SchemaOK'
  BY <1>1, <1>3 DEF MigrationInv, SchemaOK, TwoPlaces, Titled, TimesIn, Present, Seat, TopSorted, Current
<1>7. Serves'
  BY <1>1, <1>4 DEF Serves, TwoPlaces, Present
<1>8. StartOK'
  BY <1>1, <1>3, <1>7 DEF StartOK
<1> QED
  BY <1>5, <1>6, <1>8 DEF MigrationInv

(* What the files say of the pages there were *)
LEMMA ReadIsRight ==
  ASSUME MigrationInv, schema = Current, ~TwoPlaces
  PROVE  \A n \in Present : /\ n \in Found /\ Seat(n) \in DOMAIN text
                            /\ Read(n) = [at |-> Seat(n), id |-> n, title |-> TRUE, created |-> "old", age |-> text[Seat(n)].age]
<1> TAKE n \in Present
<1>1. n \in Page
  BY DEF Present, MigrationInv, MigrationTypeOK
<1>2. Seat(n) \in DOMAIN text /\ text[Seat(n)].id = n /\ text[Seat(n)].title /\ text[Seat(n)].created = "old"
      /\ text[Seat(n)] \in Content
  BY <1>1 DEF MigrationInv, SchemaOK, MigrationTypeOK, Titled, TimesIn, Current
<1>3. 1 \in folder /\ folder \subseteq {1}
  BY DEF MigrationInv, SchemaOK, MigrationTypeOK
<1>4. n \in folder <=> n = 1
  BY <1>3
<1>5. n \in Found
  BY <1>1, <1>2, <1>3, PagesAre DEF Found, Fits, Above, Written, Seat, TreeTop
<1>6. Place(n, IF n \in folder THEN "section" ELSE "page") = Seat(n)
  BY <1>4 DEF Place, Seat
<1>7. n # 0 /\ text[Seat(n)].title = TRUE
  BY <1>1, <1>2, PagesAre DEF Content
<1> QED
  BY <1>2, <1>5, <1>6, <1>7 DEF Read, Written

LEMMA TopIsRight ==
  ASSUME MigrationInv, schema = Current, ~TwoPlaces, {1, 2} \subseteq Present
  PROVE  TopOrder = <<2, 1>>
<1> DEFINE top == {n \in Found : Above(n) = TreeTop}
<1>1. top = {1, 2}
  <2>1. {1, 2} \subseteq Found
    BY ReadIsRight
  <2>2. Found \subseteq {1, 2, 3}
    BY PagesAre DEF Found
  <2> QED
    <3>1. Above(1) = TreeTop /\ Above(2) = TreeTop /\ Above(3) # TreeTop
      BY DEF Above, TreeTop
    <3> QED
      BY <2>1, <2>2, <3>1
<1>2. Read(1).id = 1 /\ Read(2).id = 2
  BY ReadIsRight
<1>3. TreeTop \in DOMAIN sorted /\ sorted[TreeTop] = <<2, 1>>
  BY DEF MigrationInv, SchemaOK, TopSorted
<1>4. Rank(1) = 2 /\ Rank(2) = 1
  <2> DEFINE order == <<2, 1>>
  <2>1. DOMAIN order = {1, 2} /\ Len(order) = 2 /\ order[1] = 2 /\ order[2] = 1
    OBVIOUS
  <2> HIDE DEF order
  <2>2. Contains(order, 1) /\ Contains(order, 2)
    BY <2>1 DEF Contains
  <2>3. (CHOOSE i \in DOMAIN order : order[i] = 1) = 2
    BY <2>1
  <2>4. (CHOOSE i \in DOMAIN order : order[i] = 2) = 1
    BY <2>1
  <2> QED
    BY <1>2, <1>3, <2>2, <2>3, <2>4 DEF Rank, order
<1>5. Cardinality(top) = 2
  <2>1. top = {1} \cup {2}
    BY <1>1
  <2>2. IsFiniteSet({1}) /\ Cardinality({1}) = 1
    BY FS_Singleton
  <2>3. Cardinality({1} \cup {2}) = Cardinality({1}) + 1
    BY <2>2, FS_AddElement
  <2> QED
    BY <2>1, <2>2, <2>3
<1> HIDE DEF top
<1> DEFINE s == <<2, 1>>
<1>6. DOMAIN s = 1..2 /\ s[1] = 2 /\ s[2] = 1
  OBVIOUS
<1>7. s \in SetToSeqs(top)
  <2>1. s \in [1..2 -> {1, 2}]
    OBVIOUS
  <2> QED
    BY <1>1, <1>5, <1>6, <2>1 DEF SetToSeqs
<1>8. \A i, j \in DOMAIN s : i < j => Rank(s[i]) < Rank(s[j])
  BY <1>4, <1>6
<1>9. ASSUME NEW t \in SetToSeqs(top), \A i, j \in DOMAIN t : i < j => Rank(t[i]) < Rank(t[j])
      PROVE  t = s
  <2>1. t \in [1..2 -> {1, 2}] /\ t[1] # t[2]
    BY <1>1, <1>5 DEF SetToSeqs
  <2>2. Rank(t[1]) < Rank(t[2])
    BY <1>9, <2>1
  <2>3. t[1] = 2 /\ t[2] = 1
    BY <1>4, <2>1, <2>2
  <2> QED
    BY <1>6, <2>1, <2>3
<1> HIDE DEF s
<1>10. TopOrder = s
  BY <1>7, <1>8, <1>9 DEF TopOrder, top
<1> QED
  BY <1>10 DEF s

LEMMA RebuildKeeps == ASSUME MigrationInv, Rebuild PROVE MigrationInv'
<1>1. Has("rebuild") /\ UNCHANGED <<snapshot, folder, sorted, schema, mem, stops, had>>
  BY DEF Rebuild
<1>2. state = "starting" /\ Head(work).do = "rebuild" /\ work # <<>>
  BY <1>1 DEF Has
<1>3. schema = Current
  <2>1. SUFFICES ASSUME schema < Current PROVE FALSE
    BY DEF MigrationInv, MigrationTypeOK, Current
  <2>2. schema \in 0..4 /\ \E i \in 1..6 : At(i)
    BY <1>2, <2>1 DEF MigrationInv, StartOK, Current, MigrationTypeOK
  <2>3. PICK i \in 1..6 : At(i)
    BY <2>2
  <2> QED
    BY <1>2, <2>2, <2>3, WhereItIs
<1>4. work = After(Current) \/ work = <<Do("rebuild", TreeTop)>>
  BY <1>2, <1>3, LastSteps DEF MigrationInv, StartOK
<1>5. Collides <=> TwoPlaces
  <2>1. 1 \in folder /\ folder = {1} /\ Fits(1)
    BY <1>3 DEF MigrationInv, SchemaOK, MigrationTypeOK, Fits, Above, TreeTop
  <2> QED
    BY <2>1 DEF Collides, Written, MigrationInv, DiskOK
<1>6. CASE TwoPlaces
  <2>1. state' = "refused" /\ text' = text /\ served' = served
    BY <1>5, <1>6 DEF Rebuild
  <2>2. MigrationTypeOK' /\ DiskOK'
    BY <1>1, <2>1 DEF MigrationInv, MigrationTypeOK, DiskOK, TwoPlaces, Present, Seat
  <2>3. SchemaOK'
    BY <1>1, <1>3, <2>1 DEF MigrationInv, SchemaOK, TwoPlaces, Titled, TimesIn, Present, Seat, TopSorted, Current
  <2>4. StartOK'
    BY <1>1, <1>6, <2>1 DEF StartOK, TwoPlaces
  <2> QED
    BY <2>2, <2>3, <2>4 DEF MigrationInv
<1>7. CASE ~TwoPlaces
  <2> DEFINE new(p) == LET r == Read(p[1]) IN File(r.id, IF Written(p) THEN r.title ELSE FALSE, r.created, r.age)
             rebuilt == {Read(n).at : n \in Found}
  <2>1. /\ text' = [p \in DOMAIN text \cup rebuilt |-> IF \E n \in Found : Read(n).at = p THEN new(p) ELSE text[p]]
        /\ served' = [page |-> [n \in Found |-> [id |-> Read(n).id, title |-> Read(n).title, created |-> Read(n).created]],
                      top |-> TopOrder]
        /\ work' = Tail(work)
        /\ state' = IF Tail(work) = <<>> THEN "up" ELSE state
    BY <1>5, <1>7 DEF Rebuild
  <2>2. folder = {1}
    BY <1>3 DEF MigrationInv, SchemaOK, MigrationTypeOK
  <2>3. ASSUME NEW n \in Found
        PROVE  /\ n \in Page /\ Seat(n) \in DOMAIN text /\ text[Seat(n)] \in Content
               /\ text[Seat(n)].id = n /\ text[Seat(n)].title = TRUE
               /\ Read(n).at = Seat(n) /\ Read(n).id = n /\ Read(n).title = TRUE
               /\ text[Seat(n)].created = "zero" => Read(n).created = text[Seat(n)].age
               /\ text[Seat(n)].created # "zero" => Read(n).created = text[Seat(n)].created
               /\ Read(n).age = text[Seat(n)].age
    <3>1. n \in Page /\ (n = 1 \/ <<n, "file">> \in DOMAIN text)
      BY <2>2 DEF Found, Written
    <3>2. n = 1 \/ n \in Present
      BY <1>7, <3>1, PagesAre DEF MigrationInv, DiskOK
    <3>3. Seat(n) \in DOMAIN text /\ text[Seat(n)].id = n /\ text[Seat(n)].title /\ text[Seat(n)] \in Content
      BY <1>3, <1>7, <3>1, <3>2 DEF MigrationInv, SchemaOK, MigrationTypeOK, Titled, Current
    <3>4. Place(n, IF n \in folder THEN "section" ELSE "page") = Seat(n)
      BY <2>2 DEF Place, Seat
    <3>5. n # 0 /\ text[Seat(n)].title = TRUE
      BY <3>1, <3>3, PagesAre DEF Content
    <3> QED
      BY <3>1, <3>3, <3>4, <3>5 DEF Read, Written
  <2>4. rebuilt \subseteq DOMAIN text
    <3>1. \A n \in Found : Read(n).at \in DOMAIN text
      <4> TAKE n \in Found
      <4>1. Seat(n) \in DOMAIN text /\ Read(n).at = Seat(n)
        BY <2>3, Zenon
      <4> QED
        BY <4>1
    <3> QED
      BY <3>1
  <2>5. DOMAIN text' = DOMAIN text
    BY <2>1, <2>4
  <2>6. ASSUME NEW p \in DOMAIN text
        PROVE  \/ text'[p] = text[p]
               \/ \E n \in Found : /\ p = Seat(n)
                                   /\ text'[p] = File(n, TRUE, Read(n).created, text[p].age)
    <3>1. CASE \E n \in Found : Read(n).at = p
      <4>1. PICK n \in Found : Read(n).at = p
        BY <3>1
      <4>2. p = Seat(n) /\ Read(n).id = n /\ Read(n).title = TRUE /\ Read(n).age = text[p].age /\ Written(p)
        <5>1. Read(n).at = Seat(n) /\ Read(n).id = n /\ Read(n).title = TRUE /\ Read(n).age = text[Seat(n)].age
          BY <2>3, Zenon
        <5> QED
          BY <4>1, <5>1 DEF Written
      <4>3. p[1] = n
        BY <4>2 DEF Seat
      <4>4. text'[p] = new(p)
        BY <2>1, <3>1
      <4>5. new(p) = File(n, TRUE, Read(n).created, text[p].age)
        BY <4>2, <4>3
      <4> QED
        BY <4>2, <4>4, <4>5
    <3>2. CASE ~\E n \in Found : Read(n).at = p
      BY <2>1, <3>2
    <3> QED
      BY <3>1, <3>2
  <2>7. ASSUME NEW p \in DOMAIN text
        PROVE  /\ text'[p] \in Content
               /\ \A n \in Page : p = Seat(n) /\ (n = 1 \/ n \in Present) => text'[p].id = n /\ text'[p].title
               /\ \A n \in Page : p = Seat(n) /\ text[p].id \in {0, n} => text'[p].id \in {0, n}
               /\ text[p].created = "old" => text'[p].created = "old"
    <3>1. text[p] \in Content
      BY DEF MigrationInv, MigrationTypeOK
    <3>2. \A n \in Page : p = Seat(n) /\ (n = 1 \/ n \in Present) => text[p].id = n /\ text[p].title
      BY <1>3, <1>7 DEF MigrationInv, SchemaOK, Titled, Current
    <3>3. CASE text'[p] = text[p]
      BY <3>1, <3>2, <3>3
    <3>4. ASSUME NEW n \in Found, p = Seat(n), text'[p] = File(n, TRUE, Read(n).created, text[p].age)
          PROVE  /\ text'[p] \in Content
                 /\ \A m \in Page : p = Seat(m) => m = n
                 /\ text'[p].id = n /\ text'[p].title
                 /\ text[p].created = "old" => text'[p].created = "old"
      <4>1. n \in Nat /\ Read(n).created \in {"zero", "old", "now"} /\ text[p].age \in {"old", "now"}
            /\ (text[p].created = "old" => Read(n).created = "old")
        <5>1. /\ n \in Page
              /\ text[Seat(n)].created = "zero" => Read(n).created = text[Seat(n)].age
              /\ text[Seat(n)].created # "zero" => Read(n).created = text[Seat(n)].created
          BY <2>3, Zenon
        <5>2. text[p].created \in {"zero", "old", "now"} /\ text[p].age \in {"old", "now"}
          BY <3>1 DEF Content
        <5>3. n \in Nat
          BY <5>1, PagesAre
        <5>4. text[Seat(n)] = text[p]
          BY <3>4
        <5>5. CASE text[p].created = "zero"
          <6>1. Read(n).created = text[p].age
            BY <5>1, <5>4, <5>5
          <6> QED
            BY <5>2, <5>3, <5>5, <6>1
        <5>6. CASE text[p].created # "zero"
          <6>1. Read(n).created = text[p].created
            BY <5>1, <5>4, <5>6
          <6> QED
            BY <5>2, <5>3, <6>1
        <5> QED
          BY <5>5, <5>6
      <4> DEFINE c == Read(n).created
                 a == text[p].age
      <4>2. text'[p] = [id |-> n, title |-> TRUE, created |-> c, age |-> a]
        BY <3>4 DEF File
      <4> HIDE DEF c, a
      <4>3. text'[p] \in Content
        BY <4>1, <4>2 DEF Content, c, a
      <4>4. text'[p].id = n /\ text'[p].title = TRUE /\ text'[p].created = c
        BY <4>2
      <4>5. \A m \in Page : p = Seat(m) => m = n
        BY <3>4 DEF Seat
      <4> QED
        BY <4>1, <4>3, <4>4, <4>5 DEF c
    <3> QED
      BY <2>6, <3>3, <3>4
  <2>8. MigrationTypeOK'
    <3>1. text' \in [DOMAIN text -> Content]
      BY <2>1, <2>5, <2>7
    <3>2. state' \in {"down", "starting", "up", "refused"}
      BY <1>2, <2>1
    <3> QED
      BY <1>1, <2>5, <3>1, <3>2 DEF MigrationInv, MigrationTypeOK
  <2>9. DiskOK'
    <3>1. \A n \in Page : Seat(n) \in DOMAIN text => text'[Seat(n)].id \in {0, n}
      BY <1>7, <2>7 DEF MigrationInv, DiskOK
    <3> QED
      BY <1>1, <1>7, <2>5, <3>1 DEF MigrationInv, DiskOK, TwoPlaces, Present, Seat
  <2>10. SchemaOK'
    <3>1. ASSUME NEW n \in Page PROVE Titled(n)' /\ TimesIn(n)'
      <4>1. Titled(n) /\ TimesIn(n)
        BY <1>3, <1>7 DEF MigrationInv, SchemaOK, Current
      <4>2. n = 1 \/ n \in Present => Seat(n) \in DOMAIN text'
        BY <2>5, <4>1 DEF Titled
      <4> QED
        BY <1>1, <2>5, <2>7, <4>1, <4>2 DEF Titled, TimesIn, Present, Seat
    <3>2. TopSorted' /\ 1 \in folder'
      BY <1>1, <1>3 DEF MigrationInv, SchemaOK, TopSorted
    <3> QED
      BY <1>1, <1>3, <3>1, <3>2 DEF SchemaOK, Current
  <2>11. Serves'
    <3>1. ASSUME NEW n \in Present
          PROVE  n \in DOMAIN served'.page /\ served'.page[n] = [id |-> n, title |-> TRUE, created |-> "old"]
      <4>1. n \in Found /\ Read(n).id = n /\ Read(n).title = TRUE /\ Read(n).created = "old"
        BY <1>3, <1>7, ReadIsRight
      <4> QED
        BY <2>1, <4>1
    <3>2. {1, 2} \subseteq Present => served'.top = <<2, 1>>
      BY <1>3, <1>7, <2>1, TopIsRight
    <3> QED
      BY <1>1, <1>7, <3>1, <3>2 DEF Serves, TwoPlaces, Present
  <2>12. StartOK'
    <3>1. work' = <<Do("remove", TreeTop)>> \/ (work' = <<>> /\ state' = "up")
      BY <1>4, <2>1, LastSteps
    <3>2. state' \in {"starting", "up"} /\ schema' = Current
      BY <1>1, <1>2, <1>3, <2>1
    <3>3. state' = "starting" => work' = <<Do("remove", TreeTop)>>
      BY <3>1
    <3>4. ~(schema' < Current)
      BY <3>2 DEF Current
    <3> QED
      BY <2>11, <3>2, <3>3, <3>4 DEF StartOK
  <2> QED
    BY <2>8, <2>9, <2>10, <2>12 DEF MigrationInv
<1> QED
  BY <1>6, <1>7

LEMMA MigrationStays ==
  ASSUME MigrationInv, [MigrationNext]_migrationVars
  PROVE  MigrationInv'
<1>1. CASE UNCHANGED migrationVars
  <2>1. MigrationTypeOK' /\ DiskOK'
    BY <1>1 DEF migrationVars, MigrationInv, MigrationTypeOK, DiskOK, TwoPlaces, Present, Seat
  <2>2. SchemaOK'
    BY <1>1 DEF migrationVars, MigrationInv, SchemaOK, TreeAt, TwoPlaces, Times, KindsOf, Titled, TimesIn, Present, Seat, TopSorted
  <2>3. StartOK'
    BY <1>1 DEF migrationVars, MigrationInv, StartOK, Serves, Fileless, TreeAt, At, Progress, TwoPlaces, Times, KindsOf,
                Titled, TimesIn, Present, Seat, TopSorted
  <2> QED
    BY <2>1, <2>2, <2>3 DEF MigrationInv
<1>2. CASE MigrationNext
  BY <1>2, StartKeeps, BackfillMetadataKeeps, BackfillKindKeeps, AddFrontmatterKeeps, RefuseDriftKeeps,
     BackfillMetadataFrontmatterKeeps, MaterializeSectionIndexKeeps, BackfillChildOrderKeeps, SaveTreeKeeps, SaveSchemaKeeps, RebuildKeeps,
     RemoveSnapshotKeeps, StopKeeps, Zenon DEF MigrationNext
<1> QED
  BY <1>1, <1>2

(* Through every start that is cut off, whatever version is saved has been  *)
(* applied to the tree that is saved with it and to the files, and what was *)
(* already done is not undone by doing it again.                            *)
THEOREM MigrationInvariant == MigrationSpec => []MigrationInv
<1>1. MigrationInit => MigrationInv
  BY MigrationStarts
<1>2. MigrationInv /\ [MigrationNext]_migrationVars => MigrationInv'
  BY MigrationStays
<1> QED
  BY <1>1, <1>2, PTL DEF MigrationSpec

(* The instance that starts in the end serves the pages there were, as the  *)
(* snapshot knew them.                                                      *)
THEOREM MigrationDoesKeep == MigrationSpec => []MigrationKeeps
<1>1. MigrationInv => MigrationKeeps
  <2> SUFFICES ASSUME MigrationInv PROVE MigrationKeeps
    OBVIOUS
  <2>1. state = "up" => Serves
    BY DEF MigrationInv, StartOK
  <2>2. state = "refused" => schema = -1 \/ TwoPlaces \/ Fileless
    BY DEF MigrationInv, StartOK
  <2> QED
    BY <2>1, <2>2 DEF MigrationKeeps, Serves, TwoPlaces, Present
<1> QED
  BY <1>1, MigrationInvariant, PTL

=============================================================================
