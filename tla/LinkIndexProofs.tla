-------------------------- MODULE LinkIndexProofs --------------------------
(***************************************************************************)
(* The rows of links, for any pages, places, titles and threads.           *)
(*                                                                         *)
(* A page whose rows are not the links of its text is missed for good, or  *)
(* a thread has a call left that will write them: one that was given the   *)
(* page as it is, or one that reads the page first.  A call that was       *)
(* overtaken writes nothing, what the index is given without a stored text *)
(* is always overtaken, and no call is dropped that would have to write.   *)
(*                                                                         *)
(* What a row leads to is the page that has its path, or the one thread    *)
(* that is at work has a call left that will break it or heal it; none of  *)
(* the calls that are left breaks a link that is right (last sections).    *)
(***************************************************************************)
EXTENDS LinkIndex, LinkRewriting, SequenceTheorems, FiniteSetTheorems, WellFoundedInduction, TLAPS

Left(s) == {s[k] : k \in DOMAIN s}
IsSeries(s) == s \in Seq(Left(s))

\* What of a page and of a row matters, whatever the values
IsPage(g) == "stamp" \in DOMAIN g /\ g.stamp \in Nat \ {0}
IsRow(r) == r = [from |-> r.from, to |-> r.to, target |-> r.target] /\ r.from \in Page

LinkTypeOK ==
  /\ used \subseteq Page /\ Live \subseteq used /\ missed \subseteq Live
  /\ pages = [p \in Live |-> pages[p]] /\ \A p \in Live : IsPage(pages[p])
  /\ \A r \in rows : IsRow(r)
  /\ calls = [t \in Thread |-> calls[t]] /\ \A t \in Thread : IsSeries(calls[t])

Gone == used \ Live

\* What a call may have as its argument: the links that are written are those of the text
\* that is compared, unless that is none that is stored; pages whose links are deleted are gone.
Sensible(c, gone) ==
  /\ c.do = "write" => DOMAIN c.arg.targets = c.arg.of.page.links
  /\ c.do = "batch" => \A u \in c.arg : u.of.page.stamp = 0 \/ DOMAIN u.targets = u.of.page.links
  /\ c.do = "resolveRows" => \A s \in c.arg.of : s.page.stamp = 0
  /\ c.do = "outgoing" => c.arg \in gone
  /\ c.do = "each" =>
       /\ c.arg = [what |-> c.arg.what, of |-> c.arg.of]
       /\ c.arg.what \in {"outgoing", "incoming", "oldTitle", "index", "save"}
       /\ c.arg.what = "outgoing" => c.arg.of \subseteq gone

\* A call that reads the pages or relocates one drops what comes after it, which is little.
After(c, d) == c.do \notin {"readBack", "walk", "load"} /\ (c.do = "target" => d.do \in {"subtree", "refresh"})
Ordered(s) == \A j \in DOMAIN s, k \in DOMAIN s : j < k => After(s[j], s[k])
Cleared(s) == (\E c \in Left(s) : c.do = "clear") => \E c \in Left(s) : c.do = "walk"

WellFormed(s, gone) == IsSeries(s) /\ Ordered(s) /\ Cleared(s) /\ \A c \in Left(s) : Sensible(c, gone)

\* A call that will bring the rows of a page to its links, or remove those of a page that is gone
Now(p, md) == [id |-> p, page |-> md[p]]
Follows(c, p, md) ==
  IF p \in DOMAIN md
  THEN \/ c.do \in {"settle", "resolve"} /\ Now(p, md) \in c.arg
       \/ c.do = "each" /\ c.arg.what = "index" /\ Now(p, md) \in c.arg.of
       \/ c.do = "index" /\ c.arg = Now(p, md)
       \/ c.do = "write" /\ c.arg.of = Now(p, md)
       \/ c.do = "batch" /\ \E u \in c.arg : u.of = Now(p, md)
       \/ c.do = "readBack" /\ c.arg = p
       \/ c.do = "walk"
       \/ c.do = "load" /\ p \in c.arg
  ELSE \/ c.do = "outgoing" /\ c.arg = p
       \/ c.do = "each" /\ c.arg.what = "outgoing" /\ p \in c.arg.of

FollowedBy(s, p, md) == \E c \in Left(s) : Follows(c, p, md)

LinksIn(R, p) == {r.to : r \in {r \in R : r.from = p}}
UpToDate(R, p, md) == LinksIn(R, p) = IF p \in DOMAIN md THEN md[p].links ELSE {}

Kept(p, md, R, lost, all) ==
  p \in lost \/ UpToDate(R, p, md) \/ \E t \in Thread : FollowedBy(all[t], p, md)

LinkInv ==
  /\ LinkTypeOK
  /\ \A t \in Thread : WellFormed(calls[t], Gone)
  /\ \A p \in Page : Kept(p, pages, rows, missed, calls)

-----------------------------------------------------------------------------
(* Series of calls *)

LEMMA AnySeries ==
  ASSUME NEW S, NEW s \in Seq(S)
  PROVE  IsSeries(s)
<1>1. Len(s) \in Nat /\ DOMAIN s = 1..Len(s) /\ s = [k \in 1..Len(s) |-> s[k]]
  OBVIOUS
<1>2. \A k \in 1..Len(s) : s[k] \in Left(s)
  BY <1>1 DEF Left
<1> DEFINE T == Left(s)
<1> HIDE DEF T
<1>3. s \in [1..Len(s) -> T]
  BY <1>1, <1>2 DEF T
<1>4. s \in Seq(T)
  BY <1>1, <1>3
<1> QED BY <1>4 DEF T, IsSeries

LEMMA FirstAndRest ==
  ASSUME NEW s, IsSeries(s), s # <<>>
  PROVE  /\ Left(s) = {s[1]} \cup Left(Tail(s)) /\ 1 \in DOMAIN s /\ IsSeries(Tail(s))
         /\ \A k \in DOMAIN Tail(s) : k + 1 \in DOMAIN s /\ k + 1 > 1 /\ Tail(s)[k] = s[k + 1]
<1>1. /\ Len(s) \in Nat /\ Len(s) > 0 /\ DOMAIN s = 1..Len(s) /\ Tail(s) \in Seq(Left(s))
      /\ Len(Tail(s)) = Len(s) - 1 /\ DOMAIN Tail(s) = 1..(Len(s) - 1)
      /\ \A k \in 1..(Len(s) - 1) : Tail(s)[k] = s[k + 1]
  BY DEF IsSeries
<1>2. \A k \in DOMAIN Tail(s) : k + 1 \in DOMAIN s /\ k + 1 > 1 /\ Tail(s)[k] = s[k + 1]
  BY <1>1
<1>3. ASSUME NEW k \in DOMAIN s
      PROVE  s[k] \in {s[1]} \cup Left(Tail(s))
  <2>1. CASE k # 1
    <3>1. k - 1 \in DOMAIN Tail(s) /\ s[k] = Tail(s)[k - 1]
      BY <1>1, <2>1
    <3> QED BY <3>1 DEF Left
  <2> QED BY <2>1
<1>4. ASSUME NEW k \in DOMAIN Tail(s)
      PROVE  Tail(s)[k] \in Left(s)
  BY <1>2 DEF Left
<1>5. 1 \in DOMAIN s
  BY <1>1
<1>6. Left(s) = {s[1]} \cup Left(Tail(s))
  BY <1>3, <1>4, <1>5 DEF Left
<1>7. IsSeries(Tail(s))
  BY <1>1, AnySeries
<1> QED BY <1>2, <1>5, <1>6, <1>7

LEMMA Joined ==
  ASSUME NEW r, IsSeries(r), NEW s, IsSeries(s)
  PROVE  /\ IsSeries(r \o s) /\ Left(r \o s) = Left(r) \cup Left(s)
         /\ \A k \in DOMAIN (r \o s) : \/ k \in DOMAIN r /\ (r \o s)[k] = r[k]
                                       \/ k - Len(r) \in DOMAIN s /\ (r \o s)[k] = s[k - Len(r)] /\ k > Len(r)
         /\ Len(r) \in Nat /\ DOMAIN r = 1..Len(r) /\ DOMAIN (r \o s) \subseteq Nat
<1> DEFINE S == Left(r) \cup Left(s)
<1>1. r \in Seq(S) /\ s \in Seq(S)
  <2>1. /\ Len(r) \in Nat /\ r \in [1..Len(r) -> Left(r)]
        /\ Len(s) \in Nat /\ s \in [1..Len(s) -> Left(s)]
    BY DEF IsSeries
  <2>2. r \in [1..Len(r) -> S] /\ s \in [1..Len(s) -> S]
    BY <2>1
  <2> HIDE DEF S
  <2> QED BY <2>1, <2>2
<1> HIDE DEF S
<1>2. /\ r \o s \in Seq(S) /\ Len(r) \in Nat /\ Len(s) \in Nat /\ DOMAIN r = 1..Len(r) /\ DOMAIN s = 1..Len(s)
      /\ DOMAIN (r \o s) = 1..(Len(r) + Len(s)) /\ Len(r \o s) = Len(r) + Len(s)
      /\ \A k \in 1..(Len(r) + Len(s)) : (r \o s)[k] = IF k <= Len(r) THEN r[k] ELSE s[k - Len(r)]
  BY <1>1
<1>3. \A k \in DOMAIN (r \o s) : \/ k \in DOMAIN r /\ (r \o s)[k] = r[k]
                                 \/ k - Len(r) \in DOMAIN s /\ (r \o s)[k] = s[k - Len(r)] /\ k > Len(r)
  BY <1>2
<1>4. ASSUME NEW k \in DOMAIN r
      PROVE  k \in DOMAIN (r \o s) /\ (r \o s)[k] = r[k]
  BY <1>2
<1>5. ASSUME NEW k \in DOMAIN s
      PROVE  k + Len(r) \in DOMAIN (r \o s) /\ (r \o s)[k + Len(r)] = s[k]
  BY <1>2
<1>6. Left(r \o s) = Left(r) \cup Left(s)
  BY <1>3, <1>4, <1>5 DEF Left
<1>7. r \o s \in Seq(Left(r \o s))
  BY <1>2, <1>6 DEF S
<1> QED BY <1>2, <1>3, <1>6, <1>7 DEF IsSeries

LEMMA Ones ==
  /\ IsSeries(<<>>) /\ Left(<<>>) = {}
  /\ \A a : IsSeries(<<a>>) /\ Left(<<a>>) = {a}
  /\ \A a, b : IsSeries(<<a, b>>) /\ Left(<<a, b>>) = {a, b}
  /\ \A a, b, c : IsSeries(<<a, b, c>>) /\ Left(<<a, b, c>>) = {a, b, c}
  /\ \A a, b, c, d : IsSeries(<<a, b, c, d>>) /\ Left(<<a, b, c, d>>) = {a, b, c, d}
<1>1. \A a : Left(<<a>>) = {a}
  BY DEF Left
<1>2. \A a, b : Left(<<a, b>>) = {a, b}
  BY DEF Left
<1>3. \A a, b, c : Left(<<a, b, c>>) = {a, b, c}
  BY DEF Left
<1>4. \A a, b, c, d : Left(<<a, b, c, d>>) = {a, b, c, d}
  BY DEF Left
<1>5. Left(<<>>) = {}
  BY DEF Left
<1> QED BY <1>1, <1>2, <1>3, <1>4, <1>5 DEF IsSeries

\* Calls after which the others of their thread still come, and that need no other
Still(c) == c.do \notin {"readBack", "walk", "load", "target", "clear"}
Fine(r, gone) == IsSeries(r) /\ \A c \in Left(r) : Still(c) /\ Sensible(c, gone)

LEMMA FineJoined ==
  \A r, s, gone : Fine(r, gone) /\ Fine(s, gone) => Fine(r \o s, gone)
BY Joined DEF Fine

LEMMA FineForm ==
  ASSUME NEW r, NEW gone, Fine(r, gone)
  PROVE  WellFormed(r, gone)
<1>1. IsSeries(r) /\ \A k \in DOMAIN r : r[k] \in Left(r)
  BY DEF Fine, Left
<1> QED BY <1>1 DEF Fine, WellFormed, Ordered, Cleared, After, Still

\* The rest of a series, with plain calls before it
LEMMA Prefixed ==
  ASSUME NEW s, NEW r, NEW gone, WellFormed(s, gone), s # <<>>, Fine(r, gone)
  PROVE  /\ WellFormed(r \o Tail(s), gone) /\ Left(r \o Tail(s)) = Left(r) \cup Left(Tail(s))
         /\ Left(s) = {s[1]} \cup Left(Tail(s)) /\ Sensible(s[1], gone)
         /\ s[1].do \in {"readBack", "walk", "load"} => Tail(s) = <<>> /\ Left(Tail(s)) = {}
         /\ s[1].do = "target" => \A c \in Left(Tail(s)) : c.do \in {"subtree", "refresh"}
<1> DEFINE u == Tail(s)
<1>1. /\ Left(s) = {s[1]} \cup Left(u) /\ 1 \in DOMAIN s /\ IsSeries(u)
      /\ \A k \in DOMAIN u : k + 1 \in DOMAIN s /\ k + 1 > 1 /\ u[k] = s[k + 1]
  BY FirstAndRest DEF WellFormed
<1>2. /\ IsSeries(r \o u) /\ Left(r \o u) = Left(r) \cup Left(u)
      /\ \A k \in DOMAIN (r \o u) : \/ k \in DOMAIN r /\ (r \o u)[k] = r[k]
                                    \/ k - Len(r) \in DOMAIN u /\ (r \o u)[k] = u[k - Len(r)] /\ k > Len(r)
      /\ Len(r) \in Nat /\ DOMAIN r = 1..Len(r) /\ DOMAIN (r \o u) \subseteq Nat
  <2> HIDE DEF u
  <2> QED BY <1>1, Joined DEF Fine
<1>3. \A k \in DOMAIN u : After(s[1], u[k])
  BY <1>1 DEF WellFormed, Ordered
<1>4. \A k \in DOMAIN r : Still(r[k])
  BY DEF Fine, Left
<1>12. DOMAIN u \subseteq Int
  <2>1. \A k \in DOMAIN u : k \in Int
    BY <1>1 DEF IsSeries
  <2> QED BY <2>1
<1> HIDE DEF u
<1>5. ASSUME NEW j \in DOMAIN (r \o u), NEW k \in DOMAIN (r \o u), j < k
      PROVE  After((r \o u)[j], (r \o u)[k])
  <2>1. CASE j \in DOMAIN r /\ (r \o u)[j] = r[j]
    BY <1>4, <2>1 DEF Still, After
  <2>2. CASE j - Len(r) \in DOMAIN u /\ (r \o u)[j] = u[j - Len(r)] /\ j > Len(r)
    <3>1. k \notin DOMAIN r
      BY <1>2, <1>5, <2>2
    <3>2. k - Len(r) \in DOMAIN u /\ (r \o u)[k] = u[k - Len(r)]
      BY <1>2, <3>1
    <3>3. /\ (j - Len(r)) + 1 \in DOMAIN s /\ (k - Len(r)) + 1 \in DOMAIN s
          /\ u[j - Len(r)] = s[(j - Len(r)) + 1] /\ u[k - Len(r)] = s[(k - Len(r)) + 1]
          /\ (j - Len(r)) + 1 < (k - Len(r)) + 1
      BY <1>1, <1>2, <1>5, <2>2, <3>2
    <3> QED BY <2>2, <3>2, <3>3 DEF WellFormed, Ordered
  <2> QED BY <1>2, <2>1, <2>2
<1>6. Cleared(r \o u)
  <2>1. ASSUME NEW c \in Left(r \o u), c.do = "clear"
        PROVE  \E d \in Left(r \o u) : d.do = "walk"
    <3>1. c \in Left(u)
      BY <1>2, <2>1 DEF Fine, Still
    <3>2. PICK k \in DOMAIN u : c = u[k]
      BY <3>1 DEF Left
    <3>3. s[1].do # "walk"
      BY <1>3, <3>2 DEF After
    <3>4. PICK d \in Left(s) : d.do = "walk"
      BY <1>1, <2>1, <3>1 DEF WellFormed, Cleared
    <3> QED BY <1>1, <1>2, <3>3, <3>4
  <2> QED BY <2>1 DEF Cleared
<1>7. \A c \in Left(r \o u) : Sensible(c, gone)
  BY <1>1, <1>2 DEF WellFormed, Fine
<1>8. s[1].do \in {"readBack", "walk", "load"} => u = <<>> /\ Left(u) = {}
  <2>1. s[1].do \in {"readBack", "walk", "load"} => DOMAIN u = {}
    BY <1>3 DEF After
  <2>2. DOMAIN u = {} => u = <<>>
    BY <1>1 DEF IsSeries
  <2> QED BY <2>1, <2>2, Ones
<1>9. s[1].do = "target" => \A c \in Left(u) : c.do \in {"subtree", "refresh"}
  BY <1>3 DEF After, Left
<1>10. Ordered(r \o u)
  BY <1>5 DEF Ordered
<1>11. Sensible(s[1], gone)
  BY <1>1 DEF WellFormed
<1> QED BY <1>1, <1>2, <1>6, <1>7, <1>8, <1>9, <1>10, <1>11 DEF WellFormed, u

-----------------------------------------------------------------------------
(* The statements of the store, by the links they leave to a page *)

LEMMA LinksOf == \A p : RowsOf(p) = LinksIn(rows, p)
BY DEF RowsOf, LinksIn

\* Two tables have the same links of a page if each row has one with its ends in the other.
LEMMA SameLinks ==
  ASSUME NEW R, NEW Q, NEW p,
         \A r \in R : r.from = p => \E q \in Q : q.from = p /\ q.to = r.to,
         \A q \in Q : q.from = p => \E r \in R : r.from = p /\ r.to = q.to
  PROVE  LinksIn(R, p) = LinksIn(Q, p)
BY DEF LinksIn

LEMMA ReplacedLinks ==
  ASSUME NEW R, \A r \in R : IsRow(r), NEW s, NEW targets, s.id \in Page
  PROVE  /\ \A r \in Replaced(R, s, targets) : IsRow(r)
         /\ LinksIn(Replaced(R, s, targets), s.id) = DOMAIN targets
         /\ \A p : p # s.id => LinksIn(Replaced(R, s, targets), p) = LinksIn(R, p)
<1> DEFINE row(ref) == [from |-> s.id, to |-> ref, target |-> targets[ref]]
           fresh == {row(ref) : ref \in DOMAIN targets}
           kept == {r \in R : r.from # s.id}
<1>1. Replaced(R, s, targets) = kept \cup fresh
  BY DEF Replaced
<1>2. \A ref : row(ref).from = s.id /\ row(ref).to = ref /\ IsRow(row(ref))
  BY DEF IsRow
<1> HIDE DEF row
<1>3. \A r \in fresh : IsRow(r) /\ r.from = s.id /\ r.to \in DOMAIN targets
  BY <1>2
<1>4. \A ref \in DOMAIN targets : row(ref) \in fresh /\ row(ref).from = s.id /\ row(ref).to = ref
  BY <1>2
<1> HIDE DEF fresh
<1>5. LinksIn(kept \cup fresh, s.id) = DOMAIN targets
  BY <1>3, <1>4 DEF LinksIn
<1>6. ASSUME NEW p, p # s.id
      PROVE  LinksIn(kept \cup fresh, p) = LinksIn(R, p)
  BY <1>3, <1>6, SameLinks
<1> QED BY <1>1, <1>3, <1>5, <1>6

LEMMA HealedLinks ==
  ASSUME NEW R, \A r \in R : IsRow(r), NEW ref, NEW p
  PROVE  /\ \A r \in Healed(R, ref, p) : IsRow(r)
         /\ \A q : LinksIn(Healed(R, ref, p), q) = LinksIn(R, q)
<1> DEFINE f(r) == IF r.to = ref /\ r.target = NoPage THEN [r EXCEPT !.target = p] ELSE r
<1>1. ASSUME NEW r \in R
      PROVE  IsRow(f(r)) /\ f(r).from = r.from /\ f(r).to = r.to
  <2>1. IsRow(r)
    OBVIOUS
  <2> QED BY <2>1 DEF IsRow
<1>2. Healed(R, ref, p) = {f(r) : r \in R}
  BY DEF Healed
<1> HIDE DEF f
<1>3. \A q \in {f(r) : r \in R} : \E r \in R : q = f(r)
  OBVIOUS
<1>4. \A r \in R : f(r) \in {f(x) : x \in R}
  OBVIOUS
<1> DEFINE Q == {f(r) : r \in R}
<1> HIDE DEF Q
<1>5. (\A q \in Q : \E r \in R : q = f(r)) /\ (\A r \in R : f(r) \in Q) /\ Healed(R, ref, p) = Q
  BY <1>2, <1>3, <1>4 DEF Q
<1>6. \A q : LinksIn(Q, q) = LinksIn(R, q)
  BY <1>1, <1>5, SameLinks
<1> QED BY <1>1, <1>5, <1>6

LEMMA BrokenLinks ==
  ASSUME \A r \in rows : IsRow(r), NEW hit \in SUBSET rows
  PROVE  /\ \A r \in Broken(hit) : IsRow(r)
         /\ \A q : LinksIn(Broken(hit), q) = LinksIn(rows, q)
<1> DEFINE f(r) == [r EXCEPT !.target = NoPage]
           Q == {f(r) : r \in hit}
<1>1. ASSUME NEW r \in rows
      PROVE  IsRow(f(r)) /\ f(r).from = r.from /\ f(r).to = r.to
  <2>1. IsRow(r)
    OBVIOUS
  <2> QED BY <2>1 DEF IsRow
<1>2. Broken(hit) = (rows \ hit) \cup Q
  BY DEF Broken
<1> HIDE DEF f
<1>3. (\A q \in Q : \E r \in hit : q = f(r)) /\ (\A r \in hit : f(r) \in Q)
  OBVIOUS
<1> HIDE DEF Q
<1>4. \A q : LinksIn((rows \ hit) \cup Q, q) = LinksIn(rows, q)
  BY <1>1, <1>3, SameLinks
<1> QED BY <1>1, <1>2, <1>3, <1>4

\* What a batch leaves: pages that are still what they were have the links of their text.
LEMMA BatchedLinks ==
  ASSUME LinkTypeOK, NEW U, \A u \in U : u.of.page.stamp = 0 \/ DOMAIN u.targets = u.of.page.links
  PROVE  /\ \A r \in Batched(rows, U) : IsRow(r)
         /\ \A p : UpToDate(rows, p, pages) => UpToDate(Batched(rows, U), p, pages)
         /\ \A p \in Live : (\E u \in U : u.of = Now(p, pages)) => UpToDate(Batched(rows, U), p, pages)
<1> DEFINE ok == {u \in U : Current(u.of)}
           ids == {u.of.id : u \in ok}
           kept == {r \in rows : r.from \notin ids}
           row(u, ref) == [from |-> u.of.id, to |-> ref, target |-> u.targets[ref]]
           newOf(u) == {row(u, ref) : ref \in DOMAIN u.targets}
           fresh == UNION {newOf(u) : u \in ok}
           There(r) == {u \in ok : u.of.page.place = r.to}
           f(r) == IF r.target = NoPage /\ There(r) # {} THEN [r EXCEPT !.target = (CHOOSE u \in There(r) : TRUE).of.id] ELSE r
           all == kept \cup fresh
           Q == {f(r) : r \in all}
<1>1. Batched(rows, U) = Q
  BY DEF Batched
<1>2. \A u \in ok : u.of.id \in Live /\ u.of.id \in Page /\ DOMAIN u.targets = pages[u.of.id].links
  <2>1. TAKE u \in ok
  <2>2. /\ u \in U /\ u.of.id \in Live /\ pages[u.of.id].stamp = u.of.page.stamp
        /\ pages[u.of.id].links = u.of.page.links
    BY DEF Current
  <2>3. pages[u.of.id].stamp # 0 /\ u.of.id \in Page
    BY <2>2 DEF LinkTypeOK, IsPage
  <2> QED BY <2>2, <2>3
<1>3. \A p : p \in ids <=> \E u \in ok : u.of.id = p
  OBVIOUS
<1>4. \A u, ref : row(u, ref).from = u.of.id /\ row(u, ref).to = ref /\ (u.of.id \in Page => IsRow(row(u, ref)))
  BY DEF IsRow
<1>5. ASSUME NEW p \in Live, NEW u \in U, u.of = Now(p, pages)
      PROVE  p \in ids
  BY <1>5 DEF Now, Current
<1> HIDE DEF ok, row
<1>6. \A u \in ok : \A ref \in DOMAIN u.targets : row(u, ref) \in fresh
  OBVIOUS
<1>7. \A r \in fresh : \E u \in ok : \E ref \in DOMAIN u.targets : r = row(u, ref)
  OBVIOUS
<1> HIDE DEF fresh, ids
<1>8. \A r \in all : IsRow(r)
  BY <1>2, <1>4, <1>7 DEF LinkTypeOK
<1>9. ASSUME NEW r \in all
      PROVE  IsRow(f(r)) /\ f(r).from = r.from /\ f(r).to = r.to
  <2>1. IsRow(r)
    BY <1>8
  <2> QED BY <2>1 DEF IsRow
<1>10. ASSUME NEW p \in ids
       PROVE  LinksIn(all, p) = pages[p].links /\ p \in Live
  <2>1. \A r \in all : r.from = p => r \in fresh
    OBVIOUS
  <2>2. p \in Live
    BY <1>2, <1>3
  <2>3. ASSUME NEW r \in all, r.from = p
        PROVE  r.to \in pages[p].links
    BY <1>2, <1>4, <1>7, <2>1, <2>3
  <2>4. ASSUME NEW ref \in pages[p].links
        PROVE  \E r \in all : r.from = p /\ r.to = ref
    <3>1. PICK u \in ok : u.of.id = p
      BY <1>3
    <3>2. row(u, ref) \in all
      BY <1>2, <1>6, <2>4, <3>1
    <3> QED BY <1>4, <3>1, <3>2
  <2> HIDE DEF all
  <2> QED BY <2>2, <2>3, <2>4 DEF LinksIn
<1>11. ASSUME NEW p, p \notin ids
       PROVE  LinksIn(all, p) = LinksIn(rows, p)
  <2>1. \A r \in fresh : r.from # p
    BY <1>3, <1>4, <1>7, <1>11
  <2>2. \A r \in rows : r.from = p => r \in all
    BY <1>11
  <2>3. \A r \in all : r.from = p => r \in rows
    BY <2>1
  <2> HIDE DEF all
  <2> QED BY <2>2, <2>3, SameLinks
<1> HIDE DEF f, all
<1>12. (\A q \in Q : \E r \in all : q = f(r)) /\ (\A r \in all : f(r) \in Q)
  OBVIOUS
<1> HIDE DEF Q
<1>13. \A p : LinksIn(Q, p) = LinksIn(all, p)
  BY <1>9, <1>12, SameLinks
<1>14. \A r \in Q : IsRow(r)
  BY <1>9, <1>12
<1>15. \A p \in ids : UpToDate(Q, p, pages)
  BY <1>10, <1>13 DEF UpToDate, Live
<1>16. \A p : p \notin ids => (UpToDate(rows, p, pages) => UpToDate(Q, p, pages))
  BY <1>11, <1>13 DEF UpToDate
<1> QED BY <1>1, <1>5, <1>14, <1>15, <1>16

-----------------------------------------------------------------------------
(* What a step leaves *)

\* The page is what it was, and what was left to do for it still is, or is done.
Spared(p) ==
  /\ (p \in DOMAIN pages)' <=> p \in DOMAIN pages
  /\ p \in DOMAIN pages => pages'[p] = pages[p]
  /\ p \in missed => p \in missed'
  /\ UpToDate(rows, p, pages) => UpToDate(rows', p, pages)

LEMMA Taken ==
  ASSUME LinkInv, NEW t \in Thread, NEW s, calls' = [calls EXCEPT ![t] = s],
         used' \subseteq Page, Live' \subseteq used', missed' \subseteq Live',
         pages' = [p \in Live' |-> pages'[p]], \A p \in Live' : IsPage(pages'[p]), \A r \in rows' : IsRow(r),
         Gone \subseteq Gone', WellFormed(s, Gone'),
         \A p \in Page :
           \/ Kept(p, pages', rows', missed', calls')
           \/ Spared(p) /\ (FollowedBy(calls[t], p, pages) => FollowedBy(s, p, pages))
  PROVE  LinkInv'
<1>1. /\ calls'[t] = s /\ \A u \in Thread : u # t => calls'[u] = calls[u]
      /\ calls' = [u \in Thread |-> calls'[u]]
  BY DEF LinkInv, LinkTypeOK
<1>2. \A c : Sensible(c, Gone) => Sensible(c, Gone')
  BY DEF Sensible
<1>3. \A u \in Thread : WellFormed(calls'[u], Gone')
  BY <1>1, <1>2 DEF LinkInv, WellFormed
<1>4. LinkTypeOK'
  BY <1>1, <1>3 DEF LinkTypeOK, WellFormed
<1>5. ASSUME NEW p \in Page, Spared(p), FollowedBy(calls[t], p, pages) => FollowedBy(s, p, pages)
      PROVE  Kept(p, pages', rows', missed', calls')
  <2>1. Kept(p, pages, rows, missed, calls)
    BY DEF LinkInv
  <2>2. \A q : FollowedBy(q, p, pages) => FollowedBy(q, p, pages')
    BY <1>5 DEF Spared, FollowedBy, Follows, Now
  <2>3. UpToDate(rows', p, pages) => UpToDate(rows', p, pages')
    BY <1>5 DEF Spared, UpToDate
  <2> QED BY <1>1, <1>5, <2>1, <2>2, <2>3 DEF Kept, Spared
<1> QED BY <1>3, <1>4, <1>5 DEF LinkInv

\* A call that is made, with the calls that take its place
LEMMA Made ==
  ASSUME LinkInv, NEW t \in Thread, calls[t] # <<>>, NEW r, Goes(t, r), Fine(r, Gone), NoPageChange,
         \A q \in rows' : IsRow(q),
         \A p \in Page :
           \/ Kept(p, pages, rows', missed, calls')
           \/ /\ UpToDate(rows, p, pages) => UpToDate(rows', p, pages)
              /\ ~Follows(Head1(t), p, pages) \/ FollowedBy(r, p, pages)
  PROVE  LinkInv'
<1> DEFINE s == r \o Tail(calls[t])
<1>1. WellFormed(calls[t], Gone)
  BY DEF LinkInv
<1>2. calls' = [calls EXCEPT ![t] = s]
  BY DEF Goes
<1>3. /\ WellFormed(s, Gone) /\ Left(s) = Left(r) \cup Left(Tail(calls[t]))
      /\ Left(calls[t]) = {Head1(t)} \cup Left(Tail(calls[t]))
  BY <1>1, Prefixed DEF Head1
<1> HIDE DEF s
<1>4. pages' = pages /\ used' = used /\ missed' = missed /\ Live' = Live /\ Gone' = Gone
  BY DEF NoPageChange, Live, Gone
<1>5. ASSUME NEW p \in Page, UpToDate(rows, p, pages) => UpToDate(rows', p, pages),
             ~Follows(Head1(t), p, pages) \/ FollowedBy(r, p, pages)
      PROVE  Spared(p) /\ (FollowedBy(calls[t], p, pages) => FollowedBy(s, p, pages))
  <2>1. Spared(p)
    BY <1>4, <1>5 DEF Spared
  <2>2. FollowedBy(calls[t], p, pages) => FollowedBy(s, p, pages)
    BY <1>3, <1>5 DEF FollowedBy
  <2> QED BY <2>1, <2>2
<1>6. \A p \in Page : \/ Kept(p, pages', rows', missed', calls')
                      \/ Spared(p) /\ (FollowedBy(calls[t], p, pages) => FollowedBy(s, p, pages))
  BY <1>4, <1>5
<1>7. /\ used' \subseteq Page /\ Live' \subseteq used' /\ missed' \subseteq Live'
      /\ pages' = [p \in Live' |-> pages'[p]] /\ \A p \in Live' : IsPage(pages'[p])
  BY <1>4 DEF LinkInv, LinkTypeOK
<1>8. Gone \subseteq Gone' /\ WellFormed(s, Gone')
  BY <1>3, <1>4
<1> QED BY <1>2, <1>6, <1>7, <1>8, Taken

-----------------------------------------------------------------------------
(* Calls of the links service *)

LEMMA Fields == \A do, arg : Call(do, arg).do = do /\ Call(do, arg).arg = arg
BY DEF Call

Humble == {"settle", "heal", "title", "healTitle", "oldTitle", "prefix", "path", "incoming", "index", "save",
           "rewrite", "subtree", "refresh", "resolve"}

\* Calls of which nothing is asked
LEMMA Harmless == \A do \in Humble : \A arg, gone : Still(Call(do, arg)) /\ Sensible(Call(do, arg), gone)
BY Fields DEF Humble, Still, Sensible

LEMMA EmptyFine == \A gone : Fine(<<>>, gone)
BY Ones DEF Fine

LEMMA OneFine == \A c, gone : Still(c) /\ Sensible(c, gone) => Fine(<<c>>, gone) /\ Left(<<c>>) = {c}
BY Ones DEF Fine

LEMMA SettleFine ==
  ASSUME NEW S, NEW gone
  PROVE  Fine(Settle(S), gone) /\ \A p, md : (p \in DOMAIN md /\ Now(p, md) \in S) => FollowedBy(Settle(S), p, md)
<1>1. CASE S = {}
  BY <1>1, EmptyFine DEF Settle
<1>2. CASE S # {}
  <2> DEFINE c == Call("settle", S)
  <2>1. c.do = "settle" /\ c.arg = S /\ Still(c) /\ Sensible(c, gone)
    BY Fields, Harmless DEF Humble
  <2>2. Settle(S) = <<c>>
    BY <1>2 DEF Settle
  <2> HIDE DEF c
  <2>3. Fine(<<c>>, gone) /\ Left(<<c>>) = {c}
    BY <2>1, OneFine
  <2> QED BY <2>1, <2>2, <2>3 DEF FollowedBy, Follows
<1> QED BY <1>1, <1>2

LEMMA EachFine ==
  ASSUME NEW what \in {"outgoing", "incoming", "oldTitle", "index", "save"}, NEW S, NEW gone, what = "outgoing" => S \subseteq gone
  PROVE  /\ Fine(Each(what, S), gone)
         /\ what = "outgoing" => \A p, md : p \in S /\ p \notin DOMAIN md => FollowedBy(Each(what, S), p, md)
         /\ what = "index" => \A p, md : p \in DOMAIN md /\ Now(p, md) \in S => FollowedBy(Each(what, S), p, md)
<1>1. CASE S = {}
  BY <1>1, EmptyFine DEF Each
<1>2. CASE S # {}
  <2> DEFINE a == [what |-> what, of |-> S]
             c == Call("each", a)
  <2>1. c.do = "each" /\ c.arg = a
    BY Fields
  <2>2. a = [what |-> a.what, of |-> a.of] /\ a.what = what /\ a.of = S
    OBVIOUS
  <2>3. Each(what, S) = <<c>>
    BY <1>2 DEF Each
  <2> HIDE DEF c, a
  <2>4. Still(c) /\ Sensible(c, gone)
    BY <2>1, <2>2 DEF Still, Sensible
  <2>5. Fine(<<c>>, gone) /\ Left(<<c>>) = {c}
    BY <2>4, OneFine
  <2> QED BY <2>1, <2>2, <2>3, <2>5 DEF FollowedBy, Follows
<1> QED BY <1>1, <1>2

LEMMA FirstCall ==
  ASSUME LinkInv, NEW t \in Thread, calls[t] # <<>>
  PROVE  Sensible(Head1(t), Gone) /\ Head1(t) \in Left(calls[t])
<1>1. WellFormed(calls[t], Gone)
  BY DEF LinkInv
<1> QED BY <1>1, FirstAndRest DEF WellFormed, Head1

LEMMA RowsAre == LinkInv => \A r \in rows : IsRow(r)
BY DEF LinkInv, LinkTypeOK

LEMMA ResolveTargetsStep ==
  ASSUME LinkInv, NEW t \in Thread, ResolveTargets(t)
  PROVE  LinkInv'
<1>1. Does(t, "settle") /\ NoPageChange /\ UNCHANGED rows
  BY DEF ResolveTargets
<1>2. PICK s \in Head1(t).arg :
        Goes(t, <<Call("write", [of |-> s, targets |-> Targets(s.page.links)]),
                  Call("heal", s), Call("title", s)>> \o Settle(Head1(t).arg \ {s}))
  BY DEF ResolveTargets
<1> DEFINE u == [of |-> s, targets |-> Targets(s.page.links)]
           w == Call("write", u)
           h == Call("heal", s)
           n == Call("title", s)
           rest == Settle(Head1(t).arg \ {s})
           r == <<w, h, n>> \o rest
<1>3. w.do = "write" /\ w.arg.of = s /\ DOMAIN w.arg.targets = s.page.links
  BY Fields DEF Targets
<1>4. Still(w) /\ Sensible(w, Gone)
  BY <1>3 DEF Still, Sensible
<1>5. Still(h) /\ Sensible(h, Gone) /\ Still(n) /\ Sensible(n, Gone)
  BY Harmless DEF Humble
<1>6. Goes(t, r)
  BY <1>2
<1>7. Fine(rest, Gone) /\ \A p : (p \in DOMAIN pages /\ Now(p, pages) \in Head1(t).arg \ {s}) => FollowedBy(rest, p, pages)
  BY SettleFine
<1> HIDE DEF w, h, n, rest
<1>8. Fine(<<w, h, n>>, Gone) /\ Left(<<w, h, n>>) = {w, h, n}
  BY <1>4, <1>5, Ones DEF Fine
<1> DEFINE a == <<w, h, n>>
<1> HIDE DEF a
<1>9. Fine(a \o rest, Gone) /\ Left(a \o rest) = Left(a) \cup Left(rest)
  BY <1>7, <1>8, FineJoined, Joined DEF Fine, a
<1>10. ASSUME NEW p \in Page, Follows(Head1(t), p, pages)
       PROVE  FollowedBy(a \o rest, p, pages)
  <2>1. p \in DOMAIN pages /\ Now(p, pages) \in Head1(t).arg
    BY <1>1, <1>10 DEF Does, Follows
  <2>2. CASE Now(p, pages) = s
    <3>1. Follows(w, p, pages) /\ w \in Left(a \o rest)
      BY <1>3, <1>8, <1>9, <2>1, <2>2 DEF Follows, a
    <3> QED BY <3>1 DEF FollowedBy
  <2>3. CASE Now(p, pages) # s
    BY <1>7, <1>9, <2>1, <2>3 DEF FollowedBy
  <2> QED BY <2>2, <2>3
<1>11. Goes(t, a \o rest) /\ calls[t] # <<>>
  BY <1>1, <1>6 DEF a, Does
<1> HIDE DEF r
<1> QED BY <1>1, <1>9, <1>10, <1>11, RowsAre, Made

LEMMA AddLinksStep ==
  ASSUME LinkInv, NEW t \in Thread, AddLinks(t)
  PROVE  LinkInv'
<1> DEFINE u == Head1(t).arg
<1>1. /\ Does(t, "write") /\ calls[t] # <<>> /\ NoPageChange /\ Goes(t, <<>>)
      /\ rows' = IF Current(u.of) THEN Replaced(rows, u.of, u.targets) ELSE rows
  BY DEF AddLinks, Does
<1>2. DOMAIN u.targets = u.of.page.links
  BY <1>1, FirstCall DEF Does, Sensible
<1>3. CASE Current(u.of)
  <2>1. u.of.id \in Live /\ u.of.id \in Page /\ DOMAIN u.targets = pages[u.of.id].links
    BY <1>2, <1>3 DEF Current, LinkInv, LinkTypeOK
  <2>2. /\ \A r \in rows' : IsRow(r)
        /\ LinksIn(rows', u.of.id) = DOMAIN u.targets
        /\ \A p : p # u.of.id => LinksIn(rows', p) = LinksIn(rows, p)
    <3>1. rows' = Replaced(rows, u.of, u.targets) /\ u.of.id \in Page /\ \A r \in rows : IsRow(r)
      BY <1>1, <1>3, <2>1, RowsAre
    <3> DEFINE s == u.of
               targets == u.targets
    <3> HIDE DEF s, targets
    <3>2. /\ \A r \in Replaced(rows, s, targets) : IsRow(r)
          /\ LinksIn(Replaced(rows, s, targets), s.id) = DOMAIN targets
          /\ \A p : p # s.id => LinksIn(Replaced(rows, s, targets), p) = LinksIn(rows, p)
      BY <3>1, ReplacedLinks DEF s
    <3> QED BY <3>1, <3>2 DEF s, targets
  <2>3. UpToDate(rows', u.of.id, pages)
    BY <2>1, <2>2 DEF UpToDate, Live
  <2>4. \A p : p # u.of.id => (UpToDate(rows, p, pages) => UpToDate(rows', p, pages))
    BY <2>2 DEF UpToDate
  <2>5. \A p : p # u.of.id => ~Follows(Head1(t), p, pages)
    BY <1>1 DEF Follows, Does, Now
  <2>6. \A p \in Page : \/ Kept(p, pages, rows', missed, calls')
                        \/ /\ UpToDate(rows, p, pages) => UpToDate(rows', p, pages)
                           /\ ~Follows(Head1(t), p, pages)
    BY <2>3, <2>4, <2>5 DEF Kept
  <2> QED BY <1>1, <2>2, <2>6, EmptyFine, Made
<1>4. CASE ~Current(u.of)
  <2>1. rows' = rows
    BY <1>1, <1>4
  <2>2. \A p \in Page : ~Follows(Head1(t), p, pages)
    BY <1>1, <1>4 DEF Follows, Does, Now, Current, Live
  <2> QED BY <1>1, <2>1, <2>2, RowsAre, EmptyFine, Made
<1> QED BY <1>3, <1>4

\* A call that brings no page up to date, and leaves every row its ends
LEMMA Aside ==
  ASSUME LinkInv, NEW t \in Thread, calls[t] # <<>>, NEW r, Goes(t, r), Fine(r, Gone), NoPageChange,
         Head1(t).do \notin {"settle", "resolve", "each", "index", "write", "batch", "readBack", "walk", "load", "outgoing"},
         \A q \in rows' : IsRow(q), \A p : LinksIn(rows', p) = LinksIn(rows, p)
  PROVE  LinkInv'
<1>1. \A p \in Page : ~Follows(Head1(t), p, pages)
  BY DEF Follows
<1>2. \A p \in Page : UpToDate(rows, p, pages) => UpToDate(rows', p, pages)
  BY DEF UpToDate
<1> QED BY <1>1, <1>2, Made

LEMMA HealStep ==
  ASSUME LinkInv, NEW t \in Thread, HealExactPath(t) \/ HealTitle(t)
  PROVE  LinkInv'
<1> DEFINE s == Head1(t).arg
<1>1. \A ref : (\A r \in Healed(rows, ref, s.id) : IsRow(r)) /\ \A q : LinksIn(Healed(rows, ref, s.id), q) = LinksIn(rows, q)
  BY HealedLinks, RowsAre
<1>2. /\ calls[t] # <<>> /\ NoPageChange /\ Goes(t, <<>>) /\ Head1(t).do \in {"heal", "healTitle"}
      /\ rows' = rows \/ \E ref : rows' = Healed(rows, ref, s.id)
  BY DEF HealExactPath, HealTitle, Does
<1>3. (\A q \in rows' : IsRow(q)) /\ \A p : LinksIn(rows', p) = LinksIn(rows, p)
  BY <1>1, <1>2, RowsAre
<1> QED BY <1>2, <1>3, EmptyFine, Aside

LEMMA TitleStep ==
  ASSUME LinkInv, NEW t \in Thread, CheckTitle(t) \/ FindTitle(t)
  PROVE  LinkInv'
<1>1. /\ calls[t] # <<>> /\ NoPageChange /\ rows' = rows /\ Head1(t).do \in {"title", "oldTitle"}
      /\ Goes(t, <<>>) \/ \E s : Goes(t, <<Call("healTitle", s)>>)
  BY DEF CheckTitle, FindTitle, Does
<1>2. \A s : Fine(<<Call("healTitle", s)>>, Gone)
  BY Harmless, OneFine DEF Humble
<1> QED BY <1>1, <1>2, EmptyFine, RowsAre, Aside

LEMMA MarkBrokenStep ==
  ASSUME LinkInv, NEW t \in Thread, MarkBroken(t)
  PROVE  LinkInv'
<1>1. /\ calls[t] # <<>> /\ NoPageChange /\ Goes(t, <<>>) /\ Head1(t).do \in {"prefix", "path", "incoming"}
      /\ \E hit \in SUBSET rows : rows' = Broken(hit)
  BY DEF MarkBroken, Does
<1>2. (\A q \in rows' : IsRow(q)) /\ \A p : LinksIn(rows', p) = LinksIn(rows, p)
  BY <1>1, RowsAre, BrokenLinks
<1> QED BY <1>1, <1>2, EmptyFine, Aside

LEMMA DeleteOutgoingStep ==
  ASSUME LinkInv, NEW t \in Thread, DeleteOutgoing(t)
  PROVE  LinkInv'
<1> DEFINE gone == Head1(t).arg
<1>1. /\ Does(t, "outgoing") /\ calls[t] # <<>> /\ NoPageChange /\ Goes(t, <<>>)
      /\ rows' = {r \in rows : r.from # gone}
  BY DEF DeleteOutgoing, Does
<1>2. gone \notin Live
  BY <1>1, FirstCall DEF Does, Sensible, Gone
<1>3. \A p : p # gone => LinksIn(rows', p) = LinksIn(rows, p)
  BY <1>1 DEF LinksIn
<1>4. LinksIn(rows', gone) = {}
  BY <1>1 DEF LinksIn
<1>5. \A q \in rows' : IsRow(q)
  BY <1>1, RowsAre
<1>6. \A p \in Page : \/ Kept(p, pages, rows', missed, calls')
                      \/ /\ UpToDate(rows, p, pages) => UpToDate(rows', p, pages)
                         /\ ~Follows(Head1(t), p, pages)
  <2>1. TAKE p \in Page
  <2>2. CASE p = gone
    BY <1>2, <1>4, <2>2 DEF Kept, UpToDate, Live
  <2>3. CASE p # gone
    BY <1>1, <1>3, <2>3 DEF UpToDate, Follows, Does
  <2> QED BY <2>2, <2>3
<1> QED BY <1>1, <1>5, <1>6, EmptyFine, Made

LEMMA EachOfStep ==
  ASSUME LinkInv, NEW t \in Thread, EachOf(t)
  PROVE  LinkInv'
<1> DEFINE a == Head1(t).arg
           more(x) == [a EXCEPT !.of = @ \ {x}]
           rest(x) == IF a.of = {x} THEN <<>> ELSE <<Call("each", more(x))>>
<1>1. /\ Does(t, "each") /\ calls[t] # <<>> /\ NoPageChange /\ rows' = rows
      /\ \E x \in a.of : Goes(t, <<Call(a.what, x)>> \o rest(x))
  BY DEF EachOf, Does
<1>2. PICK x \in a.of : Goes(t, <<Call(a.what, x)>> \o rest(x))
  BY <1>1
<1>3. /\ a = [what |-> a.what, of |-> a.of] /\ a.what \in {"outgoing", "incoming", "oldTitle", "index", "save"}
      /\ a.what = "outgoing" => a.of \subseteq Gone
  BY <1>1, FirstCall DEF Does, Sensible
<1>4. more(x) = [what |-> a.what, of |-> a.of \ {x}]
  BY <1>3
<1> DEFINE c == Call(a.what, x)
           e == Each(a.what, a.of \ {x})
<1>5. rest(x) = e
  <2>1. a.of = {x} <=> a.of \ {x} = {}
    BY <1>2
  <2> QED BY <1>4, <2>1 DEF Each
<1>6. c.do = a.what /\ c.arg = x
  BY Fields
<1> HIDE DEF c, e, a
<1>7. Still(c) /\ Sensible(c, Gone)
  BY <1>2, <1>3, <1>6 DEF Still, Sensible
<1>8. Fine(<<c>>, Gone) /\ Left(<<c>>) = {c}
  BY <1>7, OneFine
<1>9. /\ Fine(e, Gone)
      /\ a.what = "outgoing" => \A p, md : p \in a.of \ {x} /\ p \notin DOMAIN md => FollowedBy(e, p, md)
      /\ a.what = "index" => \A p, md : p \in DOMAIN md /\ Now(p, md) \in a.of \ {x} => FollowedBy(e, p, md)
  BY <1>3, EachFine DEF e
<1> DEFINE one == <<c>>
<1> HIDE DEF one
<1>10. Fine(one \o e, Gone) /\ Left(one \o e) = {c} \cup Left(e)
  BY <1>8, <1>9, FineJoined, Joined DEF Fine, one
<1>11. Goes(t, one \o e)
  BY <1>2, <1>5 DEF one, c
<1>12. ASSUME NEW p \in Page, Follows(Head1(t), p, pages)
       PROVE  FollowedBy(one \o e, p, pages)
  <2>1. Follows(Head1(t), p, pages) /\ Head1(t).do = "each" /\ Head1(t).arg = a
    BY <1>1, <1>12 DEF Does, a
  <2>2. CASE p \in DOMAIN pages
    <3>1. a.what = "index" /\ Now(p, pages) \in a.of
      BY <2>1, <2>2 DEF Follows
    <3>2. CASE Now(p, pages) = x
      BY <1>6, <1>10, <2>2, <3>1, <3>2 DEF FollowedBy, Follows
    <3>3. CASE Now(p, pages) # x
      BY <1>9, <1>10, <2>2, <3>1, <3>3 DEF FollowedBy
    <3> QED BY <3>2, <3>3
  <2>3. CASE p \notin DOMAIN pages
    <3>1. a.what = "outgoing" /\ p \in a.of
      BY <2>1, <2>3 DEF Follows
    <3>2. CASE p = x
      BY <1>6, <1>10, <2>3, <3>1, <3>2 DEF FollowedBy, Follows
    <3>3. CASE p # x
      BY <1>9, <1>10, <2>3, <3>1, <3>3 DEF FollowedBy
    <3> QED BY <3>2, <3>3
  <2> QED BY <2>2, <2>3
<1> DEFINE r == one \o e
<1>13. /\ Goes(t, r) /\ Fine(r, Gone)
       /\ \A p \in Page : ~Follows(Head1(t), p, pages) \/ FollowedBy(r, p, pages)
  BY <1>10, <1>11, <1>12
<1> HIDE DEF r
<1> QED BY <1>1, <1>13, RowsAre, Made

LEMMA ReadBackStep ==
  ASSUME LinkInv, NEW t \in Thread, ReadBack(t)
  PROVE  LinkInv'
<1> DEFINE p == Head1(t).arg
           r == IF p \in Live THEN Settle({Snapshot(p)}) ELSE <<>>
<1>1. Does(t, "readBack") /\ calls[t] # <<>> /\ NoPageChange /\ rows' = rows /\ calls' = [calls EXCEPT ![t] = r]
  BY DEF ReadBack, Does
<1>2. Fine(r, Gone) /\ (p \in Live => FollowedBy(r, p, pages))
  <2>1. Snapshot(p) = Now(p, pages)
    BY DEF Snapshot, Now
  <2> QED BY <2>1, EmptyFine, SettleFine DEF Live
<1> HIDE DEF r
<1>3. WellFormed(r, Gone)
  BY <1>2, FineForm
<1>4. WellFormed(calls[t], Gone) /\ Fine(<<>>, Gone)
  BY EmptyFine DEF LinkInv
<1>5. Left(calls[t]) = {Head1(t)}
  BY <1>1, <1>4, Prefixed DEF Does, Head1
<1>6. pages' = pages /\ used' = used /\ missed' = missed /\ Live' = Live /\ Gone' = Gone
  BY <1>1 DEF NoPageChange, Live, Gone
<1>7. ASSUME NEW q \in Page
      PROVE  Spared(q) /\ (FollowedBy(calls[t], q, pages) => FollowedBy(r, q, pages))
  <2>1. Follows(Head1(t), q, pages) => q = p /\ q \in Live
    BY <1>1 DEF Does, Follows, Live
  <2> QED BY <1>1, <1>2, <1>5, <1>6, <2>1 DEF Spared, FollowedBy
<1>8. /\ used' \subseteq Page /\ Live' \subseteq used' /\ missed' \subseteq Live'
      /\ pages' = [q \in Live' |-> pages'[q]] /\ \A q \in Live' : IsPage(pages'[q])
  BY <1>6 DEF LinkInv, LinkTypeOK
<1>9. \A q \in rows' : IsRow(q)
  BY <1>1, RowsAre
<1> QED BY <1>1, <1>3, <1>6, <1>7, <1>8, <1>9, Taken

LEMMA ClearStep ==
  ASSUME LinkInv, NEW t \in Thread, ClearLinks(t)
  PROVE  LinkInv'
<1>1. Does(t, "clear") /\ calls[t] # <<>> /\ NoPageChange /\ rows' = {} /\ Goes(t, <<>>)
  BY DEF ClearLinks, Does
<1>2. WellFormed(calls[t], Gone) /\ Fine(<<>>, Gone)
  BY EmptyFine DEF LinkInv
<1>3. /\ Left(calls[t]) = {Head1(t)} \cup Left(Tail(calls[t]))
      /\ Left(Tail(calls[t])) \subseteq Left(calls'[t])
  <2> DEFINE none == <<>>
             s == none \o Tail(calls[t])
  <2>1. calls'[t] = s
    BY <1>1 DEF Goes, LinkInv, LinkTypeOK
  <2>2. Fine(none, Gone)
    BY <1>2
  <2> HIDE DEF none
  <2>3. /\ Left(calls[t]) = {calls[t][1]} \cup Left(Tail(calls[t]))
        /\ Left(s) = Left(none) \cup Left(Tail(calls[t]))
    BY <1>1, <1>2, <2>2, Prefixed
  <2> QED BY <2>1, <2>3 DEF Head1
<1>4. PICK c \in Left(calls[t]) : c.do = "walk"
  BY <1>1, <1>2, <1>3 DEF Does, WellFormed, Cleared
<1>5. c \in Left(calls'[t])
  BY <1>1, <1>3, <1>4 DEF Does
<1>6. ASSUME NEW p \in Page
      PROVE  Kept(p, pages, rows', missed, calls')
  <2>1. CASE p \in DOMAIN pages
    BY <1>4, <1>5, <2>1 DEF Kept, FollowedBy, Follows
  <2>2. CASE p \notin DOMAIN pages
    BY <1>1, <2>2 DEF Kept, UpToDate, LinksIn
  <2> QED BY <2>1, <2>2
<1> QED BY <1>1, <1>2, <1>6, Made

LEMMA LoadAllStep ==
  ASSUME LinkInv, NEW t \in Thread, LoadAllPages(t)
  PROVE  LinkInv'
<1> DEFINE S == {Snapshot(p) : p \in Head1(t).arg}
           r == Each("index", S)
<1>1. /\ Does(t, "load") /\ calls[t] # <<>> /\ NoPageChange /\ rows' = rows /\ Goes(t, r)
  BY DEF LoadAllPages, Does
<1>2. \A p \in Head1(t).arg : Now(p, pages) \in S
  BY DEF Snapshot, Now
<1> HIDE DEF S
<1>3. Fine(r, Gone) /\ \A p : p \in DOMAIN pages /\ p \in Head1(t).arg => FollowedBy(r, p, pages)
  BY <1>2, EachFine
<1>4. \A p \in Page : ~Follows(Head1(t), p, pages) \/ FollowedBy(r, p, pages)
  BY <1>1, <1>3 DEF Does, Follows
<1> HIDE DEF r
<1> QED BY <1>1, <1>3, <1>4, RowsAre, Made

\* The call that writes what was resolved, alone
LEMMA IndexStep ==
  ASSUME LinkInv, NEW t \in Thread, IndexPage(t)
  PROVE  LinkInv'
<1> DEFINE s == Head1(t).arg
           u == [of |-> s, targets |-> Targets(s.page.links)]
           w == Call("write", u)
<1>1. Does(t, "index") /\ calls[t] # <<>> /\ NoPageChange /\ rows' = rows /\ Goes(t, <<w>>)
  BY DEF IndexPage, Does
<1>2. w.do = "write" /\ w.arg.of = s /\ DOMAIN w.arg.targets = s.page.links
  BY Fields DEF Targets
<1> HIDE DEF w
<1>3. Still(w) /\ Sensible(w, Gone)
  BY <1>2 DEF Still, Sensible
<1>4. Fine(<<w>>, Gone) /\ Left(<<w>>) = {w}
  BY <1>3, OneFine
<1>5. \A p \in Page : ~Follows(Head1(t), p, pages) \/ FollowedBy(<<w>>, p, pages)
  BY <1>1, <1>2, <1>4 DEF Does, Follows, FollowedBy
<1> QED BY <1>1, <1>4, <1>5, RowsAre, Made

LEMMA ReplaceBatchStep ==
  ASSUME LinkInv, NEW t \in Thread, ReplaceBatch(t)
  PROVE  LinkInv'
<1> DEFINE U == Head1(t).arg
<1>1. Does(t, "batch") /\ calls[t] # <<>> /\ NoPageChange /\ Goes(t, <<>>) /\ rows' = Batched(rows, U)
  BY DEF ReplaceBatch, Does
<1>2. \A u \in U : u.of.page.stamp = 0 \/ DOMAIN u.targets = u.of.page.links
  BY <1>1, FirstCall DEF Does, Sensible
<1>3. /\ \A r \in rows' : IsRow(r)
      /\ \A p : UpToDate(rows, p, pages) => UpToDate(rows', p, pages)
      /\ \A p \in Live : (\E u \in U : u.of = Now(p, pages)) => UpToDate(rows', p, pages)
  BY <1>1, <1>2, BatchedLinks DEF LinkInv
<1>4. \A p \in Page : \/ Kept(p, pages, rows', missed, calls')
                      \/ /\ UpToDate(rows, p, pages) => UpToDate(rows', p, pages)
                         /\ ~Follows(Head1(t), p, pages)
  BY <1>1, <1>3 DEF Kept, Follows, Does, Live
<1> QED BY <1>1, <1>3, <1>4, EmptyFine, Made

LEMMA ResolveBatchStep ==
  ASSUME LinkInv, NEW t \in Thread, ResolveBatch(t)
  PROVE  LinkInv'
<1> DEFINE S == Head1(t).arg
           u(s) == [of |-> s, targets |-> Targets(s.page.links)]
           U == {u(s) : s \in S}
           b == Call("batch", U)
<1>1. Does(t, "resolve") /\ calls[t] # <<>> /\ NoPageChange /\ rows' = rows /\ Goes(t, <<b>>)
  BY DEF ResolveBatch, Does
<1>2. \A s : u(s).of = s /\ DOMAIN u(s).targets = s.page.links
  BY DEF Targets
<1>3. b.do = "batch" /\ b.arg = U
  BY Fields
<1> HIDE DEF u, b
<1>4. (\A x \in U : \E s \in S : x = u(s)) /\ \A s \in S : u(s) \in U
  OBVIOUS
<1> HIDE DEF U
<1>8. (\A x \in U : DOMAIN x.targets = x.of.page.links) /\ \A s \in S : \E x \in U : x.of = s
  BY <1>2, <1>4
<1>5. Still(b) /\ Sensible(b, Gone)
  BY <1>3, <1>8 DEF Still, Sensible
<1>6. Fine(<<b>>, Gone) /\ Left(<<b>>) = {b}
  BY <1>5, OneFine
<1>7. \A p \in Page : ~Follows(Head1(t), p, pages) \/ FollowedBy(<<b>>, p, pages)
  BY <1>1, <1>3, <1>8, <1>6 DEF Does, Follows, FollowedBy
<1> QED BY <1>1, <1>6, <1>7, RowsAre, Made

-----------------------------------------------------------------------------
(* Refactoring *)

\* What is given to the index without a stored text is no page that is stored.
LEMMA Unread ==
  ASSUME LinkInv, NEW q \in Live, NEW u, u.of = Snapshot(q)
  PROVE  Unstored(u).page.stamp = 0
<1> DEFINE g == pages[q]
<1>1. u.of.page = g /\ IsPage(g)
  BY DEF Snapshot, LinkInv, LinkTypeOK
<1> HIDE DEF g
<1>2. [g EXCEPT !.links = u.links, !.stamp = 0].stamp = 0
  BY <1>1 DEF IsPage
<1>3. Unstored(u).page = [g EXCEPT !.links = u.links, !.stamp = 0]
  BY <1>1 DEF Unstored
<1> QED BY <1>2, <1>3

LEMMA LoadAffectedStep ==
  ASSUME LinkInv, NEW t \in Thread, LoadAffected(t)
  PROVE  LinkInv'
<1> DEFINE rule == Head1(t).arg.rule
           picked == {q \in Head1(t).arg.ids \cap Live : RewrittenLinks(pages[q].links, rule) \in Content \ {pages[q].links}}
           u(q) == [of |-> Snapshot(q), links |-> RewrittenLinks(pages[q].links, rule)]
           fresh == {u(q) : q \in picked}
           S == {Unstored(x) : x \in fresh}
           arg == [of |-> S, rule |-> rule]
           c == Call("resolveRows", arg)
           save == Each("save", fresh)
           r == IF fresh = {} THEN <<>> ELSE save \o <<c>>
<1>1. Does(t, "rewrite") /\ calls[t] # <<>> /\ NoPageChange /\ rows' = rows /\ Goes(t, r)
  BY DEF LoadAffected, Does
<1>2. \A q : u(q).of = Snapshot(q)
  OBVIOUS
<1> HIDE DEF u
<1>3. \A x \in fresh : \E q \in Live : x.of = Snapshot(q)
  BY <1>2
<1> HIDE DEF fresh
<1>4. \A s \in S : s.page.stamp = 0
  BY <1>3, Unread
<1>5. c.do = "resolveRows" /\ c.arg.of = S
  BY Fields
<1> HIDE DEF S, c
<1>6. Still(c) /\ Sensible(c, Gone)
  BY <1>4, <1>5 DEF Still, Sensible
<1>7. Fine(<<c>>, Gone) /\ Fine(save, Gone) /\ Fine(<<>>, Gone)
  BY <1>6, OneFine, EachFine, EmptyFine
<1> DEFINE one == <<c>>
<1> HIDE DEF save, one
<1>8. Fine(save \o one, Gone)
  BY <1>7, FineJoined DEF one
<1>9. Fine(r, Gone)
  BY <1>7, <1>8 DEF one
<1> HIDE DEF r
<1> QED BY <1>1, <1>9, RowsAre, Aside DEF Does

LEMMA ResolveRowsStep ==
  ASSUME LinkInv, NEW t \in Thread, ResolveRows(t)
  PROVE  LinkInv'
<1> DEFINE rule == Head1(t).arg.rule
           u(s) == [of |-> s, targets |-> Targets(RewrittenLinks(RowsOf(s.id) \cap Place, rule))]
           U == {u(s) : s \in Head1(t).arg.of}
           b == Call("batch", U)
<1>1. Does(t, "resolveRows") /\ calls[t] # <<>> /\ NoPageChange /\ rows' = rows /\ Goes(t, <<b>>)
  BY DEF ResolveRows, Does
<1>2. \A s \in Head1(t).arg.of : s.page.stamp = 0
  BY <1>1, FirstCall DEF Does, Sensible
<1>3. \A s : u(s).of = s
  OBVIOUS
<1> HIDE DEF u
<1>4. \A x \in U : x.of.page.stamp = 0
  BY <1>2, <1>3
<1>5. b.do = "batch" /\ b.arg = U
  BY Fields
<1> HIDE DEF U, b
<1>6. Still(b) /\ Sensible(b, Gone)
  BY <1>4, <1>5 DEF Still, Sensible
<1>7. Fine(<<b>>, Gone)
  BY <1>6, OneFine
<1> QED BY <1>1, <1>7, RowsAre, Aside DEF Does

LEMMA LoadSubtreeStep ==
  ASSUME LinkInv, NEW t \in Thread, LoadSubtree(t)
  PROVE  LinkInv'
<1>1. /\ Does(t, "subtree") /\ calls[t] # <<>> /\ NoPageChange /\ rows' = rows
      /\ \E fresh, S : Goes(t, IF fresh = {} THEN <<>> ELSE Each("save", fresh) \o <<Call("resolve", S)>>)
  BY DEF LoadSubtree, Does
<1>2. PICK fresh, S : Goes(t, IF fresh = {} THEN <<>> ELSE Each("save", fresh) \o <<Call("resolve", S)>>)
  BY <1>1
<1> DEFINE save == Each("save", fresh)
           one == <<Call("resolve", S)>>
           r == IF fresh = {} THEN <<>> ELSE save \o one
<1>3. Fine(one, Gone) /\ Fine(save, Gone) /\ Fine(<<>>, Gone)
  BY Harmless, OneFine, EachFine, EmptyFine DEF Humble
<1> HIDE DEF save, one
<1>4. Fine(save \o one, Gone)
  BY <1>3, FineJoined
<1>5. Fine(r, Gone)
  BY <1>3, <1>4
<1>6. Goes(t, r)
  BY <1>2 DEF save, one
<1> HIDE DEF r
<1> QED BY <1>1, <1>5, <1>6, RowsAre, Aside DEF Does

\* A call that leaves the rows and changes pages: what the change needs is asked of its calls.
LEMMA Changed ==
  ASSUME LinkInv, NEW t \in Thread, NEW s, calls' = [calls EXCEPT ![t] = s], rows' = rows,
         used' \subseteq Page, Live' \subseteq used', missed' \subseteq Live',
         pages' = [p \in Live' |-> pages'[p]], \A p \in Live' : IsPage(pages'[p]),
         Gone \subseteq Gone', WellFormed(s, Gone'),
         \A p \in Page :
           \/ p \in missed' \/ FollowedBy(s, p, pages')
           \/ /\ (p \in DOMAIN pages)' <=> p \in DOMAIN pages
              /\ p \in DOMAIN pages => pages'[p] = pages[p]
              /\ p \in missed => p \in missed'
              /\ FollowedBy(calls[t], p, pages) => FollowedBy(s, p, pages)
  PROVE  LinkInv'
<1>1. calls'[t] = s /\ \A q \in rows' : IsRow(q)
  BY RowsAre DEF LinkInv, LinkTypeOK
<1>2. \A p \in Page : \/ Kept(p, pages', rows', missed', calls')
                      \/ Spared(p) /\ (FollowedBy(calls[t], p, pages) => FollowedBy(s, p, pages))
  BY <1>1 DEF Kept, Spared
<1> QED BY <1>1, <1>2, Taken

LEMMA LoadRefreshStep ==
  ASSUME LinkInv, NEW t \in Thread, LoadRefresh(t)
  PROVE  LinkInv'
<1> DEFINE now == {Snapshot(q) : q \in Head1(t).arg \cap Live}
           c == Call("resolve", now)
           r == IF now = {} THEN <<>> ELSE <<c>>
           s == r \o Tail(calls[t])
<1>1. /\ Does(t, "refresh") /\ calls[t] # <<>> /\ calls' = [calls EXCEPT ![t] = s] /\ rows' = rows
      /\ missed' = missed \ {x.id : x \in now} /\ pages' = pages /\ used' = used
  BY DEF LoadRefresh, Does, Goes
<1>2. \A x \in now : x = Now(x.id, pages) /\ x.id \in DOMAIN pages
  BY DEF Snapshot, Now, Live
<1>3. c.do = "resolve" /\ c.arg = now /\ Still(c) /\ Sensible(c, Gone)
  BY Fields, Harmless DEF Humble
<1> HIDE DEF now, c
<1>4. Fine(r, Gone) /\ \A x \in now : FollowedBy(r, x.id, pages)
  <2>1. Fine(<<c>>, Gone) /\ Left(<<c>>) = {c} /\ Fine(<<>>, Gone)
    BY <1>3, OneFine, EmptyFine
  <2> QED BY <1>2, <1>3, <2>1 DEF FollowedBy, Follows
<1> HIDE DEF r
<1>5. WellFormed(calls[t], Gone)
  BY DEF LinkInv
<1>6. /\ WellFormed(s, Gone) /\ Left(s) = Left(r) \cup Left(Tail(calls[t]))
      /\ Left(calls[t]) = {Head1(t)} \cup Left(Tail(calls[t]))
  BY <1>1, <1>4, <1>5, Prefixed DEF Head1
<1> HIDE DEF s
<1>7. Live' = Live /\ Gone' = Gone
  BY <1>1 DEF Live, Gone
<1>8. ASSUME NEW p \in Page
      PROVE  \/ p \in missed' \/ FollowedBy(s, p, pages')
             \/ (p \in missed => p \in missed') /\ (FollowedBy(calls[t], p, pages) => FollowedBy(s, p, pages))
  <2>1. ~Follows(Head1(t), p, pages)
    BY <1>1 DEF Does, Follows
  <2>2. FollowedBy(calls[t], p, pages) => FollowedBy(s, p, pages)
    BY <1>6, <2>1 DEF FollowedBy
  <2>3. ASSUME p \in missed, p \notin missed'
        PROVE  FollowedBy(s, p, pages')
    <3>1. PICK x \in now : x.id = p
      BY <1>1, <2>3
    <3> QED BY <1>1, <1>4, <1>6, <3>1 DEF FollowedBy
  <2> QED BY <2>2, <2>3
<1>9. /\ used' \subseteq Page /\ Live' \subseteq used' /\ missed' \subseteq Live'
      /\ pages' = [q \in Live' |-> pages'[q]] /\ \A q \in Live' : IsPage(pages'[q])
  BY <1>1, <1>7 DEF LinkInv, LinkTypeOK
<1> QED BY <1>1, <1>6, <1>7, <1>8, <1>9, Changed

\* The rebuild has a list, in which is every page that is there.
LEMMA ListPagesStep ==
  ASSUME LinkInv, NEW t \in Thread, ListPages(t)
  PROVE  LinkInv'
<1> DEFINE c == Call("load", Live)
           one == <<c>>
           s == one \o Tail(calls[t])
<1>1. /\ Does(t, "walk") /\ calls[t] # <<>> /\ NoPageChange /\ rows' = rows
      /\ calls' = [calls EXCEPT ![t] = s]
  BY DEF ListPages, Does, Goes
<1>2. c.do = "load" /\ c.arg = Live
  BY Fields
<1> HIDE DEF c
<1>3. WellFormed(calls[t], Gone) /\ Fine(<<>>, Gone)
  BY EmptyFine DEF LinkInv
<1>4. Tail(calls[t]) = <<>>
  BY <1>1, <1>3, Prefixed DEF Does, Head1
<1>5. s = one /\ IsSeries(one) /\ Left(one) = {c} /\ DOMAIN one = {1}
  <2>1. IsSeries(one) /\ Left(one) = {c}
    BY Ones
  <2>2. DOMAIN one = {1} /\ one \o <<>> = one
    OBVIOUS
  <2> HIDE DEF one
  <2>3. s = one
    BY <1>4, <2>2
  <2> QED BY <2>1, <2>2, <2>3
<1> HIDE DEF one, s
<1>6. WellFormed(s, Gone)
  <2>1. Ordered(s)
    BY <1>5 DEF Ordered
  <2> QED BY <1>2, <1>5, <2>1 DEF WellFormed, Cleared, Sensible
<1>7. /\ pages' = pages /\ used' = used /\ missed' = missed /\ Live' = Live /\ Gone' = Gone
  BY <1>1 DEF NoPageChange, Live, Gone
<1>8. ASSUME NEW p \in Page
      PROVE  FollowedBy(calls[t], p, pages) => FollowedBy(s, p, pages)
  <2>1. CASE p \in DOMAIN pages
    BY <1>2, <1>5, <2>1 DEF FollowedBy, Follows, Live
  <2>2. CASE p \notin DOMAIN pages
    <3>1. Left(calls[t]) = {Head1(t)}
      BY <1>1, <1>3, Prefixed DEF Does, Head1
    <3> QED BY <1>1, <2>2, <3>1 DEF FollowedBy, Follows, Does
  <2> QED BY <2>1, <2>2
<1>9. /\ used' \subseteq Page /\ Live' \subseteq used' /\ missed' \subseteq Live'
      /\ pages' = [q \in Live' |-> pages'[q]] /\ \A q \in Live' : IsPage(pages'[q])
  BY <1>7 DEF LinkInv, LinkTypeOK
<1> QED BY <1>1, <1>6, <1>7, <1>8, <1>9, Changed

\* A rebuild that is cut short indexes a page of its list that is there, or that one is missed.
LEMMA LoadStopsShortStep ==
  ASSUME LinkInv, NEW t \in Thread, LoadStopsShort(t)
  PROVE  LinkInv'
<1> DEFINE found == Head1(t).arg \cap Live
<1>1. PICK those \in SUBSET found :
        /\ Goes(t, Each("index", {Snapshot(p) : p \in those}))
        /\ missed' = missed \cup (found \ those)
  BY DEF LoadStopsShort
<1> DEFINE S == {Snapshot(p) : p \in those}
           r == Each("index", S)
           s == r \o Tail(calls[t])
<1>2. /\ Does(t, "load") /\ calls[t] # <<>> /\ calls' = [calls EXCEPT ![t] = s] /\ rows' = rows
      /\ pages' = pages /\ used' = used
  BY <1>1 DEF LoadStopsShort, Does, Goes
<1>3. \A p \in those : Now(p, pages) \in S
  BY DEF Snapshot, Now
<1> HIDE DEF S
<1>4. Fine(r, Gone) /\ \A p : p \in DOMAIN pages /\ p \in those => FollowedBy(r, p, pages)
  BY <1>3, EachFine
<1> HIDE DEF r
<1>5. WellFormed(calls[t], Gone)
  BY DEF LinkInv
<1>6. /\ WellFormed(s, Gone) /\ Left(s) = Left(r) \cup Left(Tail(calls[t]))
      /\ Left(calls[t]) = {Head1(t)} \cup Left(Tail(calls[t]))
  BY <1>2, <1>4, <1>5, Prefixed DEF Head1
<1> HIDE DEF s
<1>7. Live' = Live /\ Gone' = Gone
  BY <1>2 DEF Live, Gone
<1>8. ASSUME NEW p \in Page
      PROVE  \/ p \in missed' \/ FollowedBy(s, p, pages')
             \/ (p \in missed => p \in missed') /\ (FollowedBy(calls[t], p, pages) => FollowedBy(s, p, pages))
  <2>1. CASE p \in found \ those
    BY <1>1, <2>1
  <2>2. CASE p \in those
    <3>1. FollowedBy(r, p, pages)
      BY <1>4, <2>2 DEF Live
    <3> QED BY <1>2, <1>6, <3>1 DEF FollowedBy
  <2>3. CASE p \notin found
    <3>1. ~Follows(Head1(t), p, pages)
      BY <1>2, <2>3 DEF Does, Follows, Live
    <3>2. FollowedBy(calls[t], p, pages) => FollowedBy(s, p, pages)
      BY <1>6, <3>1 DEF FollowedBy
    <3> QED BY <1>1, <3>2
  <2> QED BY <2>1, <2>2, <2>3
<1>9. /\ used' \subseteq Page /\ Live' \subseteq used' /\ missed' \subseteq Live'
      /\ pages' = [q \in Live' |-> pages'[q]] /\ \A q \in Live' : IsPage(pages'[q])
  BY <1>1, <1>2, <1>7 DEF LinkInv, LinkTypeOK
<1> QED BY <1>2, <1>6, <1>7, <1>8, <1>9, Changed

LEMMA SaveRewrittenStep ==
  ASSUME LinkInv, NEW t \in Thread, SaveRewritten(t)
  PROVE  LinkInv'
<1> DEFINE u == Head1(t).arg
           p == u.of.id
           none == <<>>
           s == none \o Tail(calls[t])
           g == pages[p]
           h == [g EXCEPT !.links = u.links, !.stamp = g.stamp + 1]
<1>1. /\ Does(t, "save") /\ calls[t] # <<>> /\ calls' = [calls EXCEPT ![t] = s] /\ rows' = rows /\ used' = used
      /\ \/ Writable(p) /\ pages' = [pages EXCEPT ![p].links = u.links, ![p].stamp = @ + 1] /\ missed' = missed \cup {p}
         \/ pages' = pages /\ missed' = missed
  BY DEF SaveRewritten, Does, Goes
<1>2. WellFormed(calls[t], Gone) /\ Fine(none, Gone)
  BY EmptyFine DEF LinkInv
<1> HIDE DEF none
<1>3. /\ WellFormed(s, Gone) /\ Left(s) = Left(none) \cup Left(Tail(calls[t]))
      /\ Left(calls[t]) = {Head1(t)} \cup Left(Tail(calls[t]))
  BY <1>1, <1>2, Prefixed DEF Head1
<1>4. \A q : FollowedBy(calls[t], q, pages) => FollowedBy(s, q, pages)
  <2>1. \A q : ~Follows(Head1(t), q, pages)
    BY <1>1 DEF Does, Follows
  <2> QED BY <1>3, <2>1 DEF FollowedBy
<1> HIDE DEF s
<1>5. /\ used \subseteq Page /\ Live \subseteq used /\ missed \subseteq Live
      /\ pages = [q \in Live |-> pages[q]] /\ \A q \in Live : IsPage(pages[q])
  BY DEF LinkInv, LinkTypeOK
<1>6. CASE pages' = pages /\ missed' = missed
  <2>1. Live' = Live /\ Gone' = Gone
    BY <1>1, <1>6 DEF Live, Gone
  <2> QED BY <1>1, <1>3, <1>4, <1>5, <1>6, <2>1, Changed
<1>7. CASE Writable(p) /\ pages' = [pages EXCEPT ![p].links = u.links, ![p].stamp = @ + 1] /\ missed' = missed \cup {p}
  <2>1. p \in Live /\ IsPage(g)
    BY <1>5, <1>7 DEF Writable
  <2>2. /\ DOMAIN pages' = Live /\ pages'[p] = h /\ \A q \in Live : q # p => pages'[q] = pages[q]
        /\ pages' = [q \in Live |-> pages'[q]]
    BY <1>5, <1>7, <2>1
  <2> HIDE DEF g
  <2>3. IsPage(h)
    <3>1. g.stamp + 1 \in Nat \ {0} /\ "stamp" \in DOMAIN g
      BY <2>1 DEF IsPage
    <3>2. DOMAIN h = DOMAIN g /\ h.stamp = g.stamp + 1
      BY <3>1
    <3> QED BY <3>1, <3>2 DEF IsPage
  <2> HIDE DEF h
  <2>4. Live' = Live /\ Gone' = Gone
    BY <1>1, <2>2 DEF Live, Gone
  <2>5. \A q \in Live' : IsPage(pages'[q])
    BY <1>5, <2>2, <2>3, <2>4
  <2>6. missed' \subseteq Live' /\ pages' = [q \in Live' |-> pages'[q]]
    BY <1>5, <1>7, <2>1, <2>2, <2>4
  <2>7. \A q \in Page :
           \/ q \in missed'
           \/ /\ (q \in DOMAIN pages)' <=> q \in DOMAIN pages
              /\ q \in DOMAIN pages => pages'[q] = pages[q]
              /\ q \in missed => q \in missed'
              /\ FollowedBy(calls[t], q, pages) => FollowedBy(s, q, pages)
    BY <1>4, <1>7, <2>2 DEF Live
  <2> QED BY <1>1, <1>3, <1>5, <2>4, <2>5, <2>6, <2>7, Changed
<1> QED BY <1>1, <1>6, <1>7

-----------------------------------------------------------------------------
(* A new path for a page and those below it *)

LEMMA Relocation ==
  ASSUME LinkInv, NEW p, NEW place, NEW name, NEW gone
  PROVE  /\ DOMAIN Relocated(p, place, name) = Live
         /\ Relocated(p, place, name) = [q \in Live |-> Relocated(p, place, name)[q]]
         /\ \A q \in Live : IsPage(Relocated(p, place, name)[q])
         /\ Fine(RelocationCalls(p, place, name), gone)
         /\ \A q \in Subtree(p) :
              q \in Live /\ FollowedBy(RelocationCalls(p, place, name), q, Relocated(p, place, name))
<1> DEFINE fresh == Relocated(p, place, name)
           S == {[id |-> q, page |-> fresh[q]] : q \in Subtree(p)}
           settle == Settle(S)
           pre == <<Call("prefix", pages[p].place)>>
           mid == IF name = pages[p].title THEN <<>>
                  ELSE <<Call("incoming", p), Call("oldTitle", pages[p].title)>>
           moved(g, q) == [g EXCEPT !.place = Rebased(g.place, pages[p].place, place),
                                    !.title = IF q = p THEN name ELSE g.title,
                                    !.stamp = IF q = p THEN g.stamp + 1 ELSE g.stamp]
<1>1. fresh = [q \in Live |-> IF q \notin Subtree(p) THEN pages[q] ELSE moved(pages[q], q)]
  BY DEF Relocated
<1>2. ASSUME NEW g, NEW q, IsPage(g)
      PROVE  IsPage(moved(g, q))
  <2>1. (IF q = p THEN g.stamp + 1 ELSE g.stamp) \in Nat \ {0} /\ "stamp" \in DOMAIN g
    BY <1>2 DEF IsPage
  <2>2. DOMAIN moved(g, q) = DOMAIN g /\ moved(g, q).stamp = IF q = p THEN g.stamp + 1 ELSE g.stamp
    BY <2>1
  <2> HIDE DEF moved
  <2> QED BY <2>1, <2>2 DEF IsPage
<1> HIDE DEF moved
<1>3. /\ DOMAIN fresh = Live /\ fresh = [q \in Live |-> fresh[q]]
      /\ \A q \in Live : fresh[q] = IF q \notin Subtree(p) THEN pages[q] ELSE moved(pages[q], q)
  BY <1>1
<1>4. \A q \in Live : IsPage(fresh[q])
  BY <1>2, <1>3 DEF LinkInv, LinkTypeOK
<1>5. \A q \in Subtree(p) : q \in Live
  BY DEF Subtree
<1>6. RelocationCalls(p, place, name) = (pre \o mid) \o settle
  BY DEF RelocationCalls
<1> HIDE DEF fresh
<1>7. \A q \in Subtree(p) : Now(q, fresh) \in S /\ q \in DOMAIN fresh
  BY <1>3, <1>5 DEF Now
<1> HIDE DEF S
<1>8. Fine(settle, gone) /\ \A q \in Subtree(p) : FollowedBy(settle, q, fresh)
  BY <1>7, SettleFine
<1>9. Fine(pre, gone)
  BY Harmless, OneFine DEF Humble
<1>10. Fine(mid, gone)
  <2> DEFINE i == Call("incoming", p)
             o == Call("oldTitle", pages[p].title)
  <2>1. Still(i) /\ Sensible(i, gone) /\ Still(o) /\ Sensible(o, gone)
    BY Harmless DEF Humble
  <2> HIDE DEF i, o
  <2>2. Fine(<<i, o>>, gone)
    BY <2>1, Ones DEF Fine
  <2> QED BY <2>2, EmptyFine DEF i, o
<1> HIDE DEF pre, mid, settle
<1>11. Fine(pre \o mid, gone)
  BY <1>9, <1>10, FineJoined
<1> DEFINE a == pre \o mid
<1> HIDE DEF a
<1>12. Fine(a \o settle, gone) /\ Left(a \o settle) = Left(a) \cup Left(settle)
  BY <1>8, <1>11, FineJoined, Joined DEF Fine, a
<1>13. \A q \in Subtree(p) : FollowedBy(a \o settle, q, fresh)
  BY <1>8, <1>12 DEF FollowedBy
<1> QED BY <1>3, <1>4, <1>5, <1>6, <1>12, <1>13 DEF fresh, a

\* The pages are relocated, by a thread that has the calls for it left.
LEMMA RelocatedPages ==
  ASSUME LinkInv, NEW t \in Thread, NEW p, NEW place, NEW name, NEW s, calls' = [calls EXCEPT ![t] = s],
         pages' = Relocated(p, place, name), missed' = missed \ Subtree(p), used' = used, rows' = rows,
         WellFormed(s, Gone), \A c \in Left(RelocationCalls(p, place, name)) : c \in Left(s),
         \A q : ~FollowedBy(calls[t], q, pages)
  PROVE  LinkInv'
<1> DEFINE fresh == Relocated(p, place, name)
           r == RelocationCalls(p, place, name)
<1>1. /\ DOMAIN fresh = Live /\ fresh = [q \in Live |-> fresh[q]] /\ \A q \in Live : IsPage(fresh[q])
      /\ \A q \in Live : q \notin Subtree(p) => fresh[q] = pages[q]
      /\ \A q \in Subtree(p) : q \in Live /\ FollowedBy(r, q, fresh)
  <2>1. \A gone : Fine(r, gone)
    BY Relocation
  <2>2. DOMAIN fresh = Live
    BY Relocation
  <2>3. fresh = [q \in Live |-> fresh[q]]
    BY Relocation
  <2>4. \A q \in Live : IsPage(fresh[q])
    BY Relocation
  <2>5. \A q \in Live : q \notin Subtree(p) => fresh[q] = pages[q]
    BY DEF Relocated
  <2>6. \A q \in Subtree(p) : q \in Live /\ FollowedBy(r, q, fresh)
    BY Relocation
  <2> HIDE DEF fresh, r
  <2> QED BY <2>2, <2>3, <2>4, <2>5, <2>6
<1> HIDE DEF fresh, r
<1>2. pages' = fresh /\ \A q \in Subtree(p) : FollowedBy(s, q, fresh)
  BY <1>1 DEF FollowedBy, fresh, r
<1>3. Live' = Live /\ Gone' = Gone
  BY <1>1, <1>2 DEF Live, Gone
<1>4. used \subseteq Page /\ Live \subseteq used /\ missed \subseteq Live
  BY DEF LinkInv, LinkTypeOK
<1>5. /\ used' \subseteq Page /\ Live' \subseteq used' /\ missed' \subseteq Live'
      /\ pages' = [q \in Live' |-> pages'[q]] /\ \A q \in Live' : IsPage(pages'[q])
  BY <1>1, <1>2, <1>3, <1>4
<1>6. \A q \in Page :
        \/ FollowedBy(s, q, pages')
        \/ /\ (q \in DOMAIN pages)' <=> q \in DOMAIN pages
           /\ q \in DOMAIN pages => pages'[q] = pages[q]
           /\ q \in missed => q \in missed'
           /\ FollowedBy(calls[t], q, pages) => FollowedBy(s, q, pages)
  BY <1>1, <1>2 DEF Live
<1>7. Gone \subseteq Gone' /\ WellFormed(s, Gone')
  BY <1>3
<1> QED BY <1>5, <1>6, <1>7, Changed

LEMMA RelocateTargetStep ==
  ASSUME LinkInv, NEW t \in Thread, RelocateTarget(t)
  PROVE  LinkInv'
<1> DEFINE rule == Head1(t).arg.rule
           p == Head1(t).arg.of.id
           r == RelocationCalls(p, rule.new, rule.newTitle)
           s == r \o Tail(calls[t])
<1>1. /\ Does(t, "target") /\ calls[t] # <<>> /\ rows' = rows /\ used' = used
      /\ \/ pages' = Relocated(p, rule.new, rule.newTitle) /\ calls' = [calls EXCEPT ![t] = s] /\ missed' = missed \ Subtree(p)
         \/ calls' = [calls EXCEPT ![t] = <<>>] /\ pages' = pages /\ missed' = missed
  BY DEF RelocateTarget, Does, Goes
<1>2. WellFormed(calls[t], Gone)
  BY DEF LinkInv
<1>3. Fine(r, Gone)
  BY Relocation
<1> HIDE DEF r
<1>4. /\ WellFormed(s, Gone) /\ Left(s) = Left(r) \cup Left(Tail(calls[t]))
      /\ Left(calls[t]) = {Head1(t)} \cup Left(Tail(calls[t]))
      /\ \A c \in Left(Tail(calls[t])) : c.do \in {"subtree", "refresh"}
  BY <1>1, <1>2, <1>3, Prefixed DEF Head1, Does
<1>5. \A q : ~FollowedBy(calls[t], q, pages)
  BY <1>1, <1>4 DEF Does, FollowedBy, Follows
<1> HIDE DEF s
<1>6. CASE pages' = Relocated(p, rule.new, rule.newTitle) /\ calls' = [calls EXCEPT ![t] = s] /\ missed' = missed \ Subtree(p)
  <2>1. \A c \in Left(RelocationCalls(p, rule.new, rule.newTitle)) : c \in Left(s)
    BY <1>4 DEF r
  <2> DEFINE place == rule.new
             name == rule.newTitle
  <2> HIDE DEF place, name, p
  <2>2. /\ pages' = Relocated(p, place, name) /\ calls' = [calls EXCEPT ![t] = s] /\ missed' = missed \ Subtree(p)
        /\ \A c \in Left(RelocationCalls(p, place, name)) : c \in Left(s)
    BY <1>6, <2>1 DEF place, name
  <2> QED BY <1>1, <1>4, <1>5, <2>2, RelocatedPages
<1>7. CASE calls' = [calls EXCEPT ![t] = <<>>] /\ pages' = pages /\ missed' = missed
  <2> DEFINE none == <<>>
  <2>1. WellFormed(none, Gone)
    BY EmptyFine, FineForm
  <2>2. Live' = Live /\ Gone' = Gone
    BY <1>1, <1>7 DEF Live, Gone
  <2> HIDE DEF none
  <2>3. calls' = [calls EXCEPT ![t] = none]
    BY <1>7 DEF none
  <2>4. /\ used' \subseteq Page /\ Live' \subseteq used' /\ missed' \subseteq Live'
        /\ pages' = [q \in Live' |-> pages'[q]] /\ \A q \in Live' : IsPage(pages'[q])
    BY <1>1, <1>7, <2>2 DEF LinkInv, LinkTypeOK
  <2> QED BY <1>1, <1>5, <1>7, <2>1, <2>2, <2>3, <2>4, Changed
<1> QED BY <1>1, <1>6, <1>7

-----------------------------------------------------------------------------
(* Page mutations *)

\* A thread that had no call left begins an operation.
LEMMA Begun ==
  ASSUME LinkInv, NEW t \in Thread, calls[t] = <<>>, NEW s, calls' = [calls EXCEPT ![t] = s], rows' = rows,
         used' \subseteq Page, Live' \subseteq used', missed' \subseteq Live',
         pages' = [p \in Live' |-> pages'[p]], \A p \in Live' : IsPage(pages'[p]),
         Gone \subseteq Gone', WellFormed(s, Gone'),
         \A p \in Page :
           \/ p \in missed' \/ FollowedBy(s, p, pages')
           \/ /\ (p \in DOMAIN pages)' <=> p \in DOMAIN pages
              /\ p \in DOMAIN pages => pages'[p] = pages[p]
              /\ p \in missed => p \in missed'
  PROVE  LinkInv'
<1>1. \A p : ~FollowedBy(calls[t], p, pages)
  BY Ones DEF FollowedBy
<1> QED BY <1>1, Changed

LEMMA CreateStep ==
  ASSUME LinkInv, NEW t \in Thread, NEW p \in Page, NEW place, NEW name, NEW links, Create(t, p, place, name, links)
  PROVE  LinkInv'
<1> DEFINE page == [place |-> place, title |-> name, links |-> links, stamp |-> 1]
           S == {[id |-> p, page |-> page]}
           s == Settle(S)
<1>1. /\ calls[t] = <<>> /\ p \notin used /\ pages' = [q \in Live \cup {p} |-> IF q = p THEN page ELSE pages[q]]
      /\ calls' = [calls EXCEPT ![t] = s] /\ used' = used \cup {p} /\ rows' = rows /\ missed' = missed
  BY DEF Create, Asked
<1>2. IsPage(page)
  BY DEF IsPage
<1>3. /\ used \subseteq Page /\ Live \subseteq used /\ missed \subseteq Live /\ \A q \in Live : IsPage(pages[q])
  BY DEF LinkInv, LinkTypeOK
<1> HIDE DEF page
<1>4. Live' = Live \cup {p} /\ pages'[p] = page /\ \A q \in Live : pages'[q] = pages[q]
  BY <1>1, <1>3 DEF Live
<1>5. pages' = [q \in Live' |-> pages'[q]] /\ \A q \in Live' : IsPage(pages'[q])
  BY <1>1, <1>2, <1>3, <1>4
<1>6. used' \subseteq Page /\ Live' \subseteq used' /\ missed' \subseteq Live' /\ Gone \subseteq Gone'
  BY <1>1, <1>3, <1>4 DEF Gone
<1>7. Now(p, pages') \in S /\ p \in DOMAIN pages'
  BY <1>4 DEF Now, Live
<1> HIDE DEF S
<1>8. Fine(s, Gone') /\ FollowedBy(s, p, pages')
  BY <1>7, SettleFine
<1> HIDE DEF s
<1>9. WellFormed(s, Gone')
  BY <1>8, FineForm
<1>10. \A q \in Page : q # p => ((q \in DOMAIN pages)' <=> q \in DOMAIN pages) /\ (q \in DOMAIN pages => pages'[q] = pages[q])
  BY <1>4 DEF Live
<1> QED BY <1>1, <1>5, <1>6, <1>8, <1>9, <1>10, Begun

\* The text of one page is written, and its calls follow or it is missed.
LEMMA OnePage ==
  ASSUME LinkInv, NEW t \in Thread, calls[t] = <<>>, NEW s, calls' = [calls EXCEPT ![t] = s], rows' = rows, used' = used,
         NEW p \in Live, Writable(p), NEW g, IsPage(g), pages' = [pages EXCEPT ![p] = g],
         WellFormed(s, Gone), missed \ {p} \subseteq missed', missed' \subseteq missed \cup {p},
         p \in missed' \/ FollowedBy(s, p, pages')
  PROVE  LinkInv'
<1>1. /\ used \subseteq Page /\ Live \subseteq used /\ missed \subseteq Live /\ \A q \in Live : IsPage(pages[q])
      /\ pages = [q \in Live |-> pages[q]]
  BY DEF LinkInv, LinkTypeOK
<1>2. /\ DOMAIN pages' = Live /\ pages'[p] = g /\ \A q \in Live : q # p => pages'[q] = pages[q]
      /\ pages' = [q \in Live |-> pages'[q]]
  BY <1>1
<1>3. Live' = Live /\ Gone' = Gone
  BY <1>2 DEF Live, Gone
<1>4. \A q \in Live' : IsPage(pages'[q])
  BY <1>1, <1>2, <1>3
<1>5. /\ used' \subseteq Page /\ Live' \subseteq used' /\ missed' \subseteq Live'
      /\ pages' = [q \in Live' |-> pages'[q]]
  BY <1>1, <1>2, <1>3
<1>6. \A q \in Page :
        \/ q \in missed' \/ FollowedBy(s, q, pages')
        \/ /\ (q \in DOMAIN pages)' <=> q \in DOMAIN pages
           /\ q \in DOMAIN pages => pages'[q] = pages[q]
           /\ q \in missed => q \in missed'
  <2>1. TAKE q \in Page
  <2>2. CASE q = p
    BY <2>2
  <2>3. CASE q # p
    <3>1. (q \in missed => q \in missed') /\ (q \in Live => pages'[q] = pages[q])
      BY <1>2, <2>3
    <3> QED BY <1>2, <3>1 DEF Live
  <2> QED BY <2>2, <2>3
<1>7. Gone \subseteq Gone' /\ WellFormed(s, Gone')
  BY <1>3
<1> QED BY <1>4, <1>5, <1>6, <1>7, Begun

LEMMA Stamped ==
  ASSUME NEW h, IsPage(h)
  PROVE  /\ \A name, links : IsPage([h EXCEPT !.title = name, !.links = links, !.stamp = h.stamp + 1])
         /\ IsPage([h EXCEPT !.stamp = h.stamp + 1])
<1>1. h.stamp + 1 \in Nat \ {0} /\ "stamp" \in DOMAIN h
  BY DEF IsPage
<1> QED BY <1>1 DEF IsPage

LEMMA WrittenPage ==
  ASSUME LinkInv, NEW p \in Live
  PROVE  /\ \A name, links : IsPage([pages[p] EXCEPT !.title = name, !.links = links, !.stamp = pages[p].stamp + 1])
         /\ IsPage([pages[p] EXCEPT !.stamp = pages[p].stamp + 1])
<1>1. IsPage(pages[p])
  BY DEF LinkInv, LinkTypeOK
<1> QED BY <1>1, Stamped

LEMMA SaveStep ==
  ASSUME LinkInv, NEW t \in Thread, NEW p \in Live, NEW name, NEW links,
         Save(t, p, name, links) \/ RestoreRevision(t, p, name, links) \/ Pin(t, p)
  PROVE  LinkInv'
<1>1. pages = [q \in Live |-> pages[q]] /\ Live \subseteq Page
  BY DEF LinkInv, LinkTypeOK
<1>2. CASE Save(t, p, name, links)
  <2> DEFINE g == [pages[p] EXCEPT !.title = name, !.links = links, !.stamp = pages[p].stamp + 1]
             S == {[id |-> p, page |-> pages'[p]]}
             s == Settle(S)
  <2>1. /\ calls[t] = <<>> /\ rows' = rows /\ used' = used /\ Writable(p) /\ missed' = missed \ {p}
        /\ calls' = [calls EXCEPT ![t] = s]
    BY <1>2 DEF Save, Asked
  <2>2. pages' = [pages EXCEPT ![p] = g]
    BY <1>1, <1>2 DEF Save
  <2>3. IsPage(g)
    BY WrittenPage
  <2> HIDE DEF g
  <2>4. p \in DOMAIN pages' /\ Now(p, pages') \in S
    BY <1>1, <2>2 DEF Now
  <2> HIDE DEF S
  <2>5. Fine(s, Gone) /\ FollowedBy(s, p, pages')
    BY <2>4, SettleFine
  <2> HIDE DEF s
  <2>6. WellFormed(s, Gone)
    BY <2>5, FineForm
  <2>7. missed \ {p} \subseteq missed' /\ missed' \subseteq missed \cup {p}
    BY <2>1
  <2> QED BY <2>1, <2>2, <2>3, <2>5, <2>6, <2>7, OnePage
<1>3. CASE RestoreRevision(t, p, name, links)
  <2> DEFINE g == [pages[p] EXCEPT !.title = name, !.links = links, !.stamp = pages[p].stamp + 1]
             c == Call("readBack", p)
             s == <<c>>
  <2>1. /\ calls[t] = <<>> /\ rows' = rows /\ used' = used /\ Writable(p) /\ missed' = missed \ {p}
        /\ calls' = [calls EXCEPT ![t] = s]
    BY <1>3 DEF RestoreRevision, Asked
  <2>2. pages' = [pages EXCEPT ![p] = g]
    BY <1>1, <1>3 DEF RestoreRevision
  <2>3. IsPage(g)
    BY WrittenPage
  <2> HIDE DEF g
  <2>4. p \in DOMAIN pages'
    BY <1>1, <2>2
  <2>5. c.do = "readBack" /\ c.arg = p
    BY Fields
  <2> HIDE DEF c
  <2>6. IsSeries(s) /\ Left(s) = {c} /\ DOMAIN s = {1}
    BY Ones
  <2>7. WellFormed(s, Gone)
    BY <2>5, <2>6 DEF WellFormed, Ordered, Cleared, Sensible
  <2>8. FollowedBy(s, p, pages')
    BY <2>4, <2>5, <2>6 DEF FollowedBy, Follows
  <2> HIDE DEF s
  <2>9. missed \ {p} \subseteq missed' /\ missed' \subseteq missed \cup {p}
    BY <2>1
  <2> QED BY <2>1, <2>2, <2>3, <2>7, <2>8, <2>9, OnePage
<1>4. CASE Pin(t, p)
  <2> DEFINE g == [pages[p] EXCEPT !.stamp = pages[p].stamp + 1]
             s == <<>>
  <2>1. /\ calls[t] = <<>> /\ rows' = rows /\ used' = used /\ Writable(p) /\ missed' = missed \cup {p} /\ calls' = calls
    BY <1>4 DEF Pin, Asked
  <2>2. pages' = [pages EXCEPT ![p] = g]
    BY <1>1, <1>4 DEF Pin
  <2>3. IsPage(g)
    BY WrittenPage
  <2> HIDE DEF g
  <2>4. calls' = [calls EXCEPT ![t] = s]
    BY <2>1 DEF LinkInv, LinkTypeOK
  <2>5. WellFormed(s, Gone)
    BY EmptyFine, FineForm
  <2> HIDE DEF s
  <2>6. missed \ {p} \subseteq missed' /\ missed' \subseteq missed \cup {p} /\ p \in missed'
    BY <2>1
  <2> QED BY <2>1, <2>2, <2>3, <2>4, <2>5, <2>6, OnePage
<1> QED BY <1>2, <1>3, <1>4

LEMMA RelocateStep ==
  ASSUME LinkInv, NEW t \in Thread, NEW p, NEW place, NEW name, Relocate(t, p, place, name)
  PROVE  LinkInv'
<1> DEFINE s == RelocationCalls(p, place, name)
<1>1. /\ calls[t] = <<>> /\ rows' = rows /\ used' = used /\ missed' = missed \ Subtree(p)
      /\ pages' = Relocated(p, place, name) /\ calls' = [calls EXCEPT ![t] = s]
  BY DEF Relocate, Asked
<1>2. Fine(s, Gone)
  BY Relocation
<1>3. WellFormed(s, Gone) /\ \A c \in Left(RelocationCalls(p, place, name)) : c \in Left(s)
  BY <1>2, FineForm
<1>4. \A q : ~FollowedBy(calls[t], q, pages)
  BY <1>1, Ones DEF FollowedBy
<1> HIDE DEF s
<1> QED BY <1>1, <1>3, <1>4, RelocatedPages

LEMMA DeleteStep ==
  ASSUME LinkInv, NEW t \in Thread, NEW p \in Live, Delete(t, p)
  PROVE  LinkInv'
<1> DEFINE gone == Subtree(p)
           out == Each("outgoing", gone)
           in == Each("incoming", gone)
           titles == Each("oldTitle", {pages[q].title : q \in gone})
           prefix == <<Call("prefix", pages[p].place)>>
           alone == <<Call("incoming", p), Call("path", pages[p].place)>>
           mid == IF gone # {p} THEN prefix \o in ELSE alone
           s == (out \o mid) \o titles
<1>1. /\ calls[t] = <<>> /\ pages' = [q \in Live \ gone |-> pages[q]] /\ missed' = missed \ gone
      /\ used' = used /\ rows' = rows /\ calls' = [calls EXCEPT ![t] = s]
  BY DEF Delete, Asked
<1>2. /\ used \subseteq Page /\ Live \subseteq used /\ missed \subseteq Live /\ \A q \in Live : IsPage(pages[q])
  BY DEF LinkInv, LinkTypeOK
<1>3. gone \subseteq Live
  BY DEF Subtree
<1> HIDE DEF gone
<1>4. Live' = Live \ gone /\ \A q \in Live \ gone : pages'[q] = pages[q]
  BY <1>1 DEF Live
<1>5. pages' = [q \in Live' |-> pages'[q]] /\ \A q \in Live' : IsPage(pages'[q])
  BY <1>1, <1>2, <1>4
<1>6. used' \subseteq Page /\ Live' \subseteq used' /\ missed' \subseteq Live' /\ Gone \subseteq Gone' /\ gone \subseteq Gone'
  BY <1>1, <1>2, <1>3, <1>4 DEF Gone
<1>7. /\ Fine(out, Gone') /\ Fine(in, Gone') /\ Fine(titles, Gone')
      /\ \A q, md : q \in gone /\ q \notin DOMAIN md => FollowedBy(out, q, md)
  BY <1>6, EachFine
<1>8. Fine(prefix, Gone')
  BY Harmless, OneFine DEF Humble
<1>9. Fine(alone, Gone')
  <2> DEFINE i == Call("incoming", p)
             o == Call("path", pages[p].place)
  <2>1. Still(i) /\ Sensible(i, Gone') /\ Still(o) /\ Sensible(o, Gone')
    BY Harmless DEF Humble
  <2> HIDE DEF i, o
  <2>2. Fine(<<i, o>>, Gone')
    BY <2>1, Ones DEF Fine
  <2> QED BY <2>2 DEF i, o
<1> HIDE DEF out, in, titles, prefix, alone
<1>10. Fine(mid, Gone')
  BY <1>7, <1>8, <1>9, FineJoined
<1> HIDE DEF mid
<1>11. Fine(out \o mid, Gone') /\ Left(out \o mid) = Left(out) \cup Left(mid)
  BY <1>7, <1>10, FineJoined, Joined DEF Fine
<1> DEFINE a == out \o mid
<1> HIDE DEF a
<1>12. Fine(a \o titles, Gone') /\ Left(a \o titles) = Left(a) \cup Left(titles)
  BY <1>7, <1>11, FineJoined, Joined DEF Fine, a
<1>13. Fine(s, Gone') /\ Left(out) \subseteq Left(s)
  BY <1>11, <1>12 DEF a
<1> HIDE DEF s
<1>14. \A q \in gone : FollowedBy(s, q, pages')
  BY <1>4, <1>7, <1>13 DEF FollowedBy, Live
<1>15. WellFormed(s, Gone')
  BY <1>13, FineForm
<1>16. \A q \in Page :
         \/ q \in missed' \/ FollowedBy(s, q, pages')
         \/ /\ (q \in DOMAIN pages)' <=> q \in DOMAIN pages
            /\ q \in DOMAIN pages => pages'[q] = pages[q]
            /\ q \in missed => q \in missed'
  <2>1. TAKE q \in Page
  <2>2. CASE q \in gone
    BY <1>14, <2>2
  <2>3. CASE q \notin gone
    BY <1>1, <1>4, <2>3 DEF Live
  <2> QED BY <2>2, <2>3
<1> QED BY <1>1, <1>5, <1>6, <1>15, <1>16, Begun

\* The pages stay as they are.
LEMMA Unwritten ==
  ASSUME LinkInv, NEW t \in Thread, calls[t] = <<>>, NEW s, calls' = [calls EXCEPT ![t] = s],
         UNCHANGED <<rows, used, missed, pages>>, WellFormed(s, Gone)
  PROVE  LinkInv'
<1>1. Live' = Live /\ Gone' = Gone
  BY DEF Live, Gone
<1>2. /\ used' \subseteq Page /\ Live' \subseteq used' /\ missed' \subseteq Live'
      /\ pages' = [q \in Live' |-> pages'[q]] /\ \A q \in Live' : IsPage(pages'[q])
  BY <1>1 DEF LinkInv, LinkTypeOK
<1> QED BY <1>1, <1>2, Begun

LEMMA RebuildStep ==
  ASSUME LinkInv, NEW t \in Thread, Rebuild(t)
  PROVE  LinkInv'
<1> DEFINE c == Call("clear", NoPage)
           d == Call("walk", NoPage)
           s == <<c, d>>
<1>1. calls[t] = <<>> /\ calls' = [calls EXCEPT ![t] = s] /\ UNCHANGED <<rows, used, missed, pages>>
  BY DEF Rebuild, Asked
<1>2. c.do = "clear" /\ d.do = "walk"
  BY Fields
<1> HIDE DEF c, d
<1>3. IsSeries(s) /\ Left(s) = {c, d} /\ DOMAIN s = {1, 2} /\ s[1] = c /\ s[2] = d
  BY Ones
<1>4. Ordered(s)
  BY <1>2, <1>3 DEF Ordered, After
<1>5. WellFormed(s, Gone)
  BY <1>2, <1>3, <1>4 DEF WellFormed, Cleared, Sensible
<1> HIDE DEF s
<1> QED BY <1>1, <1>5, Unwritten

LEMMA RefactorStep ==
  ASSUME LinkInv, NEW t \in Thread, NEW p, NEW place, NEW name, Refactor(t, p, place, name)
  PROVE  LinkInv'
<1>1. /\ calls[t] = <<>> /\ UNCHANGED <<rows, used, missed, pages>>
      /\ \E a, b, c, d : calls' = [calls EXCEPT ![t] =
                           <<Call("rewrite", a), Call("target", b), Call("subtree", c), Call("refresh", d)>>]
  BY DEF Refactor, Asked
<1>2. PICK a, b, c, d : calls' = [calls EXCEPT ![t] =
                          <<Call("rewrite", a), Call("target", b), Call("subtree", c), Call("refresh", d)>>]
  BY <1>1
<1> DEFINE w == Call("rewrite", a)
           x == Call("target", b)
           y == Call("subtree", c)
           z == Call("refresh", d)
           s == <<w, x, y, z>>
<1>3. w.do = "rewrite" /\ x.do = "target" /\ y.do = "subtree" /\ z.do = "refresh"
  BY Fields
<1>4. calls' = [calls EXCEPT ![t] = s]
  BY <1>2
<1> HIDE DEF w, x, y, z
<1>5. IsSeries(s) /\ Left(s) = {w, x, y, z} /\ DOMAIN s = {1, 2, 3, 4} /\ s[1] = w /\ s[2] = x /\ s[3] = y /\ s[4] = z
  BY Ones
<1>6. ASSUME NEW j \in DOMAIN s, NEW k \in DOMAIN s, j < k
      PROVE  After(s[j], s[k])
  <2>1. s[j].do \notin {"readBack", "walk", "load"}
    BY <1>3, <1>5
  <2>2. s[j].do = "target" => j = 2
    BY <1>3, <1>5
  <2>3. j = 2 => s[k].do \in {"subtree", "refresh"}
    BY <1>3, <1>5, <1>6
  <2> QED BY <2>1, <2>2, <2>3 DEF After
<1>7. WellFormed(s, Gone)
  BY <1>3, <1>5, <1>6 DEF WellFormed, Ordered, Cleared, Sensible
<1> HIDE DEF s
<1> QED BY <1>1, <1>4, <1>7, Unwritten

-----------------------------------------------------------------------------
(* The invariant *)

LEMMA LinkInvInit == LinkInit => LinkInv
<1> SUFFICES ASSUME LinkInit
             PROVE  LinkInv
  OBVIOUS
<1> DEFINE row(p, ref) == [from |-> p, to |-> ref, target |-> Resolve(ref)]
           of(p) == {row(p, ref) : ref \in Initial[p].links}
<1>1. /\ pages = Initial /\ used = DOMAIN Initial /\ missed = {} /\ calls = [t \in Thread |-> <<>>]
      /\ rows = UNION {of(p) : p \in DOMAIN Initial}
  BY DEF LinkInit
<1>2. /\ DOMAIN Initial \subseteq Page /\ Initial \in [DOMAIN Initial -> PageRow]
      /\ \A p \in DOMAIN Initial : Initial[p].stamp > 0
  BY LinkIndexAssumption
<1>3. \A p, ref : row(p, ref).from = p /\ row(p, ref).to = ref /\ (p \in Page => IsRow(row(p, ref)))
  BY DEF IsRow
<1> HIDE DEF row
<1>4. \A p \in DOMAIN Initial : \A ref \in Initial[p].links : row(p, ref) \in rows
  BY <1>1
<1>5. \A r \in rows : \E p \in DOMAIN Initial : \E ref \in Initial[p].links : r = row(p, ref)
  BY <1>1
<1>6. \A r \in rows : IsRow(r)
  BY <1>2, <1>3, <1>5
<1>7. ASSUME NEW p \in DOMAIN Initial
      PROVE  IsPage(Initial[p])
  <2>1. Initial[p] \in PageRow /\ Initial[p].stamp > 0
    BY <1>2
  <2> QED BY <2>1 DEF PageRow, IsPage
<1>8. Live = DOMAIN Initial /\ Initial = [p \in DOMAIN Initial |-> Initial[p]]
  BY <1>1, <1>2 DEF Live
<1>9. \A t \in Thread : calls[t] = <<>>
  BY <1>1
<1>10. LinkTypeOK
  BY <1>1, <1>2, <1>6, <1>7, <1>8, <1>9, Ones DEF LinkTypeOK
<1>11. \A t \in Thread : WellFormed(calls[t], Gone)
  BY <1>9, EmptyFine, FineForm
<1>12. ASSUME NEW p \in Page
       PROVE  UpToDate(rows, p, pages)
  <2>1. CASE p \in DOMAIN Initial
    <3>1. \A r \in rows : r.from = p => r.to \in Initial[p].links
      BY <1>3, <1>5
    <3>2. \A ref \in Initial[p].links : row(p, ref) \in rows /\ row(p, ref).from = p /\ row(p, ref).to = ref
      BY <1>3, <1>4, <2>1
    <3>3. LinksIn(rows, p) = Initial[p].links
      BY <3>1, <3>2 DEF LinksIn
    <3> QED BY <1>1, <2>1, <3>3 DEF UpToDate
  <2>2. CASE p \notin DOMAIN Initial
    <3>1. \A r \in rows : r.from # p
      BY <1>3, <1>5, <2>2
    <3>2. LinksIn(rows, p) = {}
      BY <3>1 DEF LinksIn
    <3> QED BY <1>1, <2>2, <3>2 DEF UpToDate
  <2> QED BY <2>1, <2>2
<1> QED BY <1>10, <1>11, <1>12 DEF LinkInv, Kept

LEMMA LinkInvStutter == LinkInv /\ UNCHANGED linkVars => LinkInv'
BY DEF LinkInv, LinkTypeOK, Kept, Gone, Live, linkVars

LEMMA LinkInvNext == LinkInv /\ LinkNext => LinkInv'
<1> SUFFICES ASSUME LinkInv, NEW t \in Thread, Mutate(t) \/ Proceed(t)
             PROVE  LinkInv'
  BY DEF LinkNext
<1>1. CASE Mutate(t)
  <2>1. CASE \E p \in Page, place \in Place, name \in Title, links \in Content : Create(t, p, place, name, links)
    BY <2>1, CreateStep
  <2>2. CASE \E p \in Live : Delete(t, p)
    BY <2>2, DeleteStep
  <2>3. CASE \E p \in Live : \/ Pin(t, p)
                             \/ \E name, links : Save(t, p, name, links) \/ RestoreRevision(t, p, name, links)
    <3>1. PICK p \in Live : \/ Pin(t, p)
                            \/ \E name, links : Save(t, p, name, links) \/ RestoreRevision(t, p, name, links)
      BY <2>3
    <3>2. CASE Pin(t, p)
      <4>1. \A name, links : Save(t, p, name, links) \/ RestoreRevision(t, p, name, links) \/ Pin(t, p)
        BY <3>2
      <4> QED BY <4>1, SaveStep
    <3>3. CASE \E name, links : Save(t, p, name, links) \/ RestoreRevision(t, p, name, links)
      BY <3>3, SaveStep
    <3> QED BY <3>1, <3>2, <3>3
  <2>4. CASE \E p, place, name : Relocate(t, p, place, name)
    BY <2>4, RelocateStep
  <2>5. CASE \E p, place, name : Refactor(t, p, place, name)
    BY <2>5, RefactorStep
  <2>6. CASE Rebuild(t)
    BY <2>6, RebuildStep
  <2> QED BY <1>1, <2>1, <2>2, <2>3, <2>4, <2>5, <2>6 DEF Mutate
<1>2. CASE Proceed(t)
  BY <1>2, ResolveTargetsStep, AddLinksStep, HealStep, TitleStep, MarkBrokenStep, DeleteOutgoingStep, EachOfStep,
     ReadBackStep, ClearStep, ListPagesStep, LoadAllStep, LoadStopsShortStep, IndexStep, LoadAffectedStep, SaveRewrittenStep, ResolveRowsStep,
     ResolveBatchStep, ReplaceBatchStep, RelocateTargetStep, LoadSubtreeStep, LoadRefreshStep DEF Proceed
<1> QED BY <1>1, <1>2

\* Of each page that is not missed, the rows are those of its links, or a call is left that
\* will write them; of a page that is gone, there are none or a call is left that deletes them.
THEOREM LinkInvariant == LinkSpec => []LinkInv
BY LinkInvInit, LinkInvNext, LinkInvStutter, PTL DEF LinkSpec

\* OutgoingSettles, for every set of pages, places, titles and threads: the series of calls
\* that saves, moves, deletions, restores, refactorings and rebuilds make in
\* internal/wiki/pagesave and internal/links leave the links of each page they answer for,
\* however they interleave.
THEOREM LinksSettle == LinkSpec => []OutgoingSettles
<1>1. LinkInv => OutgoingSettles
  <2> SUFFICES ASSUME LinkInv, AtRest
               PROVE  /\ \A p \in Live \ missed : RowsOf(p) = pages[p].links
                      /\ \A r \in rows : r.from \in Live
    BY DEF OutgoingSettles
  <2>1. \A t \in Thread : \A p : ~FollowedBy(calls[t], p, pages)
    BY Ones DEF AtRest, FollowedBy
  <2>2. \A p \in Page : p \in missed \/ UpToDate(rows, p, pages)
    BY <2>1 DEF LinkInv, Kept
  <2>3. Live \subseteq Page /\ missed \subseteq Live /\ \A r \in rows : r.from \in Page
    BY DEF LinkInv, LinkTypeOK, IsRow
  <2>4. ASSUME NEW p \in Live \ missed
        PROVE  RowsOf(p) = pages[p].links
    BY <2>2, <2>3, LinksOf DEF UpToDate, Live
  <2>5. ASSUME NEW r \in rows
        PROVE  r.from \in Live
    <3>1. SUFFICES ASSUME r.from \notin Live
                   PROVE  FALSE
      OBVIOUS
    <3>2. LinksIn(rows, r.from) = {}
      BY <2>2, <2>3, <3>1 DEF UpToDate, Live
    <3>3. r.to \in LinksIn(rows, r.from)
      BY DEF LinksIn
    <3> QED BY <3>2, <3>3
  <2> QED BY <2>4, <2>5
<1> QED BY <1>1, LinkInvariant, PTL

-----------------------------------------------------------------------------
Smaller == {pair \in Nat \X Nat : pair[1] < pair[2]}

\* A set of natural numbers has a least one: what the inductions below rest on.
LEMMA LeastNatural ==
  ASSUME NEW T, T \subseteq Nat, T # {}
  PROVE  \E m \in T : \A n \in T : m <= n
<1>1. IsWellFoundedOn(Smaller, Nat)
  BY NatLessThanWellFounded DEF OpToRel, Smaller
<1>2. PICK m \in T : \A n \in T : <<n, m>> \notin Smaller
  BY <1>1, WFMin
<1>3. ASSUME NEW n \in T, n < m
      PROVE  FALSE
  <2>1. n \in Nat /\ m \in Nat
    OBVIOUS
  <2>2. <<n, m>> \in Smaller
    BY <2>1, <1>3 DEF Smaller
  <2> QED BY <2>2, <1>2
<1>4. \A n \in T : n \in Nat /\ m \in Nat /\ ~(n < m)
  BY <1>3
<1> QED BY <1>4

IsWalk(w, start, segs, N) == w = [n \in 0..N |-> IF n = 0 THEN start ELSE Into(w[n - 1], segs[n])]

\* ResolveReference can be unfolded.
LEMMA WalkExists ==
  ASSUME NEW L \in Nat, NEW start, NEW segs
  PROVE  \E w : IsWalk(w, start, segs, L)
<1> DEFINE Bad == {N \in Nat : ~ \E w : IsWalk(w, start, segs, N)}
<1>1. Bad = {}
  <2> SUFFICES ASSUME Bad # {}
               PROVE  FALSE
    OBVIOUS
  <2>1. PICK m \in Bad : \A n \in Bad : m <= n
    <3> Bad \subseteq Nat
      OBVIOUS
    <3> HIDE DEF Bad
    <3> QED BY LeastNatural
  <2>2. m \in Nat /\ ~ \E w : IsWalk(w, start, segs, m)
    OBVIOUS
  <2>3. m # 0
    <3> DEFINE w0 == [n \in 0..0 |-> start]
    <3>1. IsWalk(w0, start, segs, 0)
      BY DEF IsWalk
    <3> QED BY <2>2, <3>1
  <2>4. m - 1 \in Nat /\ m - 1 \notin Bad
    BY <2>1, <2>2, <2>3
  <2>5. PICK w : IsWalk(w, start, segs, m - 1)
    BY <2>4
  <2> DEFINE v == [n \in 0..m |-> IF n = m THEN Into(w[m - 1], segs[m]) ELSE w[n]]
  <2>6. \A n \in 0..m : v[n] = IF n = 0 THEN start ELSE Into(v[n - 1], segs[n])
    <3> SUFFICES ASSUME NEW n \in 0..m
                 PROVE  v[n] = IF n = 0 THEN start ELSE Into(v[n - 1], segs[n])
      OBVIOUS
    <3>1. CASE n = m
      <4>1. v[n] = Into(w[m - 1], segs[m]) /\ v[m - 1] = w[m - 1]
        BY <3>1, <2>2, <2>3
      <4> QED BY <4>1, <3>1, <2>3
    <3>2. CASE n # m
      <4>1. n \in 0..(m - 1) /\ v[n] = w[n]
        BY <3>2, <2>2
      <4>2. w[n] = IF n = 0 THEN start ELSE Into(w[n - 1], segs[n])
        BY <4>1, <2>5 DEF IsWalk
      <4>3. n # 0 => v[n - 1] = w[n - 1]
        BY <4>1, <3>2, <2>2
      <4> QED BY <4>1, <4>2, <4>3
    <3> QED BY <3>1, <3>2
  <2>7. v = [n \in 0..m |-> IF n = 0 THEN start ELSE Into(v[n - 1], segs[n])]
    <3> HIDE DEF v
    <3>1. DOMAIN v = 0..m /\ v = [n \in DOMAIN v |-> v[n]]
      BY DEF v
    <3> QED BY <3>1, <2>6
  <2>8. IsWalk(v, start, segs, m)
    BY <2>7 DEF IsWalk
  <2> QED BY <2>2, <2>8
<1> QED BY <1>1

Start(p, d) == IF d.from = "page" THEN p ELSE <<>>

LEMMA ResolvedWalks ==
  ASSUME NEW p, NEW d, Len(d.segs) \in Nat
  PROVE  \E w : IsWalk(w, Start(p, d), d.segs, Len(d.segs)) /\ Resolved(p, d) = w[Len(d.segs)]
<1> DEFINE start == Start(p, d)
           w == CHOOSE w : w = [n \in 0..Len(d.segs) |-> IF n = 0 THEN start ELSE Into(w[n - 1], d.segs[n])]
<1>1. \E u : u = [n \in 0..Len(d.segs) |-> IF n = 0 THEN start ELSE Into(u[n - 1], d.segs[n])]
  <2>1. PICK u : IsWalk(u, start, d.segs, Len(d.segs))
    <3> HIDE DEF start
    <3> QED BY WalkExists
  <2>2. u = [n \in 0..Len(d.segs) |-> IF n = 0 THEN start ELSE Into(u[n - 1], d.segs[n])]
    BY <2>1 DEF IsWalk
  <2> HIDE DEF start
  <2> QED BY <2>2
<1>2. w = [n \in 0..Len(d.segs) |-> IF n = 0 THEN start ELSE Into(w[n - 1], d.segs[n])]
  <2> HIDE DEF start
  <2> QED BY <1>1
<1>3. Resolved(p, d) = w[Len(d.segs)]
  BY DEF Resolved, Start
<1> QED BY <1>2, <1>3 DEF IsWalk


Road == Seq(Segment)
Turns == Seq(Segment \cup {Up})

\* The first n segments of a path
LEMMA FirstOf ==
  ASSUME NEW S, NEW p \in Seq(S), NEW n \in 0..Len(p)
  PROVE  /\ SubSeq(p, 1, n) \in Seq(S) /\ Len(SubSeq(p, 1, n)) = n
         /\ \A i \in 1..n : SubSeq(p, 1, n)[i] = p[i]
<1>1. n \in Nat /\ Len(p) \in Nat /\ n \in Int /\ \A i \in 1..n : p[i] \in S
  OBVIOUS
<1>2. /\ SubSeq(p, 1, n) \in Seq(S)
      /\ Len(SubSeq(p, 1, n)) = IF 1 <= n THEN n - 1 + 1 ELSE 0
      /\ \A i \in 1..(n - 1 + 1) : SubSeq(p, 1, n)[i] = p[1 + i - 1]
  BY <1>1, SubSeqProperties
<1>3. \A i \in 1..n : i \in 1..(n - 1 + 1) /\ 1 + i - 1 = i
  BY <1>1
<1> QED BY <1>1, <1>2, <1>3

\* What is after the first n segments
LEMMA RestOf ==
  ASSUME NEW S, NEW p \in Seq(S), NEW n \in 0..Len(p)
  PROVE  /\ SubSeq(p, n + 1, Len(p)) \in Seq(S) /\ Len(SubSeq(p, n + 1, Len(p))) = Len(p) - n
         /\ \A i \in 1..(Len(p) - n) : SubSeq(p, n + 1, Len(p))[i] = p[n + i]
<1> DEFINE L == Len(p)
<1>1. n \in Nat /\ L \in Nat /\ n + 1 \in Int /\ L \in Int /\ n <= L /\ \A i \in (n + 1)..L : p[i] \in S
  OBVIOUS
<1> HIDE DEF L
<1>2. /\ SubSeq(p, n + 1, L) \in Seq(S)
      /\ Len(SubSeq(p, n + 1, L)) = IF n + 1 <= L THEN L - (n + 1) + 1 ELSE 0
      /\ \A i \in 1..(L - (n + 1) + 1) : SubSeq(p, n + 1, L)[i] = p[n + 1 + i - 1]
  BY <1>1, SubSeqProperties
<1>3. \A i \in 1..(L - n) : i \in 1..(L - (n + 1) + 1) /\ n + 1 + i - 1 = n + i
  BY <1>1
<1>4. Len(SubSeq(p, n + 1, L)) = L - n
  BY <1>1, <1>2
<1> QED BY <1>2, <1>3, <1>4 DEF L

LEMMA ParentOf ==
  ASSUME NEW p \in Road, p # <<>>
  PROVE  /\ Parent(p) \in Road /\ Len(Parent(p)) = Len(p) - 1 /\ Parent(p) = SubSeq(p, 1, Len(p) - 1)
         /\ \A i \in 1..(Len(p) - 1) : Parent(p)[i] = p[i]
<1>1. Len(p) \in Nat /\ Len(p) - 1 \in 0..Len(p)
  BY DEF Road
<1> DEFINE n == Len(p) - 1
<1>2. /\ SubSeq(p, 1, n) \in Seq(Segment) /\ Len(SubSeq(p, 1, n)) = n
      /\ \A i \in 1..n : SubSeq(p, 1, n)[i] = p[i]
  <2> HIDE DEF n
  <2> QED BY <1>1, FirstOf DEF Road, n
<1> QED BY <1>2 DEF Road, Parent

LEMMA IntoType ==
  ASSUME NEW q \in Road, NEW s \in Segment \cup {Up}
  PROVE  Into(q, s) \in Road
<1>1. CASE s # Up
  BY <1>1, AppendProperties DEF Into, Road
<1>2. CASE s = Up
  BY <1>2, ParentOf DEF Into
<1> QED BY <1>1, <1>2

\* Where a link leads is a path.
LEMMA ResolvedType ==
  ASSUME NEW p \in Road, NEW d, d.segs \in Turns
  PROVE  Resolved(p, d) \in Road
<1> DEFINE L == Len(d.segs)
<1>1. L \in Nat /\ \A n \in 1..L : d.segs[n] \in Segment \cup {Up}
  BY DEF Turns
<1>2. PICK w : IsWalk(w, Start(p, d), d.segs, L) /\ Resolved(p, d) = w[L]
  BY <1>1, ResolvedWalks
<1> DEFINE Bad == {n \in 0..L : w[n] \notin Road}
<1>3. Bad = {}
  <2> SUFFICES ASSUME Bad # {}
               PROVE  FALSE
    OBVIOUS
  <2>1. PICK m \in Bad : \A n \in Bad : m <= n
    <3> Bad \subseteq Nat
      BY <1>1
    <3> HIDE DEF Bad
    <3> QED BY LeastNatural
  <2>2. m \in 0..L /\ w[m] \notin Road
    OBVIOUS
  <2>3. w[m] = IF m = 0 THEN Start(p, d) ELSE Into(w[m - 1], d.segs[m])
    BY <1>2, <2>2 DEF IsWalk
  <2>4. Start(p, d) \in Road
    BY DEF Start, Road
  <2>5. m # 0
    BY <2>2, <2>3, <2>4
  <2>6. m - 1 \in 0..L /\ m - 1 \notin Bad
    BY <2>1, <2>2, <2>5, <1>1
  <2>7. w[m - 1] \in Road /\ d.segs[m] \in Segment \cup {Up}
    BY <2>6, <2>2, <2>5, <1>1
  <2> QED BY <2>2, <2>3, <2>5, <2>7, IntoType
<1> QED BY <1>1, <1>2, <1>3

\* A path that only goes down from the top is where it leads.
LEMMA ResolvedDown ==
  ASSUME NEW p, NEW d, d.from # "page", d.segs \in Road
  PROVE  Resolved(p, d) = d.segs
<1> DEFINE L == Len(d.segs)
<1>1. L \in Nat /\ \A n \in 1..L : d.segs[n] \in Segment /\ d.segs[n] # Up
  BY RewritingAssumption DEF Road
<1>2. PICK w : IsWalk(w, Start(p, d), d.segs, L) /\ Resolved(p, d) = w[L]
  BY <1>1, ResolvedWalks
<1> DEFINE Bad == {n \in 0..L : w[n] # SubSeq(d.segs, 1, n)}
<1>3. Bad = {}
  <2> SUFFICES ASSUME Bad # {}
               PROVE  FALSE
    OBVIOUS
  <2>1. PICK m \in Bad : \A n \in Bad : m <= n
    <3> Bad \subseteq Nat
      BY <1>1
    <3> HIDE DEF Bad
    <3> QED BY LeastNatural
  <2>2. m \in 0..L /\ w[m] # SubSeq(d.segs, 1, m)
    OBVIOUS
  <2>3. w[m] = IF m = 0 THEN Start(p, d) ELSE Into(w[m - 1], d.segs[m])
    BY <1>2, <2>2 DEF IsWalk
  <2>4. Start(p, d) = <<>> /\ SubSeq(d.segs, 1, 0) = <<>>
    BY SubSeqEmpty DEF Start
  <2>5. m # 0
    BY <2>2, <2>3, <2>4
  <2>6. m - 1 \in 0..L /\ m - 1 \notin Bad
    BY <2>1, <2>2, <2>5, <1>1
  <2>7. w[m] = Append(SubSeq(d.segs, 1, m - 1), d.segs[m])
    BY <2>3, <2>5, <2>6, <2>2, <1>1 DEF Into
  <2>8. Append(SubSeq(d.segs, 1, m - 1), d.segs[m]) = SubSeq(d.segs, 1, m)
    <3> DEFINE k == m - 1
               a == SubSeq(d.segs, 1, k)
               b == SubSeq(d.segs, 1, m)
    <3>1. k \in 0..L /\ m = k + 1 /\ d.segs[m] \in Segment /\ k \in Nat
      BY <2>6, <2>2, <2>5, <1>1
    <3> HIDE DEF k
    <3>2. a \in Seq(Segment) /\ Len(a) = k /\ \A i \in 1..k : a[i] = d.segs[i]
      BY <3>1, FirstOf DEF Road
    <3>3. b \in Seq(Segment) /\ Len(b) = m /\ \A i \in 1..m : b[i] = d.segs[i]
      BY <2>2, FirstOf DEF Road
    <3> HIDE DEF a, b
    <3>4. /\ Append(a, d.segs[m]) \in Seq(Segment) /\ Len(Append(a, d.segs[m])) = k + 1
          /\ \A i \in 1..k : Append(a, d.segs[m])[i] = a[i]
          /\ Append(a, d.segs[m])[k + 1] = d.segs[m]
      BY <3>1, <3>2, AppendProperties
    <3>5. \A i \in 1..m : Append(a, d.segs[m])[i] = b[i]
      <4> SUFFICES ASSUME NEW i \in 1..m
                   PROVE  Append(a, d.segs[m])[i] = b[i]
        OBVIOUS
      <4>1. CASE i = m
        BY <4>1, <3>1, <3>3, <3>4
      <4>2. CASE i # m
        <5>1. i \in 1..k
          BY <4>2, <3>1
        <5> QED BY <5>1, <3>2, <3>3, <3>4
      <4> QED BY <4>1, <4>2
    <3>6. Append(a, d.segs[m]) = b
      BY <3>1, <3>3, <3>4, <3>5, SeqEqual
    <3> QED BY <3>6 DEF a, b, k
  <2> QED BY <2>2, <2>7, <2>8
<1>4. SubSeq(d.segs, 1, L) = d.segs
  BY SubSeqFull DEF Road
<1>5. w[L] = SubSeq(d.segs, 1, L)
  <2>1. L \in 0..L /\ L \notin Bad
    BY <1>1, <1>3
  <2> QED BY <2>1
<1> QED BY <1>2, <1>4, <1>5

\* How far two paths go together
LEMMA CommonOf ==
  ASSUME NEW p \in Road, NEW q \in Road
  PROVE  /\ Common(p, q) \in 0..Len(p) /\ Common(p, q) <= Len(q)
         /\ SubSeq(p, 1, Common(p, q)) = SubSeq(q, 1, Common(p, q))
<1>1. Len(p) \in Nat /\ Len(q) \in Nat
  BY DEF Road
<1> DEFINE End == {n \in Nat : n = Len(p) \/ n = Len(q) \/ p[n + 1] # q[n + 1]}
<1>2. PICK m \in End : \A n \in End : m <= n
  <2>1. End \subseteq Nat /\ Len(p) \in End
    BY <1>1
  <2> HIDE DEF End
  <2> QED BY <2>1, LeastNatural
<1>3. m \in 0..Len(p) /\ m <= Len(q) /\ m \in Nat
  <2>1. Len(p) \in End /\ Len(q) \in End
    BY <1>1
  <2>2. m <= Len(p) /\ m <= Len(q) /\ m \in Nat
    BY <2>1, <1>2
  <2> QED BY <2>2, <1>1
<1>4. \A i \in 1..m : p[i] = q[i]
  <2> SUFFICES ASSUME NEW i \in 1..m, p[i] # q[i]
               PROVE  FALSE
    OBVIOUS
  <2>1. i - 1 \in Nat /\ i - 1 < m /\ (i - 1) + 1 = i
    BY <1>3
  <2>2. i - 1 \in End
    BY <2>1
  <2>3. m <= i - 1
    <3> HIDE DEF End
    <3> QED BY <2>2, <1>2
  <2> QED BY <2>1, <2>3, <1>3
<1>5. SubSeq(p, 1, m) = SubSeq(q, 1, m)
  <2>1. /\ SubSeq(p, 1, m) \in Seq(Segment) /\ Len(SubSeq(p, 1, m)) = m
        /\ \A i \in 1..m : SubSeq(p, 1, m)[i] = p[i]
    BY <1>3, FirstOf DEF Road
  <2>2. /\ SubSeq(q, 1, m) \in Seq(Segment) /\ Len(SubSeq(q, 1, m)) = m
        /\ \A i \in 1..m : SubSeq(q, 1, m)[i] = q[i]
    <3>1. m \in 0..Len(q)
      BY <1>1, <1>3
    <3> QED BY <3>1, FirstOf DEF Road
  <2> QED BY <2>1, <2>2, <1>4, SeqEqual
<1>6. m = Len(p) \/ m = Len(q) \/ p[m + 1] # q[m + 1]
  BY <1>2
<1> DEFINE Q(n) == /\ n <= Len(q) /\ SubSeq(p, 1, n) = SubSeq(q, 1, n)
                   /\ n = Len(p) \/ n = Len(q) \/ p[n + 1] # q[n + 1]
<1>7. \E n \in 0..Len(p) : Q(n)
  BY <1>3, <1>5, <1>6
<1>8. Common(p, q) = CHOOSE n \in 0..Len(p) : Q(n)
  BY DEF Common
<1>9. Common(p, q) \in 0..Len(p) /\ Q(Common(p, q))
  <2> HIDE DEF Q
  <2> QED BY <1>7, <1>8
<1> QED BY <1>9

\* The segments of a relative link: as often up as the page is below what it shares with the
\* other, and then down
Turning(p, q, c, k, segs) ==
  /\ c \in Nat /\ k \in Nat /\ c <= Len(q) /\ c + k = Len(p) /\ Len(q) \in Nat /\ Len(p) \in Nat
  /\ segs \in Turns /\ Len(segs) = k + (Len(q) - c)
  /\ \A i \in 1..Len(segs) : segs[i] = IF i <= k THEN Up ELSE q[c + (i - k)]

LEMMA RelativeTurns ==
  ASSUME NEW p \in Road, NEW q \in Road,
         NEW c, c = Common(p, q), NEW k, k = Len(p) - c, NEW segs, segs = Relative(p, q).segs
  PROVE  Turning(p, q, c, k, segs)
<1>1. c \in Nat /\ k \in Nat /\ c <= Len(q) /\ c + k = Len(p) /\ Len(q) \in Nat /\ Len(p) \in Nat
  <2>1. c \in 0..Len(p) /\ c <= Len(q) /\ Len(p) \in Nat /\ Len(q) \in Nat
    BY CommonOf DEF Road
  <2> QED BY <2>1
<1> DEFINE ups == [i \in 1..k |-> Up]
           rest == SubSeq(q, c + 1, Len(q))
<1>2. ups \in Seq(Segment \cup {Up}) /\ Len(ups) = k /\ \A i \in 1..k : ups[i] = Up
  BY <1>1
<1>3. rest \in Seq(Segment) /\ Len(rest) = Len(q) - c /\ \A i \in 1..(Len(q) - c) : rest[i] = q[c + i]
  <2>1. c \in 0..Len(q)
    BY <1>1
  <2> QED BY <2>1, RestOf DEF Road
<1>4. segs = ups \o rest
  BY DEF Relative
<1> HIDE DEF ups, rest
<1>5. rest \in Seq(Segment \cup {Up})
  BY <1>3
<1>6. /\ ups \o rest \in Seq(Segment \cup {Up}) /\ Len(ups \o rest) = Len(ups) + Len(rest)
      /\ \A i \in 1..Len(ups) + Len(rest) : (ups \o rest)[i] = IF i <= Len(ups) THEN ups[i] ELSE rest[i - Len(ups)]
  BY <1>2, <1>5, ConcatProperties
<1>7. Len(segs) = k + (Len(q) - c)
  BY <1>2, <1>3, <1>4, <1>6
<1>8. ASSUME NEW i \in 1..Len(segs)
      PROVE  segs[i] = IF i <= k THEN Up ELSE q[c + (i - k)]
  <2>1. i \in 1..Len(ups) + Len(rest)
    BY <1>4, <1>6
  <2>2. segs[i] = IF i <= k THEN ups[i] ELSE rest[i - k]
    BY <2>1, <1>2, <1>4, <1>6
  <2>3. CASE i <= k
    <3>1. i \in 1..k
      BY <2>3, <1>1
    <3> QED BY <3>1, <2>2, <2>3, <1>2
  <2>4. CASE ~(i <= k)
    <3>1. PICK N \in Nat : N = Len(q) - c
      BY <1>1
    <3>2. Len(segs) = k + N
      BY <3>1, <1>7
    <3>3. i \in 1..k + N /\ k \in Nat
      BY <3>2, <1>1
    <3>4. i - k \in 1..N
      BY <3>3, <2>4
    <3> QED BY <3>1, <3>4, <2>2, <2>4, <1>3
  <2> QED BY <2>3, <2>4
<1> QED BY <1>1, <1>4, <1>6, <1>7, <1>8 DEF Turns, Turning

LEMMA UpOf ==
  ASSUME NEW p \in Road, NEW n \in 0..Len(p), n # 0
  PROVE  Into(SubSeq(p, 1, n), Up) = SubSeq(p, 1, n - 1)
<1>1. n \in Nat /\ Len(p) \in Nat /\ n - 1 \in 0..Len(p) /\ n - 1 \in Nat
  BY DEF Road
<1> DEFINE a == SubSeq(p, 1, n)
           m == n - 1
           b == SubSeq(p, 1, m)
<1>2. a \in Road /\ Len(a) = n /\ \A i \in 1..n : a[i] = p[i]
  BY FirstOf DEF Road
<1>3. a # <<>>
  BY <1>2
<1>4. b \in Road /\ Len(b) = m /\ \A i \in 1..m : b[i] = p[i]
  <2> HIDE DEF m
  <2> QED BY <1>1, FirstOf DEF Road, m
<1> HIDE DEF a
<1>5. Parent(a) \in Road /\ Len(Parent(a)) = n - 1 /\ \A i \in 1..(n - 1) : Parent(a)[i] = a[i]
  BY <1>2, <1>3, ParentOf
<1> HIDE DEF b
<1>6. \A i \in 1..m : Parent(a)[i] = b[i]
  <2> SUFFICES ASSUME NEW i \in 1..m
               PROVE  Parent(a)[i] = b[i]
    OBVIOUS
  <2>1. i \in 1..n /\ i \in 1..(n - 1)
    BY <1>1
  <2> QED BY <2>1, <1>2, <1>4, <1>5
<1>7. Parent(a) = b
  BY <1>4, <1>5, <1>6, SeqEqual DEF Road
<1>8. Into(a, Up) = Parent(a)
  BY <1>3 DEF Into
<1> QED BY <1>7, <1>8 DEF a, b

LEMMA DownOf ==
  ASSUME NEW q \in Road, NEW n \in 0..Len(q), n # 0
  PROVE  q[n] \in Segment /\ Into(SubSeq(q, 1, n - 1), q[n]) = SubSeq(q, 1, n)
<1>1. n \in Nat /\ Len(q) \in Nat /\ n - 1 \in 0..Len(q) /\ n - 1 \in Nat /\ n \in 1..Len(q)
  BY DEF Road
<1>2. q[n] \in Segment /\ q[n] # Up
  BY <1>1, RewritingAssumption DEF Road
<1> DEFINE m == n - 1
           a == SubSeq(q, 1, m)
           b == SubSeq(q, 1, n)
<1>3. a \in Seq(Segment) /\ Len(a) = m /\ \A i \in 1..m : a[i] = q[i]
  <2> HIDE DEF m
  <2> QED BY <1>1, FirstOf DEF Road, m
<1>4. b \in Seq(Segment) /\ Len(b) = n /\ \A i \in 1..n : b[i] = q[i]
  BY FirstOf DEF Road
<1> HIDE DEF a, b
<1>5. /\ Append(a, q[n]) \in Seq(Segment) /\ Len(Append(a, q[n])) = m + 1
      /\ \A i \in 1..m : Append(a, q[n])[i] = a[i]
      /\ Append(a, q[n])[m + 1] = q[n]
  BY <1>2, <1>3, AppendProperties
<1>6. \A i \in 1..n : Append(a, q[n])[i] = b[i]
  <2> SUFFICES ASSUME NEW i \in 1..n
               PROVE  Append(a, q[n])[i] = b[i]
    OBVIOUS
  <2>1. CASE i = n
    BY <2>1, <1>1, <1>4, <1>5
  <2>2. CASE i # n
    <3>1. i \in 1..m
      BY <2>2, <1>1
    <3> QED BY <3>1, <1>3, <1>4, <1>5
  <2> QED BY <2>1, <2>2
<1>7. Len(Append(a, q[n])) = n
  BY <1>1, <1>5
<1>8. Append(a, q[n]) = b
  BY <1>4, <1>5, <1>6, <1>7, SeqEqual
<1>9. Into(a, q[n]) = Append(a, q[n])
  BY <1>2 DEF Into
<1> QED BY <1>2, <1>8, <1>9 DEF a, b

\* A relative link leads to the page it was made for (relativeWikiLinkPath, resolveURLPath).
LEMMA RelativeLeads ==
  ASSUME NEW p \in Road, NEW q \in Road
  PROVE  Resolved(p, Relative(p, q)) = q
<1> DEFINE d == Relative(p, q)
           L == Len(d.segs)
<1>1. PICK c, k, segs : c = Common(p, q) /\ k = Len(p) - c /\ segs = d.segs
  OBVIOUS
<1>2. /\ c \in Nat /\ k \in Nat /\ c <= Len(q) /\ c + k = Len(p) /\ Len(q) \in Nat /\ Len(p) \in Nat
      /\ d.segs \in Turns /\ L = k + (Len(q) - c)
      /\ \A i \in 1..L : d.segs[i] = IF i <= k THEN Up ELSE q[c + (i - k)]
  <2>1. segs = Relative(p, q).segs
    BY <1>1
  <2>2. c = Common(p, q) /\ k = Len(p) - c
    BY <1>1
  <2> HIDE DEF d, L
  <2>3. Turning(p, q, c, k, segs)
    BY <2>1, <2>2, RelativeTurns
  <2> QED BY <1>1, <2>3 DEF L, Turning
<1>3. d.from = "page"
  BY DEF Relative
<1> HIDE DEF d
<1>4. L \in Nat
  BY <1>2
<1>5. PICK w : IsWalk(w, Start(p, d), d.segs, L) /\ Resolved(p, d) = w[L]
  BY <1>4, ResolvedWalks
<1> HIDE DEF L
<1> DEFINE Spot(n) == IF n <= k THEN SubSeq(p, 1, Len(p) - n) ELSE SubSeq(q, 1, c + (n - k))
           Bad == {n \in 0..L : w[n] # Spot(n)}
<1>6. SubSeq(p, 1, c) = SubSeq(q, 1, c)
  BY <1>1, CommonOf
<1>7. Bad = {}
  <2> SUFFICES ASSUME Bad # {}
               PROVE  FALSE
    OBVIOUS
  <2>1. PICK m \in Bad : \A n \in Bad : m <= n
    <3> Bad \subseteq Nat
      BY <1>4
    <3> HIDE DEF Bad
    <3> QED BY LeastNatural
  <2>2. m \in 0..L /\ w[m] # Spot(m)
    OBVIOUS
  <2>3. w[m] = IF m = 0 THEN p ELSE Into(w[m - 1], d.segs[m])
    BY <1>3, <1>5, <2>2 DEF IsWalk, Start
  <2>4. Spot(0) = p
    <3>1. SubSeq(p, 1, Len(p)) = p /\ Len(p) - 0 = Len(p) /\ 0 <= k
      BY <1>2, SubSeqFull DEF Road
    <3> QED BY <3>1
  <2>5. m # 0
    BY <2>2, <2>3, <2>4
  <2>6. m - 1 \in 0..L /\ m - 1 \notin Bad /\ m \in 1..L
    BY <2>1, <2>2, <2>5, <1>4
  <2>7. w[m - 1] = Spot(m - 1)
    BY <2>6
  <2> HIDE DEF Bad
  <2>8. CASE m <= k
    <3> DEFINE n == Len(p) - (m - 1)
    <3>1. n \in 0..Len(p) /\ n # 0 /\ n - 1 = Len(p) - m /\ m - 1 <= k
      BY <2>6, <2>8, <1>2, <1>4
    <3>2. w[m - 1] = SubSeq(p, 1, n) /\ Spot(m) = SubSeq(p, 1, n - 1)
      BY <2>7, <2>8, <3>1
    <3>3. d.segs[m] = Up
      BY <2>6, <2>8, <1>2
    <3> HIDE DEF n, Spot
    <3>4. w[m] = SubSeq(p, 1, n - 1)
      BY <2>3, <2>5, <3>1, <3>2, <3>3, UpOf
    <3> QED BY <3>2, <3>4, <2>2
  <2>9. CASE ~(m <= k)
    <3> DEFINE n == c + (m - k)
    <3>1. n \in 0..Len(q) /\ n # 0 /\ n - 1 = c + ((m - 1) - k)
      BY <2>6, <2>9, <1>2, <1>4
    <3>2. d.segs[m] = q[n] /\ Spot(m) = SubSeq(q, 1, n)
      BY <2>6, <2>9, <1>2
    <3>3. w[m - 1] = SubSeq(q, 1, n - 1)
      <4>1. CASE m - 1 <= k
        <5>0. m \in Nat /\ k \in Nat /\ c \in Nat /\ Len(p) \in Nat /\ c + k = Len(p)
          BY <2>6, <1>2, <1>4
        <5>1. m - 1 = k /\ Len(p) - (m - 1) = c /\ n - 1 = c
          BY <4>1, <2>9, <5>0
        <5>2. Spot(m - 1) = SubSeq(p, 1, c)
          BY <5>1, <4>1
        <5> QED BY <5>1, <5>2, <2>7, <1>6
      <4>2. CASE ~(m - 1 <= k)
        <5>1. Spot(m - 1) = SubSeq(q, 1, c + ((m - 1) - k))
          BY <4>2
        <5>2. w[m - 1] = SubSeq(q, 1, c + ((m - 1) - k))
          BY <5>1, <2>7
        <5> QED BY <5>2, <3>1
      <4> QED BY <4>1, <4>2
    <3> HIDE DEF n, Spot
    <3>4. w[m] = SubSeq(q, 1, n)
      BY <2>3, <2>5, <3>1, <3>2, <3>3, DownOf
    <3> QED BY <3>2, <3>4, <2>2
  <2> QED BY <2>8, <2>9
<1>8. w[L] = Spot(L)
  <2>1. L \in 0..L /\ L \notin Bad
    BY <1>4, <1>7
  <2> QED BY <2>1
<1>9. Spot(L) = q
  <2>1. SubSeq(q, 1, Len(q)) = q
    BY SubSeqFull DEF Road
  <2>2. CASE L <= k
    <3>0. k \in Nat /\ c \in Nat /\ Len(p) \in Nat /\ Len(q) \in Nat /\ c <= Len(q) /\ c + k = Len(p) /\ L = k + (Len(q) - c)
      BY <1>2
    <3>1. L = k /\ Len(q) = c /\ Len(p) - L = c
      BY <2>2, <3>0
    <3> QED BY <3>1, <2>1, <2>2, <1>6
  <2>3. CASE ~(L <= k)
    <3>1. c + (L - k) = Len(q)
      BY <1>2 DEF L
    <3> QED BY <3>1, <2>1, <2>3
  <2> QED BY <2>2, <2>3
<1> QED BY <1>5, <1>8, <1>9 DEF d

LEMMA PrefixIs ==
  ASSUME NEW s \in Road, NEW t \in Road
  PROVE  IsPrefix(s, t) <=> Len(s) <= Len(t) /\ \A i \in 1..Len(s) : s[i] = t[i]
<1>1. Len(s) \in Nat /\ Len(t) \in Nat /\ SubSeq(s, 1, Len(s)) = s
  BY SubSeqFull DEF Road
<1>2. CASE ~(Len(s) <= Len(t))
  BY <1>2 DEF IsPrefix
<1>3. CASE Len(s) <= Len(t)
  <2> DEFINE n == Len(s)
             a == SubSeq(t, 1, n)
  <2>1. n \in 0..Len(t)
    BY <1>1, <1>3
  <2>2. a \in Seq(Segment) /\ Len(a) = n /\ \A i \in 1..n : a[i] = t[i]
    <3> HIDE DEF n
    <3> QED BY <2>1, FirstOf DEF Road
  <2> HIDE DEF a
  <2>3. IsPrefix(s, t) <=> s = a
    BY <1>1, <1>3 DEF IsPrefix, a
  <2>4. (\A i \in 1..n : s[i] = t[i]) => s = a
    BY <2>2, SeqEqual DEF Road
  <2> QED BY <1>3, <2>2, <2>3, <2>4
<1> QED BY <1>2, <1>3

Paths == old \in Road /\ new \in Road /\ old # <<>> /\ new # <<>>

\* A path below the moved page keeps what is below it (applyRewriteRules).
LEMMA MovedIs ==
  ASSUME Paths, NEW p \in Road
  PROVE  /\ IsPrefix(old, p) <=> Below(p)
         /\ Moved(p) \in Road /\ Moved(p) = Followed(p)
         /\ ~Below(p) => Moved(p) = p
         /\ Below(p) => /\ Len(Moved(p)) = Len(new) + (Len(p) - Len(old))
                        /\ \A i \in 1..Len(new) : Moved(p)[i] = new[i]
<1>1. Len(old) \in Nat /\ Len(new) \in Nat /\ Len(p) \in Nat /\ DOMAIN old = 1..Len(old)
  BY DEF Paths, Road
<1>2. IsPrefix(old, p) <=> Below(p)
  BY <1>1, PrefixIs DEF Below, Paths
<1>3. CASE ~Below(p)
  BY <1>2, <1>3 DEF Moved, Followed
<1>4. CASE Below(p)
  <2> DEFINE n == Len(old)
             rest == SubSeq(p, n + 1, Len(p))
             tail == [i \in 1..(Len(p) - n) |-> p[n + i]]
  <2>1. n \in 0..Len(p) /\ Len(p) - n \in Nat
    BY <1>1, <1>4 DEF Below
  <2>2. rest \in Seq(Segment) /\ Len(rest) = Len(p) - n /\ \A i \in 1..(Len(p) - n) : rest[i] = p[n + i]
    <3> HIDE DEF n
    <3> QED BY <2>1, RestOf DEF Road
  <2>3. rest = tail
    <3>1. \A i \in 1..(Len(p) - n) : n + i \in 1..Len(p)
      BY <1>1, <2>1
    <3>2. tail \in Seq(Segment) /\ Len(tail) = Len(p) - n
      BY <2>1, <3>1 DEF Road
    <3>3. \A i \in 1..(Len(p) - n) : rest[i] = tail[i]
      BY <2>2
    <3> HIDE DEF rest, tail
    <3> QED BY <2>2, <3>2, <3>3, SeqEqual
  <2>4. Moved(p) = new \o rest
    BY <1>2, <1>4 DEF Moved
  <2>5. Followed(p) = new \o tail
    BY <1>4 DEF Followed
  <2> HIDE DEF rest, tail
  <2>6. /\ new \o rest \in Seq(Segment) /\ Len(new \o rest) = Len(new) + Len(rest)
        /\ \A i \in 1..Len(new) + Len(rest) : (new \o rest)[i] = IF i <= Len(new) THEN new[i] ELSE rest[i - Len(new)]
    BY <2>2, ConcatProperties DEF Paths, Road
  <2>7. \A i \in 1..Len(new) : (new \o rest)[i] = new[i]
    <3>1. Len(rest) \in Nat
      BY <2>2
    <3>2. \A i \in 1..Len(new) : i \in 1..Len(new) + Len(rest) /\ i <= Len(new)
      BY <3>1, <1>1
    <3> QED BY <3>2, <2>6
  <2> QED BY <1>2, <1>4, <2>2, <2>3, <2>4, <2>5, <2>6, <2>7 DEF Road
<1> QED BY <1>2, <1>3, <1>4

\* A path that was followed is not followed further.
LEMMA MovedOnce ==
  ASSUME Paths, ~IsPrefix(old, new), ~IsPrefix(new, old), NEW p \in Road
  PROVE  Moved(Moved(p)) = Moved(p)
<1>1. Len(old) \in Nat /\ Len(new) \in Nat /\ old \in Road /\ new \in Road /\ DOMAIN old = 1..Len(old)
  BY DEF Paths, Road
<1>2. Moved(p) \in Road
  BY MovedIs
<1>3. CASE ~Below(p)
  BY <1>3, MovedIs
<1>4. CASE Below(p)
  <2> SUFFICES ASSUME Below(Moved(p))
               PROVE  FALSE
    BY <1>2, MovedIs
  <2> DEFINE q == Moved(p)
  <2>1. (\A i \in 1..Len(old) : q[i] = old[i]) /\ \A i \in 1..Len(new) : q[i] = new[i]
    <3>1. \A i \in 1..Len(new) : q[i] = new[i]
      BY <1>4, MovedIs
    <3>2. \A i \in 1..Len(old) : q[i] = old[i]
      BY <1>1 DEF Below
    <3> QED BY <3>1, <3>2
  <2> HIDE DEF q
  <2>2. CASE Len(old) <= Len(new)
    <3>1. \A i \in 1..Len(old) : i \in 1..Len(new)
      BY <1>1, <2>2
    <3>2. \A i \in 1..Len(old) : old[i] = new[i]
      BY <2>1, <3>1
    <3> QED BY <3>2, <2>2, <1>1, PrefixIs
  <2>3. CASE Len(new) <= Len(old)
    <3>1. \A i \in 1..Len(new) : i \in 1..Len(old)
      BY <1>1, <2>3
    <3>2. \A i \in 1..Len(new) : new[i] = old[i]
      BY <2>1, <3>1
    <3> QED BY <3>2, <2>3, <1>1, PrefixIs
  <2> QED BY <1>1, <2>2, <2>3
<1> QED BY <1>3, <1>4

\* A page that is renamed, or moved, is not moved below itself.
LEMMA NotBelowItself ==
  ASSUME Paths,
         \/ Parent(new) = Parent(old) /\ new # old
         \/ ~IsPrefix(old, new)
  PROVE  ~IsPrefix(old, new)
<1> SUFFICES ASSUME Parent(new) = Parent(old), new # old, IsPrefix(old, new)
             PROVE  FALSE
  OBVIOUS
<1>1. old \in Seq(Segment) /\ new \in Seq(Segment) /\ Len(old) \in Nat /\ Len(new) \in Nat
  BY DEF Paths, Road
<1>2. Len(Parent(old)) = Len(old) - 1 /\ Len(Parent(new)) = Len(new) - 1
  BY ParentOf DEF Paths
<1>3. Len(old) = Len(new)
  BY <1>1, <1>2
<1>4. \A i \in 1..Len(old) : old[i] = new[i]
  BY PrefixIs DEF Paths
<1> QED BY <1>1, <1>3, <1>4, SeqEqual

\* What is above a path is above all below it.
LEMMA PrefixOfPrefix ==
  ASSUME NEW r \in Road, NEW s \in Road, NEW t \in Road, IsPrefix(r, s), IsPrefix(s, t)
  PROVE  IsPrefix(r, t)
<1>1. Len(r) \in Nat /\ Len(s) \in Nat /\ Len(t) \in Nat
  BY DEF Road
<1>2. /\ Len(r) <= Len(s) /\ \A i \in 1..Len(r) : r[i] = s[i]
      /\ Len(s) <= Len(t) /\ \A i \in 1..Len(s) : s[i] = t[i]
  BY PrefixIs
<1>3. Len(r) <= Len(t) /\ \A i \in 1..Len(r) : r[i] = t[i]
  <2>1. \A i \in 1..Len(r) : i \in 1..Len(s)
    BY <1>1, <1>2
  <2> QED BY <1>1, <1>2, <2>1
<1> QED BY <1>3, PrefixIs

NoMatch == [found |-> {}, next |-> 1]
IsPass(w, links, N) == w = [n \in 0..N |-> IF n = 0 THEN NoMatch ELSE Match(links, w[n - 1], n)]

\* The loop over the candidates can be unfolded.
LEMMA PassExists ==
  ASSUME NEW L \in Nat, NEW links
  PROVE  \E w : IsPass(w, links, L)
<1> DEFINE Bad == {N \in Nat : ~ \E w : IsPass(w, links, N)}
<1>1. Bad = {}
  <2> SUFFICES ASSUME Bad # {}
               PROVE  FALSE
    OBVIOUS
  <2>1. PICK m \in Bad : \A n \in Bad : m <= n
    <3> Bad \subseteq Nat
      OBVIOUS
    <3> HIDE DEF Bad
    <3> QED BY LeastNatural
  <2>2. m \in Nat /\ ~ \E w : IsPass(w, links, m)
    OBVIOUS
  <2>3. m # 0
    <3> DEFINE w0 == [n \in 0..0 |-> NoMatch]
    <3>1. IsPass(w0, links, 0)
      BY DEF IsPass
    <3> QED BY <2>2, <3>1
  <2>4. m - 1 \in Nat /\ m - 1 \notin Bad
    BY <2>1, <2>2, <2>3
  <2>5. PICK w : IsPass(w, links, m - 1)
    BY <2>4
  <2> DEFINE v == [n \in 0..m |-> IF n = m THEN Match(links, w[m - 1], m) ELSE w[n]]
  <2>6. \A n \in 0..m : v[n] = IF n = 0 THEN NoMatch ELSE Match(links, v[n - 1], n)
    <3> SUFFICES ASSUME NEW n \in 0..m
                 PROVE  v[n] = IF n = 0 THEN NoMatch ELSE Match(links, v[n - 1], n)
      OBVIOUS
    <3>1. CASE n = m
      <4>1. v[n] = Match(links, w[m - 1], m) /\ v[m - 1] = w[m - 1]
        BY <3>1, <2>2, <2>3
      <4> QED BY <4>1, <3>1, <2>3
    <3>2. CASE n # m
      <4>1. n \in 0..(m - 1) /\ v[n] = w[n]
        BY <3>2, <2>2
      <4>2. w[n] = IF n = 0 THEN NoMatch ELSE Match(links, w[n - 1], n)
        BY <4>1, <2>5 DEF IsPass
      <4>3. n # 0 => v[n - 1] = w[n - 1]
        BY <4>1, <3>2, <2>2
      <4> QED BY <4>1, <4>2, <4>3
    <3> QED BY <3>1, <3>2
  <2>7. v = [n \in 0..m |-> IF n = 0 THEN NoMatch ELSE Match(links, v[n - 1], n)]
    <3> HIDE DEF v
    <3>1. DOMAIN v = 0..m /\ v = [n \in DOMAIN v |-> v[n]]
      BY DEF v
    <3> QED BY <3>1, <2>6
  <2>8. IsPass(v, links, m)
    BY <2>7 DEF IsPass
  <2> QED BY <2>2, <2>8
<1> QED BY <1>1

LEMMA MatchedPasses ==
  ASSUME NEW links, Len(links) \in Nat
  PROVE  \E w : IsPass(w, links, Len(links)) /\ Matched(links) = w[Len(links)].found
<1> DEFINE w == CHOOSE w : w = [n \in 0..Len(links) |-> IF n = 0 THEN NoMatch ELSE Match(links, w[n - 1], n)]
<1>1. \E u : u = [n \in 0..Len(links) |-> IF n = 0 THEN NoMatch ELSE Match(links, u[n - 1], n)]
  <2>1. PICK u : IsPass(u, links, Len(links))
    BY PassExists
  <2> QED BY <2>1 DEF IsPass
<1>2. w = [n \in 0..Len(links) |-> IF n = 0 THEN NoMatch ELSE Match(links, w[n - 1], n)]
  BY <1>1
<1>3. Matched(links) = w[Len(links)].found
  BY DEF Matched, NoMatch
<1> QED BY <1>2, <1>3 DEF IsPass

LEMMA FirstIsFound ==
  ASSUME NEW S, S \subseteq Nat, S # {}
  PROVE  /\ (CHOOSE j \in S : \A k \in S : j <= k) \in S
         /\ \A i \in S : (CHOOSE j \in S : \A k \in S : j <= k) <= i
<1>1. \E j \in S : \A k \in S : j <= k
  BY LeastNatural
<1> QED BY <1>1

\* A pass rewrites nothing but what the scanner sees.
LEMMA MatchedAreSeen ==
  ASSUME NEW links, Len(links) \in Nat, DOMAIN links = 1..Len(links)
  PROVE  Matched(links) \subseteq Occurrences(links)
<1> DEFINE L == Len(links)
<1>1. PICK w : IsPass(w, links, L) /\ Matched(links) = w[L].found
  BY MatchedPasses
<1> DEFINE Bad == {n \in 0..L : ~(w[n].found \subseteq Occurrences(links))}
<1>2. Bad = {}
  <2> SUFFICES ASSUME Bad # {}
               PROVE  FALSE
    OBVIOUS
  <2>1. PICK m \in Bad : \A n \in Bad : m <= n
    <3> Bad \subseteq Nat
      OBVIOUS
    <3> HIDE DEF Bad
    <3> QED BY LeastNatural
  <2>2. m \in 0..L /\ ~(w[m].found \subseteq Occurrences(links))
    OBVIOUS
  <2>3. w[m] = IF m = 0 THEN NoMatch ELSE Match(links, w[m - 1], m)
    BY <1>1, <2>2 DEF IsPass
  <2>4. m # 0
    BY <2>2, <2>3 DEF NoMatch
  <2>5. m - 1 \in 0..L /\ m - 1 \notin Bad
    BY <2>1, <2>2, <2>4
  <2>6. w[m - 1].found \subseteq Occurrences(links)
    BY <2>5
  <2> DEFINE found == {j \in Occurrences(links) : j >= w[m - 1].next /\ links[j].to = links[m].to}
             first == CHOOSE j \in found : \A k \in found : j <= k
  <2>7. w[m] = IF m \notin Candidates(links) THEN w[m - 1]
               ELSE IF found = {} THEN [found |-> w[m - 1].found, next |-> L + 1]
               ELSE [found |-> w[m - 1].found \cup {first}, next |-> first + 1]
    BY <2>3, <2>4 DEF Match
  <2>8. found # {} => first \in Occurrences(links)
    <3>1. found \subseteq Nat
      BY DEF Occurrences
    <3> DEFINE S == found
    <3>2. S # {} => first \in S
      <4> HIDE DEF found
      <4> QED BY <3>1, FirstIsFound
    <3> QED BY <3>2
  <2> HIDE DEF found, first
  <2>9. w[m].found \subseteq Occurrences(links)
    BY <2>6, <2>7, <2>8
  <2> QED BY <2>2, <2>9
<1>3. L \in 0..L /\ L \notin Bad
  BY <1>2
<1> QED BY <1>1, <1>3

\* When parser and scanner see the same links, every link is matched, with itself.
LEMMA PlainAreMatched ==
  ASSUME NEW links, Len(links) \in Nat, DOMAIN links = 1..Len(links),
         \A i \in DOMAIN links : links[i].syntax \notin {"reference", "escaped"}
  PROVE  \A i \in DOMAIN links : links[i].syntax = "inline" => i \in Matched(links)
<1> DEFINE L == Len(links)
           Upto(n) == {i \in 1..n : links[i].syntax = "inline"}
           AllSeen(n, m) == m.found = Upto(n) /\ m.next \in 1..(n + 1) /\ \A i \in Upto(n) : i < m.next
<1>0. Occurrences(links) = Upto(L) /\ Candidates(links) = Upto(L)
  BY DEF Occurrences, Candidates
<1>1. PICK w : IsPass(w, links, L) /\ Matched(links) = w[L].found
  BY MatchedPasses
<1> DEFINE Bad == {n \in 0..L : ~AllSeen(n, w[n])}
<1>2. Bad = {}
  <2> SUFFICES ASSUME Bad # {}
               PROVE  FALSE
    OBVIOUS
  <2>1. PICK m \in Bad : \A n \in Bad : m <= n
    <3> Bad \subseteq Nat
      OBVIOUS
    <3> HIDE DEF Bad
    <3> QED BY LeastNatural
  <2>2. m \in 0..L /\ ~AllSeen(m, w[m])
    OBVIOUS
  <2>3. w[m] = IF m = 0 THEN NoMatch ELSE Match(links, w[m - 1], m)
    BY <1>1, <2>2 DEF IsPass
  <2>4. m # 0
    BY <2>2, <2>3 DEF NoMatch
  <2>5. m - 1 \in 0..L /\ m - 1 \notin Bad /\ m \in 1..L
    BY <2>1, <2>2, <2>4
  <2>6. AllSeen(m - 1, w[m - 1])
    BY <2>5
  <2>7. w[m - 1].found = Upto(m - 1) /\ w[m - 1].next \in 1..m /\ \A i \in Upto(m - 1) : i < w[m - 1].next
    BY <2>5, <2>6
  <2> HIDE DEF Bad, AllSeen
  <2> DEFINE found == {j \in Occurrences(links) : j >= w[m - 1].next /\ links[j].to = links[m].to}
             first == CHOOSE j \in found : \A k \in found : j <= k
  <2>8. w[m] = IF m \notin Candidates(links) THEN w[m - 1]
               ELSE IF found = {} THEN [found |-> w[m - 1].found, next |-> L + 1]
               ELSE [found |-> w[m - 1].found \cup {first}, next |-> first + 1]
    BY <2>3, <2>4 DEF Match
  <2>9. CASE links[m].syntax # "inline"
    <3>1. w[m] = w[m - 1]
      BY <2>8, <2>9, <1>0
    <3>2. Upto(m) = Upto(m - 1)
      BY <2>5, <2>9
    <3>3. w[m].next \in 1..(m + 1)
      BY <3>1, <2>5, <2>7
    <3> QED BY <3>1, <3>2, <3>3, <2>2, <2>7 DEF AllSeen
  <2>10. CASE links[m].syntax = "inline"
    <3>1. m \in found /\ m \in Candidates(links)
      BY <2>5, <2>7, <2>10, <1>0
    <3>2. \A j \in found : m <= j /\ j \in Nat
      <4> SUFFICES ASSUME NEW j \in found, ~(m <= j)
                   PROVE  FALSE
        BY <1>0
      <4>1. j \in Upto(L) /\ j >= w[m - 1].next
        BY <1>0
      <4>2. j \in Upto(m - 1)
        BY <4>1, <2>5
      <4> QED BY <4>1, <4>2, <2>5, <2>7
    <3>3. first = m
      <4> HIDE DEF found
      <4>1. found \subseteq Nat /\ found # {}
        BY <3>1, <3>2
      <4>2. first \in found /\ \A i \in found : first <= i
        BY <4>1, FirstIsFound
      <4>3. first <= m /\ m <= first /\ first \in Nat /\ m \in Nat
        BY <4>2, <3>1, <3>2, <2>5
      <4> HIDE DEF first
      <4> QED BY <4>3
    <3> HIDE DEF first
    <3>4. w[m].found = w[m - 1].found \cup {m} /\ w[m].next = m + 1
      <4> HIDE DEF found
      <4> QED BY <3>1, <3>3, <2>8
    <3>5. Upto(m) = Upto(m - 1) \cup {m}
      BY <2>5, <2>10
    <3>6. \A i \in Upto(m) : i < m + 1
      BY <2>5
    <3>7. m + 1 \in 1..(m + 1)
      BY <2>5
    <3> HIDE DEF Upto
    <3> QED BY <3>4, <3>5, <3>6, <3>7, <2>2, <2>7 DEF AllSeen
  <2> QED BY <2>9, <2>10
<1>3. L \in 0..L /\ L \notin Bad
  BY <1>2
<1>4. Matched(links) = Upto(L)
  BY <1>1, <1>3
<1> QED BY <1>4

\* A relative link without segments is one to the page itself.
LEMMA RelativeEmpty ==
  ASSUME NEW p \in Road, NEW q \in Road, Relative(p, q).segs = <<>>
  PROVE  q = p
<1> DEFINE d == Relative(p, q)
<1>1. d.from = "page" /\ d.segs = <<>> /\ Len(d.segs) = 0
  BY DEF Relative
<1>2. Resolved(p, d) = q
  BY RelativeLeads
<1> HIDE DEF d
<1>3. PICK w : IsWalk(w, Start(p, d), d.segs, Len(d.segs)) /\ Resolved(p, d) = w[Len(d.segs)]
  BY <1>1, ResolvedWalks
<1>4. w[0] = Start(p, d)
  BY <1>1, <1>3 DEF IsWalk
<1> QED BY <1>1, <1>2, <1>3, <1>4 DEF Start

\* Where a link from the top leads does not depend on the page.
LEMMA ResolvedTop ==
  ASSUME NEW p, NEW r, NEW d, d.from # "page"
  PROVE  Resolved(p, d) = Resolved(r, d)
BY DEF Resolved

\* What the two rules make of a destination leads to where it led, followed.
Leading(d, e, from, to) == e.from = d.from /\ e.segs \in Turns /\ Resolved(from, e) = to

LEMMA OrLeads ==
  ASSUME NEW p \in Road, NEW q \in Road, NEW d, d.from = "page"
  PROVE  /\ Or(d, Relative(p, q)) = d \/ Leading(d, Or(d, Relative(p, q)), p, q)
         /\ q # p => Leading(d, Or(d, Relative(p, q)), p, q)
<1>1. Relative(p, q).from = "page" /\ Relative(p, q).segs \in Turns
  <2>1. PICK c, k, segs : c = Common(p, q) /\ k = Len(p) - c /\ segs = Relative(p, q).segs
    OBVIOUS
  <2>2. Turning(p, q, c, k, segs)
    BY <2>1, RelativeTurns
  <2>3. segs \in Turns
    BY <2>2 DEF Turning
  <2> QED BY <2>1, <2>3 DEF Relative
<1>2. Leading(d, Relative(p, q), p, q)
  BY <1>1, RelativeLeads DEF Leading
<1>3. q # p => Relative(p, q).segs # <<>>
  BY RelativeEmpty
<1> QED BY <1>2, <1>3 DEF Or

\* rewriteLinkDestination
LEMMA DestinationLeads ==
  ASSUME Paths, NEW p \in Road, NEW d, d.segs \in Turns,
         NEW q, q = Resolved(p, d), NEW e, e = RewriteLinkDestination(p, d)
  PROVE  /\ q \in Road
         /\ e = d \/ (d.from \in {"page", "top"} /\ Leading(d, e, Moved(p), Moved(q)))
         /\ Moved(q) = q => e = d
         /\ (d.from \in {"page", "top"} /\ Moved(q) # q /\ (d.from = "page" => Moved(q) # Moved(p))) =>
              Leading(d, e, Moved(p), Moved(q))
<1>1. q \in Road /\ Moved(q) \in Road /\ Moved(p) \in Road
  <2>1. q \in Road
    BY ResolvedType
  <2> QED BY <2>1, MovedIs
<1>2. CASE d.from \notin {"page", "top"} \/ Moved(q) = q
  BY <1>1, <1>2 DEF RewriteLinkDestination
<1>3. CASE d.from = "top" /\ Moved(q) # q
  <2>1. e = [from |-> "top", segs |-> Moved(q)]
    BY <1>3 DEF RewriteLinkDestination
  <2>2. e.from = "top" /\ e.segs = Moved(q) /\ e.segs \in Road
    BY <2>1, <1>1
  <2>3. Resolved(Moved(p), e) = Moved(q)
    BY <2>2, ResolvedDown
  <2>4. e.segs \in Turns
    BY <2>2 DEF Road, Turns
  <2> QED BY <1>1, <1>3, <2>2, <2>3, <2>4 DEF Leading
<1>4. CASE d.from = "page" /\ Moved(q) # q
  <2>1. e = Or(d, Relative(Moved(p), Moved(q)))
    BY <1>4 DEF RewriteLinkDestination
  <2>2. /\ e = d \/ Leading(d, e, Moved(p), Moved(q))
        /\ Moved(q) # Moved(p) => Leading(d, e, Moved(p), Moved(q))
    BY <2>1, <1>1, <1>4, OrLeads
  <2> QED BY <1>1, <1>4, <2>2
<1> QED BY <1>2, <1>3, <1>4

\* rewriteRelativeLinkForPathChange
LEMMA RelativeLinkLeads ==
  ASSUME Paths, NEW p \in Road, NEW r \in Road, NEW d, d.segs \in Turns,
         NEW q, q = Resolved(p, d), NEW e, e = RewriteRelativeLink(p, r, d)
  PROVE  /\ d.from # "page" => e = d
         /\ (d.from = "page" /\ Moved(q) # r) => Leading(d, e, r, Moved(q))
<1>1. q \in Road /\ Moved(q) \in Road
  <2>1. q \in Road
    BY ResolvedType
  <2> QED BY <2>1, MovedIs
<1>2. CASE d.from # "page"
  BY <1>2 DEF RewriteRelativeLink
<1>3. CASE d.from = "page"
  <2>1. e = Or(d, Relative(r, Moved(q)))
    BY <1>3 DEF RewriteRelativeLink
  <2>2. Moved(q) # r => Leading(d, e, r, Moved(q))
    BY <2>1, <1>1, <1>3, OrLeads
  <2> QED BY <1>3, <2>2
<1> QED BY <1>2, <1>3

-----------------------------------------------------------------------------
(* What the passes make of the links of a text *)

IsLink(l) == l = [syntax |-> l.syntax, to |-> l.to]

LEMMA LinkParts ==
  ASSUME NEW l \in Link
  PROVE  /\ IsLink(l) /\ l.to.segs \in Turns /\ l.to = [from |-> l.to.from, segs |-> l.to.segs]
         /\ l.syntax = "wiki" <=> l.to.from = "wiki"
         /\ l.to.from \in {"page", "top", "outside", "wiki"}
<1> DEFINE A == [syntax : {"inline", "reference", "escaped", "code"},
                 to : [from : {"page", "top", "outside"}, segs : Seq(Segment \cup {Up})]]
           B == [syntax : {"wiki"}, to : [from : {"wiki"}, segs : Seq(Segment \cup {Up})]]
<1>1. CASE l \in A
  <2>1. l = [syntax |-> l.syntax, to |-> l.to]
    BY <1>1
  <2>2. l.syntax # "wiki" /\ l.to.from \in {"page", "top", "outside"} /\ l.to.segs \in Seq(Segment \cup {Up})
        /\ l.to = [from |-> l.to.from, segs |-> l.to.segs]
    BY <1>1
  <2> QED BY <2>1, <2>2 DEF IsLink, Turns
<1>2. CASE l \in B
  <2>1. l = [syntax |-> l.syntax, to |-> l.to]
    BY <1>2
  <2>2. l.syntax = "wiki" /\ l.to.from = "wiki" /\ l.to.segs \in Seq(Segment \cup {Up})
        /\ l.to = [from |-> l.to.from, segs |-> l.to.segs]
    BY <1>2
  <2> QED BY <2>1, <2>2 DEF IsLink, Turns
<1> QED BY <1>1, <1>2 DEF Link

\* A link with another destination is the same link if that is the one it had.
LEMMA Redirected ==
  ASSUME NEW l, IsLink(l), NEW e
  PROVE  /\ IsLink([l EXCEPT !.to = e])
         /\ [l EXCEPT !.to = e].syntax = l.syntax /\ [l EXCEPT !.to = e].to = e
         /\ e = l.to => [l EXCEPT !.to = e] = l
<1>1. l = [syntax |-> l.syntax, to |-> l.to]
  BY DEF IsLink
<1>2. PICK s, d : l = [syntax |-> s, to |-> d]
  BY <1>1
<1>3. [l EXCEPT !.to = e] = [syntax |-> s, to |-> e]
  BY <1>2
<1> QED BY <1>2, <1>3 DEF IsLink

LEMMA RewrittenIs ==
  ASSUME NEW links, NEW i, IsLink(links[i]), NEW e, NEW l, l = Rewritten(links, i, e)
  PROVE  /\ IsLink(l) /\ l.syntax = links[i].syntax
         /\ i \in Matched(links) => l.to = e
         /\ i \notin Matched(links) \/ e = links[i].to => l = links[i]
<1>1. CASE i \in Matched(links)
  <2>1. l = [links[i] EXCEPT !.to = e]
    BY <1>1 DEF Rewritten
  <2> QED BY <1>1, <2>1, Redirected
<1>2. CASE i \notin Matched(links)
  BY <1>2 DEF Rewritten
<1> QED BY <1>1, <1>2

AffectedText == [i \in DOMAIN was.text |->
  IF was.text[i].syntax = "wiki" THEN [was.text[i] EXCEPT !.to = RewriteWikiLink(@)]
  ELSE Rewritten(was.text, i, RewriteLinkDestination(was.at, was.text[i].to))]
FirstText == [i \in DOMAIN was.text |->
  Rewritten(was.text, i, RewriteRelativeLink(was.at, Moved(was.at), was.text[i].to))]
SecondText == [i \in DOMAIN FirstText |->
  Rewritten(FirstText, i, RewriteLinkDestination(Moved(was.at), FirstText[i].to))]

Frame ==
  /\ Paths /\ ~IsPrefix(old, new) /\ ~IsPrefix(new, was.at)
  /\ was.text \in Seq(Link) /\ was.at \in Road
  /\ title \in Segment /\ titled \in Segment /\ aside \in Segment

\* What the page is after each pass
RewritingInv ==
  /\ Frame /\ done \in {"nothing", "relative", "all"}
  /\ done = "nothing" => text = was.text /\ at = was.at
  /\ done = "relative" => IsPrefix(old, was.at) /\ at = Moved(was.at) /\ text = FirstText
  /\ done = "all" =>
       \/ ~IsPrefix(old, was.at) /\ at = was.at /\ text = AffectedText
       \/ /\ IsPrefix(old, was.at) /\ at = Moved(was.at)
          /\ \/ text = SecondText
             \/ text = FirstText /\ \A i \in DOMAIN FirstText : ~Mentions(FirstText[i].to)

LEMMA RewritingStarts == RewritingInit => RewritingInv
<1> SUFFICES ASSUME RewritingInit
             PROVE  RewritingInv
  OBVIOUS
<1>1. was.text = text /\ was.at = at
  BY DEF RewritingInit
<1>2. text \in Seq(Link) /\ at \in Seq(Segment) /\ old \in Seq(Segment) /\ new \in Seq(Segment)
      /\ old # <<>> /\ new # <<>>
  BY RewritingAssumption DEF RewritingInit
<1>3. Paths
  BY <1>2 DEF Paths, Road
<1>4. ~IsPrefix(old, new)
  BY <1>3, NotBelowItself DEF RewritingInit
<1>5. Frame
  BY <1>1, <1>2, <1>3, <1>4 DEF Frame, RewritingInit, Road
<1> QED BY <1>1, <1>5 DEF RewritingInv, RewritingInit

LEMMA FrameStays ==
  ASSUME UNCHANGED <<old, new, title, titled, aside, was>>, Frame
  PROVE  Frame'
BY DEF Frame, Paths

LEMMA TextsStay ==
  ASSUME UNCHANGED <<old, new, title, titled, aside, was>>
  PROVE  AffectedText' = AffectedText /\ FirstText' = FirstText /\ SecondText' = SecondText
         /\ Moved(was.at)' = Moved(was.at) /\ \A d : Mentions(d)' <=> Mentions(d)
<1>1. \A p : Moved(p)' = Moved(p)
  BY DEF Moved
<1>2. Moved(was.at)' = Moved(was.at)
  BY <1>1
<1>3. FirstText' = FirstText
  BY <1>2 DEF FirstText, RewriteRelativeLink, Moved
<1>4. AffectedText' = AffectedText
  BY DEF AffectedText, RewriteLinkDestination, RewriteWikiLink, Moved
<1>5. SecondText' = SecondText
  BY <1>2, <1>3 DEF SecondText, RewriteLinkDestination, Moved
<1>6. \A d : Mentions(d)' <=> Mentions(d)
  BY DEF Mentions
<1> QED BY <1>2, <1>3, <1>4, <1>5, <1>6

LEMMA RewritingKeeps == RewritingInv /\ [RewritingNext]_rewritingVars => RewritingInv'
<1> SUFFICES ASSUME RewritingInv, [RewritingNext]_rewritingVars
             PROVE  RewritingInv'
  OBVIOUS
<1>1. UNCHANGED <<old, new, title, titled, aside, was>>
  BY DEF RewritingNext, RewriteAffectedPage, RewriteRelative, RewriteAbsolute, rewritingVars
<1>2. Frame'
  BY <1>1, FrameStays DEF RewritingInv
<1>3. AffectedText' = AffectedText /\ FirstText' = FirstText /\ SecondText' = SecondText
      /\ Moved(was.at)' = Moved(was.at) /\ \A d : Mentions(d)' <=> Mentions(d)
  BY <1>1, TextsStay
<1>4. CASE RewriteAffectedPage
  <2>1. text = was.text /\ at = was.at /\ ~IsPrefix(old, was.at)
    BY <1>4 DEF RewritingInv, RewriteAffectedPage, InSubtree
  <2>2. text' = AffectedText /\ at' = was.at /\ done' = "all"
    BY <1>4, <2>1 DEF RewriteAffectedPage, AffectedText
  <2> QED BY <1>1, <1>2, <1>3, <2>1, <2>2 DEF RewritingInv
<1>5. CASE RewriteRelative
  <2>1. text = was.text /\ at = was.at /\ IsPrefix(old, was.at)
    BY <1>5 DEF RewritingInv, RewriteRelative, InSubtree
  <2>2. text' = FirstText /\ at' = Moved(was.at) /\ done' = "relative"
    BY <1>5, <2>1 DEF RewriteRelative, FirstText
  <2> QED BY <1>1, <1>2, <1>3, <2>1, <2>2 DEF RewritingInv
<1>6. CASE RewriteAbsolute
  <2>1. text = FirstText /\ at = Moved(was.at) /\ IsPrefix(old, was.at)
    BY <1>6 DEF RewritingInv, RewriteAbsolute
  <2>2. at' = Moved(was.at) /\ done' = "all"
    BY <1>6, <2>1 DEF RewriteAbsolute
  <2>3. text' = SecondText \/ (text' = FirstText /\ \A i \in DOMAIN FirstText : ~Mentions(FirstText[i].to))
    BY <1>6, <2>1 DEF RewriteAbsolute, SecondText
  <2> QED BY <1>1, <1>2, <1>3, <2>1, <2>2, <2>3 DEF RewritingInv
<1>7. CASE UNCHANGED rewritingVars
  <2>1. text' = text /\ at' = at /\ done' = done
    BY <1>7 DEF rewritingVars
  <2> QED BY <1>1, <1>2, <1>3, <2>1 DEF RewritingInv
<1> QED BY <1>4, <1>5, <1>6, <1>7 DEF RewritingNext

-----------------------------------------------------------------------------
(* Where the links lead after the passes *)

\* The moved page itself is followed to its new path.
LEMMA OldIsFollowed ==
  ASSUME Paths
  PROVE  Followed(old) = new
<1>1. old \in Road /\ new \in Seq(Segment) /\ Len(old) \in Nat /\ Len(new) \in Nat
  BY DEF Paths, Road
<1>2. Below(old)
  BY <1>1 DEF Below
<1>3. Moved(old) \in Seq(Segment) /\ Len(Moved(old)) = Len(new) /\ \A i \in 1..Len(new) : Moved(old)[i] = new[i]
  BY <1>1, <1>2, MovedIs DEF Road
<1>4. Moved(old) = new
  BY <1>1, <1>3, SeqEqual
<1> QED BY <1>1, <1>4, MovedIs

LEMMA OutsideStays ==
  ASSUME Paths
  PROVE  Followed(<<"outside">>) = <<"outside">>
<1>1. 1 \in DOMAIN old /\ old[1] \in Segment
  BY DEF Paths, Road
<1>2. ~Below(<<"outside">>)
  BY <1>1, RewritingAssumption DEF Below
<1> QED BY <1>2 DEF Followed

\* A wiki link that is rewritten names the page where it is now (RewriteWikiLinks).
LEMMA WikiLeads ==
  ASSUME Frame, NEW p, NEW r, NEW d, d = [from |-> "wiki", segs |-> d.segs],
         NEW e, e = RewriteWikiLink(d), e # d,
         aside # titled, <<aside>> # old, Len(new) # 1,
         Leads(p, d, title, old) # Nowhere
  PROVE  Leads(r, e, titled, new) = Followed(Leads(p, d, title, old))
<1>1. Followed(old) = new
  BY OldIsFollowed DEF Frame
<1>2. CASE d.segs = <<title>> /\ titled # title
  <2>1. e = [from |-> "wiki", segs |-> <<titled>>]
    BY <1>2 DEF RewriteWikiLink
  <2>2. e.from = "wiki" /\ e.segs = <<titled>> /\ Len(e.segs) = 1
    BY <2>1
  <2>3. Leads(r, e, titled, new) = new
    BY <2>2 DEF Leads, Frame
  <2>4. Leads(p, d, title, old) = old
    BY <1>2 DEF Leads
  <2> QED BY <1>1, <2>3, <2>4
<1>3. CASE ~(d.segs = <<title>> /\ titled # title) /\ d.segs = old
  <2>1. e = [from |-> "wiki", segs |-> new]
    BY <1>3 DEF RewriteWikiLink
  <2>2. e.from = "wiki" /\ e.segs = new
    BY <2>1
  <2>3. new \in Road /\ old \in Road /\ Len(new) > 1 /\ Len(old) \in Nat
    <3>1. new \in Seq(Segment) /\ new # <<>> /\ old \in Road
      BY DEF Frame, Paths, Road
    <3>2. Len(new) \in Nat /\ Len(new) # 0
      BY <3>1, EmptySeq
    <3>3. Len(new) > 1
      <4>1. PICK n \in Nat : n = Len(new)
        BY <3>2
      <4>2. n # 0 /\ n # 1
        BY <3>2, <4>1
      <4>3. n > 1
        BY <4>2
      <4> QED BY <4>1, <4>3
    <3>4. Len(old) \in Nat
      BY <3>1 DEF Road
    <3>5. new \in Road
      BY <3>1 DEF Road
    <3> QED BY <3>1, <3>3, <3>4, <3>5
  <2>4. Resolved(r, e) = new
    BY <2>2, <2>3, ResolvedDown
  <2>5. Leads(r, e, titled, new) = new
    BY <2>2, <2>3, <2>4 DEF Leads
  <2>6. CASE Len(old) > 1
    <3>1. Resolved(p, d) = old
      BY <1>3, <2>3, ResolvedDown
    <3>2. Leads(p, d, title, old) = old
      BY <1>3, <2>6, <3>1 DEF Leads
    <3> QED BY <1>1, <2>5, <3>2
  <2>7. CASE ~(Len(old) > 1)
    <3>1. Leads(p, d, title, old) = old
      BY <1>3, <2>7 DEF Leads
    <3> QED BY <1>1, <2>5, <3>1
  <2> QED BY <2>6, <2>7
<1>4. CASE ~(d.segs = <<title>> /\ titled # title) /\ d.segs # old
  BY <1>4 DEF RewriteWikiLink
<1> QED BY <1>2, <1>3, <1>4

\* rewriteLinkDestination leaves a link that leads where it did, followed, unless it is
\* relative and led to the page itself; and what it changes leads there too.
LEMMA DestinationFollows ==
  ASSUME Paths, NEW p \in Road, Moved(p) = p, NEW r, NEW d, d.segs \in Turns, d.from # "wiki",
         Resolved(r, d) = Resolved(p, d), NEW e, e = RewriteLinkDestination(p, d)
  PROVE  /\ e = d \/ (d.from # "outside" /\ Leads(p, e, titled, new) = Followed(Leads(r, d, title, old)))
         /\ ~(d.from = "page" /\ Followed(Leads(r, d, title, old)) = p) /\ d.from \in {"page", "top", "outside"} =>
              Leads(p, e, titled, new) = Followed(Leads(r, d, title, old))
<1> DEFINE q == Resolved(p, d)
<1>1. /\ q \in Road
      /\ e = d \/ (d.from \in {"page", "top"} /\ Leading(d, e, p, Moved(q)))
      /\ Moved(q) = q => e = d
      /\ (d.from \in {"page", "top"} /\ Moved(q) # q /\ (d.from = "page" => Moved(q) # p)) =>
              Leading(d, e, p, Moved(q))
  BY DestinationLeads
<1>2. Moved(q) = Followed(q)
  BY <1>1, MovedIs
<1>3. d.from \in {"page", "top"} => Leads(r, d, title, old) = q
  BY DEF Leads
<1>4. d.from \in {"page", "top"} /\ Leading(d, e, p, Moved(q)) => Leads(p, e, titled, new) = Moved(q)
  BY DEF Leads, Leading
<1>5. d.from = "outside" => e = d /\ Leads(p, d, titled, new) = <<"outside">> /\ Leads(r, d, title, old) = <<"outside">>
  BY <1>1 DEF Leads
<1>6. d.from \in {"page", "top"} => Leads(p, d, titled, new) = q
  BY DEF Leads
<1> HIDE DEF q
<1>7. CASE d.from = "outside"
  BY <1>5, <1>7, OutsideStays
<1>8. CASE d.from \in {"page", "top"}
  <2>1. e = d \/ Leads(p, e, titled, new) = Followed(Leads(r, d, title, old))
    BY <1>8, <1>1, <1>2, <1>3, <1>4
  <2>2. ~(d.from = "page" /\ Followed(Leads(r, d, title, old)) = p) => Leads(p, e, titled, new) = Followed(Leads(r, d, title, old))
    BY <1>8, <1>1, <1>2, <1>3, <1>4, <1>6
  <2> QED BY <1>8, <2>1, <2>2
<1>9. CASE d.from \notin {"page", "top", "outside"}
  BY <1>1, <1>9
<1> QED BY <1>7, <1>8, <1>9

\* What both passes over a moved page are about
LEMMA SubtreeMoves ==
  ASSUME Frame, IsPrefix(old, was.at)
  PROVE  /\ Moved(was.at) \in Road /\ Moved(was.at) # was.at /\ Moved(Moved(was.at)) = Moved(was.at)
         /\ \A q \in Road : Moved(Moved(q)) = Moved(q)
<1>1. Paths /\ old \in Road /\ new \in Road /\ was.at \in Road /\ ~IsPrefix(new, was.at) /\ ~IsPrefix(old, new)
  BY DEF Frame, Paths
<1>2. ~IsPrefix(new, old)
  BY <1>1, PrefixOfPrefix
<1>3. Moved(was.at) \in Road /\ \A q \in Road : Moved(Moved(q)) = Moved(q)
  BY <1>1, <1>2, MovedIs, MovedOnce
<1>4. Moved(was.at) # was.at
  <2> SUFFICES ASSUME Moved(was.at) = was.at
               PROVE  FALSE
    OBVIOUS
  <2>1. Len(was.at) \in Nat /\ Len(new) \in Nat /\ Len(old) \in Nat
    BY <1>1 DEF Road
  <2>2. Below(was.at) /\ Len(was.at) = Len(new) + (Len(was.at) - Len(old)) /\ \A i \in 1..Len(new) : was.at[i] = new[i]
    BY <1>1, MovedIs
  <2>3. Len(old) <= Len(was.at)
    BY <2>2 DEF Below
  <2>4. Len(new) <= Len(was.at)
    BY <2>1, <2>2, <2>3
  <2>5. \A i \in 1..Len(new) : new[i] = was.at[i]
    BY <2>2
  <2> QED BY <1>1, <2>4, <2>5, PrefixIs
<1> QED BY <1>1, <1>3, <1>4

\* The links of the text before
LEMMA WasLinks ==
  ASSUME Frame, NEW i \in DOMAIN was.text
  PROVE  /\ IsLink(was.text[i]) /\ was.text[i].to.segs \in Turns
         /\ was.text[i].to = [from |-> was.text[i].to.from, segs |-> was.text[i].to.segs]
         /\ was.text[i].syntax = "wiki" <=> was.text[i].to.from = "wiki"
         /\ was.text[i].to.from \in {"page", "top", "outside", "wiki"}
<1>1. was.text[i] \in Link
  BY DEF Frame
<1> QED BY <1>1, LinkParts

LEMMA TextLengths ==
  ASSUME Frame
  PROVE  /\ Len(was.text) \in Nat /\ DOMAIN was.text = 1..Len(was.text)
         /\ FirstText = [i \in 1..Len(was.text) |-> FirstText[i]] /\ DOMAIN FirstText = DOMAIN was.text
         /\ Len(FirstText) = Len(was.text)
<1>1. Len(was.text) \in Nat /\ DOMAIN was.text = 1..Len(was.text)
  BY DEF Frame
<1>2. DOMAIN FirstText = 1..Len(was.text) /\ FirstText = [i \in 1..Len(was.text) |-> FirstText[i]]
  BY <1>1 DEF FirstText
<1>3. Len(FirstText) = Len(was.text)
  BY <1>1, <1>2, LenProperties
<1> QED BY <1>1, <1>2, <1>3

\* A link of a page beside the moved one, by the pass over affected pages
LEMMA AffectedLink ==
  ASSUME Frame, ~IsPrefix(old, was.at), NEW i \in DOMAIN was.text, NEW d, d = was.text[i].to,
         NEW l, l = AffectedText[i]
  PROVE  /\ l.syntax = was.text[i].syntax
         /\ d.from = "wiki" => l.to = RewriteWikiLink(d) /\ (l.to = d => l = was.text[i])
         /\ d.from # "wiki" => /\ i \in Matched(was.text) => l.to = RewriteLinkDestination(was.at, d)
                               /\ i \notin Matched(was.text) \/ RewriteLinkDestination(was.at, d) = d => l = was.text[i]
<1>1. IsLink(was.text[i]) /\ (was.text[i].syntax = "wiki" <=> d.from = "wiki")
  BY WasLinks
<1>2. CASE d.from = "wiki"
  <2>1. l = [was.text[i] EXCEPT !.to = RewriteWikiLink(d)]
    BY <1>1, <1>2 DEF AffectedText
  <2>2. l.syntax = was.text[i].syntax /\ l.to = RewriteWikiLink(d) /\ (RewriteWikiLink(d) = d => l = was.text[i])
    BY <1>1, <2>1, Redirected
  <2> QED BY <1>2, <2>2
<1>3. CASE d.from # "wiki"
  <2>1. l = Rewritten(was.text, i, RewriteLinkDestination(was.at, d))
    BY <1>1, <1>3 DEF AffectedText
  <2> QED BY <1>1, <1>3, <2>1, RewrittenIs
<1> QED BY <1>2, <1>3

\* A link of a moved page, by each of the two passes
LEMMA FirstLink ==
  ASSUME Frame, NEW i \in DOMAIN was.text, NEW d, d = was.text[i].to, NEW l, l = FirstText[i],
         NEW e, e = RewriteRelativeLink(was.at, Moved(was.at), d)
  PROVE  /\ IsLink(l) /\ l.syntax = was.text[i].syntax
         /\ i \in Matched(was.text) => l.to = e
         /\ i \notin Matched(was.text) \/ e = d => l = was.text[i]
<1>1. IsLink(was.text[i])
  BY WasLinks
<1>2. l = Rewritten(was.text, i, e)
  BY DEF FirstText
<1> QED BY <1>1, <1>2, RewrittenIs

LEMMA SecondLink ==
  ASSUME Frame, NEW i \in DOMAIN was.text, NEW d, d = FirstText[i].to, NEW l, l = SecondText[i],
         NEW e, e = RewriteLinkDestination(Moved(was.at), d)
  PROVE  /\ l.syntax = was.text[i].syntax
         /\ i \in Matched(FirstText) => l.to = e
         /\ i \notin Matched(FirstText) \/ e = d => l = FirstText[i]
<1>1. IsLink(FirstText[i]) /\ FirstText[i].syntax = was.text[i].syntax
  BY FirstLink
<1>2. l = Rewritten(FirstText, i, e)
  <2>1. i \in DOMAIN FirstText
    BY TextLengths
  <2> QED BY <2>1 DEF SecondText
<1> QED BY <1>1, <1>2, RewrittenIs

\* A relative link of a moved page that the first pass matches leads where it did after both.
LEMMA RelativeSettles ==
  ASSUME Frame, IsPrefix(old, was.at), NEW i \in DOMAIN was.text, NEW d, d = was.text[i].to, d.from = "page",
         i \in Matched(was.text), Followed(Leads(was.at, d, title, old)) # Moved(was.at),
         NEW l, l = FirstText[i] \/ l = SecondText[i]
  PROVE  Leads(Moved(was.at), l.to, titled, new) = Followed(Leads(was.at, d, title, old))
<1> DEFINE p == Moved(was.at)
           q == Resolved(was.at, d)
           e == RewriteRelativeLink(was.at, p, d)
           f == RewriteLinkDestination(p, e)
<1>1. p \in Road /\ Moved(p) = p /\ (\A r \in Road : Moved(Moved(r)) = Moved(r)) /\ was.at \in Road /\ Paths
  BY SubtreeMoves DEF Frame
<1>2. d.segs \in Turns
  BY WasLinks
<1>3. q \in Road
  BY <1>1, <1>2, ResolvedType
<1>4. Leads(was.at, d, title, old) = q /\ Moved(q) = Followed(q) /\ Moved(q) \in Road
  BY <1>1, <1>3, MovedIs DEF Leads
<1>5. Leading(d, e, p, Moved(q))
  <2>1. Moved(q) # p
    BY <1>4
  <2> HIDE DEF p
  <2> QED BY <2>1, <1>1, <1>2, RelativeLinkLeads
<1>6. e.from = "page" /\ e.segs \in Turns /\ Resolved(p, e) = Moved(q)
  BY <1>5 DEF Leading
<1>7. f = e
  <2>1. Moved(Moved(q)) = Moved(q)
    BY <1>1, <1>3
  <2> HIDE DEF p, q, e
  <2> QED BY <2>1, <1>1, <1>6, DestinationLeads
<1>8. FirstText[i].to = e
  BY FirstLink
<1>9. SecondText[i].to = e
  BY <1>7, <1>8, SecondLink
<1>10. l.to = e
  BY <1>8, <1>9
<1> QED BY <1>4, <1>6, <1>10 DEF Leads

\* Any other link of a moved page is left by the first pass.
LEMMA OthersWait ==
  ASSUME Frame, NEW i \in DOMAIN was.text, was.text[i].to.from # "page"
  PROVE  FirstText[i] = was.text[i]
<1>1. RewriteRelativeLink(was.at, Moved(was.at), was.text[i].to) = was.text[i].to
  BY DEF RewriteRelativeLink
<1> QED BY <1>1, FirstLink

\* Where it led does not depend on the page.
LEMMA TopLeads ==
  ASSUME NEW p, NEW r, NEW d, d.from # "page"
  PROVE  Resolved(p, d) = Resolved(r, d) /\ \A m, n : Leads(p, d, m, n) = Leads(r, d, m, n)
<1>1. Resolved(p, d) = Resolved(r, d)
  BY ResolvedTop
<1> QED BY <1>1 DEF Leads

LEMMA AffectedAreRight ==
  ASSUME Frame, ~IsPrefix(old, was.at), at = was.at, text = AffectedText, NEW i \in DOMAIN text,
         text[i] # was.text[i], ~LedNowhere(i), ~Ambiguous(i)
  PROVE  Means(i) = Meant(i)
<1> DEFINE d == was.text[i].to
<1>1. i \in DOMAIN was.text /\ text[i] = AffectedText[i]
  BY DEF AffectedText
<1>2. /\ d.segs \in Turns /\ d = [from |-> d.from, segs |-> d.segs] /\ d.from \in {"page", "top", "outside", "wiki"}
      /\ was.text[i].syntax = "wiki" <=> d.from = "wiki"
  BY <1>1, WasLinks
<1>3. /\ text[i].syntax = was.text[i].syntax
      /\ d.from = "wiki" => text[i].to = RewriteWikiLink(d) /\ (text[i].to = d => text[i] = was.text[i])
      /\ d.from # "wiki" => /\ i \in Matched(was.text) => text[i].to = RewriteLinkDestination(was.at, d)
                            /\ (i \notin Matched(was.text) \/ RewriteLinkDestination(was.at, d) = d) => text[i] = was.text[i]
  BY <1>1, AffectedLink
<1>4. Leads(was.at, d, title, old) # Nowhere
  BY DEF LedNowhere
<1> HIDE DEF d
<1>5. SUFFICES Leads(was.at, text[i].to, titled, new) = Followed(Leads(was.at, d, title, old))
  BY DEF Means, Meant, d
<1>6. CASE d.from = "wiki"
  <2>1. aside # titled /\ <<aside>> # old /\ Len(new) # 1
    BY <1>2, <1>3, <1>6 DEF Ambiguous
  <2>2. text[i].to = RewriteWikiLink(d) /\ text[i].to # d /\ d = [from |-> "wiki", segs |-> d.segs]
    BY <1>2, <1>3, <1>6
  <2> QED BY <2>1, <2>2, <1>4, WikiLeads
<1>7. CASE d.from # "wiki"
  <2>1. text[i].to = RewriteLinkDestination(was.at, d) /\ RewriteLinkDestination(was.at, d) # d
    BY <1>3, <1>7
  <2>2. Paths /\ was.at \in Road /\ Moved(was.at) = was.at
    BY DEF Frame, Moved
  <2> QED BY <2>1, <2>2, <1>2, <1>7, DestinationFollows
<1> QED BY <1>6, <1>7

LEMMA SubtreeAreRight ==
  ASSUME Frame, IsPrefix(old, was.at), at = Moved(was.at), text = FirstText \/ text = SecondText, NEW i \in DOMAIN text,
         text[i] # was.text[i], ~(was.at # at /\ PassedOver(i))
  PROVE  Means(i) = Meant(i)
<1> DEFINE d == was.text[i].to
           p == Moved(was.at)
<1>1. i \in DOMAIN was.text
  BY TextLengths DEF SecondText
<1>2. /\ d.segs \in Turns /\ d.from \in {"page", "top", "outside", "wiki"}
      /\ was.text[i].syntax = "wiki" <=> d.from = "wiki"
  BY <1>1, WasLinks
<1>3. p \in Road /\ p # was.at /\ Moved(p) = p /\ Paths
  BY SubtreeMoves DEF Frame
<1>4. CASE d.from = "page"
  <2>1. i \in Matched(was.text) /\ Followed(Leads(was.at, d, title, old)) # p
    BY <1>3, <1>4 DEF PassedOver, ItsOwn, Meant
  <2>2. text[i] = FirstText[i] \/ text[i] = SecondText[i]
    OBVIOUS
  <2>3. PICK l : l = text[i]
    OBVIOUS
  <2>4. Leads(p, l.to, titled, new) = Followed(Leads(was.at, d, title, old))
    BY <1>1, <1>4, <2>1, <2>2, <2>3, RelativeSettles
  <2> QED BY <2>3, <2>4 DEF Means, Meant
<1>5. CASE d.from # "page"
  <2>1. FirstText[i] = was.text[i]
    BY <1>1, <1>5, OthersWait
  <2>2. text[i] = SecondText[i] /\ text[i] # FirstText[i]
    BY <2>1
  <2>3. text[i].to = RewriteLinkDestination(p, d) /\ RewriteLinkDestination(p, d) # d
    BY <1>1, <2>1, <2>2, SecondLink
  <2>4. Resolved(was.at, d) = Resolved(p, d)
    BY <1>5, TopLeads
  <2>5. d.from # "wiki"
    BY <1>2, <2>3 DEF RewriteLinkDestination
  <2>6. Leads(p, text[i].to, titled, new) = Followed(Leads(was.at, d, title, old))
    <3> HIDE DEF p, d
    <3> QED BY <1>2, <1>3, <2>3, <2>4, <2>5, DestinationFollows
  <2> QED BY <2>6 DEF Means, Meant
<1> QED BY <1>4, <1>5

LEMMA RightFromInv == RewritingInv => ChangesAreRight
<1> SUFFICES ASSUME RewritingInv, done = "all", NEW i \in DOMAIN text,
                    text[i] # was.text[i], ~LedNowhere(i), ~Ambiguous(i), ~(was.at # at /\ PassedOver(i))
             PROVE  Means(i) = Meant(i)
  BY DEF ChangesAreRight
<1>1. Frame
  BY DEF RewritingInv
<1>2. CASE ~IsPrefix(old, was.at) /\ at = was.at /\ text = AffectedText
  BY <1>1, <1>2, AffectedAreRight
<1>3. CASE IsPrefix(old, was.at) /\ at = Moved(was.at) /\ (text = FirstText \/ text = SecondText)
  BY <1>1, <1>3, SubtreeAreRight
<1> QED BY <1>2, <1>3 DEF RewritingInv

\* In a plain text both passes match every inline link.
LEMMA PlainBefore ==
  ASSUME Frame, \A i \in DOMAIN was.text : was.text[i].syntax \notin {"reference", "escaped"},
         NEW i \in DOMAIN was.text, was.text[i].syntax = "inline"
  PROVE  i \in Matched(was.text) /\ i \in Matched(FirstText)
<1>1. /\ Len(was.text) \in Nat /\ DOMAIN was.text = 1..Len(was.text)
      /\ Len(FirstText) \in Nat /\ DOMAIN FirstText = 1..Len(FirstText) /\ DOMAIN FirstText = DOMAIN was.text
  BY TextLengths
<1>2. \A j \in DOMAIN was.text : FirstText[j].syntax = was.text[j].syntax
  BY FirstLink
<1>3. i \in Matched(was.text)
  BY <1>1, PlainAreMatched
<1>4. \A j \in DOMAIN FirstText : FirstText[j].syntax \notin {"reference", "escaped"}
  BY <1>1, <1>2
<1>5. i \in Matched(FirstText)
  <2> DEFINE links == FirstText
  <2>1. /\ Len(links) \in Nat /\ DOMAIN links = 1..Len(links) /\ i \in DOMAIN links /\ links[i].syntax = "inline"
        /\ \A j \in DOMAIN links : links[j].syntax \notin {"reference", "escaped"}
    BY <1>1, <1>2, <1>4
  <2> HIDE DEF links
  <2>2. i \in Matched(links)
    BY <2>1, PlainAreMatched
  <2> QED BY <2>2 DEF links
<1> QED BY <1>3, <1>5

\* A destination from the top without the old path in it does not lead to a page that moved.
LEMMA Unmentioned ==
  ASSUME Paths, NEW d, d.from = "top", d.segs \in Turns, Up \notin Range(d.segs), ~Mentions(d), NEW p
  PROVE  Resolved(p, d) = d.segs /\ d.segs \in Road /\ Followed(d.segs) = d.segs
<1> DEFINE q == d.segs
<1>1. q \in Road
  <2>1. Len(q) \in Nat /\ DOMAIN q = 1..Len(q) /\ q \in Seq(Segment \cup {Up})
    BY DEF Turns
  <2>2. \A i \in 1..Len(q) : q[i] \in Segment
    <3> TAKE i \in 1..Len(q)
    <3>1. q[i] \in Segment \cup {Up} /\ q[i] \in Range(q)
      BY <2>1 DEF Range
    <3> QED BY <3>1
  <2>3. q = [i \in 1..Len(q) |-> q[i]]
    BY <2>1
  <2> QED BY <2>1, <2>2, <2>3, IsASeq DEF Road
<1>2. Resolved(p, d) = q
  BY <1>1, ResolvedDown
<1>3. ~IsPrefix(old, q)
  <2> SUFFICES ASSUME IsPrefix(old, q)
               PROVE  FALSE
    OBVIOUS
  <2>1. old \in Road /\ Len(old) \in Nat /\ Len(q) \in Nat /\ Len(old) # 0
    BY <1>1, EmptySeq DEF Paths, Road
  <2>2. Len(old) <= Len(q)
    BY <1>1, <2>1, PrefixIs
  <2>3. 1 \in 1..Len(q)
    BY <2>1, <2>2
  <2>4. SubSeq(q, 1, Len(q)) = q
    BY <1>1, SubSeqFull DEF Road
  <2> QED BY <2>3, <2>4 DEF Mentions
<1>4. Followed(q) = q
  BY <1>1, <1>3, MovedIs DEF Followed
<1> QED BY <1>1, <1>2, <1>4

LEMMA FollowFromInv == RewritingInv => LinksFollow
<1> SUFFICES ASSUME RewritingInv, done = "all", Plain, NEW i \in DOMAIN text,
                    text[i].syntax = "inline", ~ItsOwn(i)
             PROVE  Means(i) = Meant(i)
  BY DEF LinksFollow
<1> DEFINE d == was.text[i].to
           p == Moved(was.at)
<1>1. Frame /\ Paths /\ was.at \in Road
  BY DEF RewritingInv, Frame
<1>2. DOMAIN text = DOMAIN was.text
  BY <1>1, TextLengths DEF RewritingInv, AffectedText, SecondText
<1>3. (\A j \in DOMAIN was.text : was.text[j].syntax \notin {"reference", "escaped"})
      /\ (d.from = "top" => Up \notin Range(d.segs))
  BY <1>2 DEF Plain
<1>4. /\ d.segs \in Turns /\ d.from \in {"page", "top", "outside", "wiki"}
      /\ was.text[i].syntax = "wiki" <=> d.from = "wiki"
  BY <1>1, <1>2, WasLinks
<1>5. text[i].syntax = was.text[i].syntax
  BY <1>1, <1>2, AffectedLink, FirstLink, SecondLink DEF RewritingInv
<1>6. d.from \in {"page", "top", "outside"} /\ i \in Matched(was.text) /\ i \in Matched(FirstText)
  <2>1. was.text[i].syntax = "inline"
    BY <1>5
  <2> QED BY <1>1, <1>2, <1>3, <1>4, <2>1, PlainBefore
<1>7. SUFFICES Leads(at, text[i].to, titled, new) = Followed(Leads(was.at, d, title, old))
  BY DEF Means, Meant
<1>8. CASE ~IsPrefix(old, was.at) /\ at = was.at /\ text = AffectedText
  <2>1. text[i].to = RewriteLinkDestination(was.at, d)
    BY <1>1, <1>2, <1>6, <1>8, AffectedLink
  <2>2. Moved(was.at) = was.at
    BY <1>8 DEF Moved
  <2>3. ~(d.from = "page" /\ Followed(Leads(was.at, d, title, old)) = was.at)
    BY <1>8 DEF ItsOwn, Meant
  <2> HIDE DEF d
  <2> QED BY <1>1, <1>4, <1>6, <1>8, <2>1, <2>2, <2>3, DestinationFollows
<1>9. CASE IsPrefix(old, was.at) /\ at = p /\ d.from = "page" /\ (text = FirstText \/ text = SecondText)
  <2>1. Followed(Leads(was.at, d, title, old)) # p
    BY <1>9 DEF ItsOwn, Meant
  <2>2. PICK l : l = text[i]
    OBVIOUS
  <2>3. Leads(p, l.to, titled, new) = Followed(Leads(was.at, d, title, old))
    BY <1>1, <1>2, <1>6, <1>9, <2>1, <2>2, RelativeSettles
  <2> QED BY <1>9, <2>2, <2>3
<1>10. CASE IsPrefix(old, was.at) /\ at = p /\ d.from # "page" /\ text = SecondText
  <2>1. FirstText[i] = was.text[i]
    BY <1>1, <1>2, <1>10, OthersWait
  <2>2. text[i].to = RewriteLinkDestination(p, d)
    BY <1>1, <1>2, <1>6, <1>10, <2>1, SecondLink
  <2>3. Resolved(was.at, d) = Resolved(p, d)
    BY <1>10, TopLeads
  <2>4. p \in Road /\ Moved(p) = p
    BY <1>1, <1>10, SubtreeMoves
  <2> HIDE DEF d, p
  <2> QED BY <1>1, <1>4, <1>6, <1>10, <2>2, <2>3, <2>4, DestinationFollows
<1>11. CASE IsPrefix(old, was.at) /\ at = p /\ d.from # "page" /\ text = FirstText
            /\ \A j \in DOMAIN FirstText : ~Mentions(FirstText[j].to)
  <2>1. text[i] = was.text[i]
    BY <1>1, <1>2, <1>11, OthersWait
  <2>2. CASE d.from = "outside"
    BY <1>1, <2>1, <2>2, OutsideStays DEF Leads
  <2>3. CASE d.from = "top"
    <3>1. ~Mentions(d)
      BY <1>11, <2>1
    <3> HIDE DEF d
    <3>2. Resolved(was.at, d) = d.segs /\ Resolved(at, d) = d.segs /\ Followed(d.segs) = d.segs
      BY <1>1, <1>3, <1>4, <2>3, <3>1, Unmentioned
    <3>3. Leads(at, d, titled, new) = d.segs /\ Leads(was.at, d, title, old) = d.segs
      BY <2>3, <3>2 DEF Leads
    <3>4. Leads(at, d, titled, new) = Followed(Leads(was.at, d, title, old))
      BY <3>2, <3>3
    <3>5. text[i].to = d
      BY <2>1 DEF d
    <3> QED BY <3>4, <3>5
  <2> QED BY <1>6, <1>11, <2>2, <2>3
<1>12. \/ ~IsPrefix(old, was.at) /\ at = was.at /\ text = AffectedText
       \/ /\ IsPrefix(old, was.at) /\ at = p
          /\ \/ text = SecondText
             \/ text = FirstText /\ \A j \in DOMAIN FirstText : ~Mentions(FirstText[j].to)
  BY DEF RewritingInv
<1> QED BY <1>8, <1>9, <1>10, <1>11, <1>12

\* What the page is after each pass of a rename or a move, for texts and paths of any length
\* (rewriteAffectedPages, rewritePathChangedSubtree).
THEOREM RewritingInvariant == RewritingSpec => []RewritingInv
<1>1. RewritingInit => RewritingInv
  BY RewritingStarts
<1>2. RewritingInv /\ [RewritingNext]_rewritingVars => RewritingInv'
  BY RewritingKeeps
<1> QED BY <1>1, <1>2, PTL DEF RewritingSpec

\* A link whose text a rename or a move changed leads to the page it led to, but for the
\* exceptions the property names.
THEOREM ChangesStayRight == RewritingSpec => []ChangesAreRight
<1> QED BY RewritingInvariant, RightFromInv, PTL

\* In a text whose links the parser and the scanner both see, every inline link leads to the
\* page it led to, a relative link to its own page excepted.
THEOREM LinksDoFollow == RewritingSpec => []LinksFollow
<1> QED BY RewritingInvariant, FollowFromInv, PTL

-----------------------------------------------------------------------------
(* What links resolve to *)

IsText(g) ==
  {"place", "title"} \subseteq DOMAIN g /\ g.place \in Place /\ g.title \in Title
IsTreeOfPages(md) == IsTree(md) /\ \A p \in DOMAIN md : IsText(md[p])

\* A relocation that is planned has a place and a title to go to.
Planned(c) == c.do = "target" => c.arg.rule.new \in Place /\ c.arg.rule.newTitle \in Title

\* What a reference leads to: for a path the page that has it, else no page that is gone
Right(ref, target, md) ==
  /\ \A p \in DOMAIN md : md[p].place = ref => target = p
  /\ ref \in Place /\ (\A p \in DOMAIN md : md[p].place # ref) => target = NoPage
  /\ target # NoPage => target \in DOMAIN md
AllRight(targets, md) == \A ref \in DOMAIN targets : Right(ref, targets[ref], md)

\* A call that heals the links to the path of a page, breaks those to a path, or those to a page
Healing(c, p, md) ==
  \/ c.do = "settle" /\ Now(p, md) \in c.arg
  \/ c.do = "heal" /\ c.arg = Now(p, md)
Breaking(c, ref) ==
  \/ c.do = "prefix" /\ Under(ref, c.arg)
  \/ c.do = "path" /\ c.arg = ref
Dropping(c, p) ==
  \/ c.do = "incoming" /\ c.arg = p
  \/ c.do = "each" /\ c.arg.what = "incoming" /\ p \in c.arg.of

\* A row leads where it should, or a call is left that will see to it.
Attended(r, s, md) ==
  /\ \A p \in DOMAIN md : r.to = md[p].place =>
       r.target = p \/ (r.target = NoPage /\ \E c \in Left(s) : Healing(c, p, md))
  /\ r.to \in Place /\ r.target # NoPage /\ (\A p \in DOMAIN md : md[p].place # r.to) =>
       \E c \in Left(s) : Breaking(c, r.to)
  /\ r.target # NoPage => r.target \in DOMAIN md \/ \E c \in Left(s) : Dropping(c, r.target)

\* What is left breaks no link to the path of a page that is there, heals no path by a title,
\* and resolved all targets among the pages that are there.
Safe(c, md) ==
  /\ c.do = "prefix" => \A p \in DOMAIN md : ~Under(md[p].place, c.arg)
  /\ c.do = "path" => \A p \in DOMAIN md : md[p].place # c.arg
  /\ c.do = "each" /\ c.arg.what = "incoming" => c.arg.of \cap DOMAIN md = {}
  /\ c.do = "settle" => \A s \in c.arg : s.page.title \notin Place
  /\ c.do \in {"title", "healTitle"} => c.arg.page.title \notin Place
  /\ c.do = "write" => AllRight(c.arg.targets, md)
  /\ c.do = "batch" => \A u \in c.arg : AllRight(u.targets, md)

\* Links to a page that is there are broken before any are healed, and the page is healed after it;
InFront(s, md) ==
  \A k \in DOMAIN s : s[k].do = "incoming" /\ s[k].arg \in DOMAIN md =>
    /\ k = 1 \/ (k = 2 /\ s[1].do = "prefix")
    /\ \E c \in Left(s) : c.do = "settle" /\ Now(s[k].arg, md) \in c.arg

\* all are healed before a refactoring writes texts.
Writing(c) == c.do \in {"rewrite", "target", "subtree", "save"} \/ (c.do = "each" /\ c.arg.what = "save")
WritesLast(s) == \A j \in DOMAIN s, k \in DOMAIN s : j < k /\ Writing(s[j]) => s[k].do \notin {"settle", "heal"}

Clean(s, md, R) ==
  /\ InFront(s, md) /\ WritesLast(s)
  /\ \A c \in Left(s) : Safe(c, md)
  /\ \A r \in R : Attended(r, s, md)

\* As long as no page changed beside it, one thread at most has calls left, and they will do.
Steady ==
  /\ AtRest => Clean(<<>>, pages, rows)
  /\ \A t \in Thread : calls[t] # <<>> => Alone(t) /\ Clean(calls[t], pages, rows)

ResolutionInv ==
  /\ IsTreeOfPages(pages)
  /\ \A t \in Thread : \A c \in Left(calls[t]) : Planned(c)
  /\ calm => Steady

-----------------------------------------------------------------------------
(* Resolving *)

LEMMA PathsAreNoTitles == Place \cap Title = {} /\ Place \subseteq Seq(Names) \ {<<>>} /\ NoPage \notin Page
BY LinkIndexAssumption

LEMMA ResolveRight ==
  ASSUME IsTreeOfPages(pages), NEW ref
  PROVE  Right(ref, Resolve(ref), pages)
<1> DEFINE found == IF ref \in Title THEN Named(ref) ELSE {p \in Live : pages[p].place = ref}
<1>1. Resolve(ref) = IF Cardinality(found) = 1 THEN CHOOSE p \in found : TRUE ELSE NoPage
  BY DEF Resolve
<1>2. found \subseteq Live
  BY DEF Named
<1>3. ASSUME NEW p \in DOMAIN pages, pages[p].place = ref
      PROVE  Resolve(ref) = p
  <2>1. ref \notin Title
    BY <1>3, PathsAreNoTitles DEF IsTreeOfPages, IsText
  <2>2. found = {p}
    BY <1>3, <2>1 DEF IsTreeOfPages, IsTree, Live
  <2>3. Cardinality({p}) = 1 /\ (CHOOSE q \in {p} : TRUE) = p
    BY FS_Singleton
  <2> HIDE DEF found
  <2> QED BY <1>1, <2>2, <2>3
<1>4. ASSUME ref \in Place, \A p \in DOMAIN pages : pages[p].place # ref
      PROVE  Resolve(ref) = NoPage
  <2>1. found = {}
    BY <1>4, PathsAreNoTitles DEF Live
  <2>2. Cardinality({}) # 1
    BY FS_EmptySet
  <2> HIDE DEF found
  <2> QED BY <1>1, <2>1, <2>2
<1>5. Resolve(ref) # NoPage => Resolve(ref) \in DOMAIN pages
  <2>1. Cardinality(found) = 1 => found # {}
    <3>1. Cardinality({}) # 1
      BY FS_EmptySet
    <3> HIDE DEF found
    <3> QED BY <3>1
  <2> HIDE DEF found
  <2>2. found # {} => (CHOOSE p \in found : TRUE) \in found
    OBVIOUS
  <2> QED BY <1>1, <1>2, <2>1, <2>2 DEF Live
<1> QED BY <1>3, <1>4, <1>5 DEF Right

LEMMA RightIsResolved ==
  ASSUME IsTreeOfPages(pages), NEW ref \in Place, NEW target, Right(ref, target, pages)
  PROVE  target = Resolve(ref)
<1>1. Right(ref, Resolve(ref), pages)
  BY ResolveRight
<1>2. CASE \E p \in DOMAIN pages : pages[p].place = ref
  BY <1>1, <1>2 DEF Right
<1>3. CASE \A p \in DOMAIN pages : pages[p].place # ref
  BY <1>1, <1>3 DEF Right
<1> QED BY <1>2, <1>3

LEMMA TargetsRight ==
  ASSUME IsTreeOfPages(pages), NEW links
  PROVE  AllRight(Targets(links), pages)
<1>1. DOMAIN Targets(links) = links /\ \A ref \in links : Targets(links)[ref] = Resolve(ref)
  BY DEF Targets
<1> QED BY <1>1, ResolveRight DEF AllRight

\* A row that leads where it should needs no call,
LEMMA RightRow ==
  ASSUME NEW r, NEW md, Right(r.to, r.target, md)
  PROVE  \A s : Attended(r, s, md)
BY DEF Right, Attended

\* and where no call is left each row does.
LEMMA RestIsRight ==
  ASSUME NEW r, NEW md, NEW s, Attended(r, s, md),
         \A p \in DOMAIN md : \A c \in Left(s) : ~Healing(c, p, md),
         \A c \in Left(s) : \A x : ~Breaking(c, x) /\ ~Dropping(c, x)
  PROVE  Right(r.to, r.target, md)
BY DEF Right, Attended

LEMMA NothingLeft ==
  ASSUME NEW md, NEW R
  PROVE  /\ Clean(<<>>, md, R) <=> \A r \in R : Right(r.to, r.target, md)
         /\ (\A r \in R : Right(r.to, r.target, md)) => \A r \in R : \A s : Attended(r, s, md)
<1>1. Left(<<>>) = {} /\ DOMAIN <<>> = {}
  BY Ones
<1> DEFINE s == <<>>
<1> HIDE DEF s
<1>2. Left(s) = {} /\ DOMAIN s = {}
  BY <1>1 DEF s
<1>3. \A r : Attended(r, s, md) <=> Right(r.to, r.target, md)
  BY <1>2 DEF Attended, Right
<1>4. Clean(s, md, R) <=> \A r \in R : Right(r.to, r.target, md)
  BY <1>2, <1>3 DEF Clean, InFront, WritesLast
<1> QED BY <1>4, RightRow DEF s

-----------------------------------------------------------------------------
(* What the next calls must be *)

\* Calls that neither break nor write, or none
Mild(next, md) ==
  /\ IsSeries(next)
  /\ \A c \in Left(next) : Safe(c, md) /\ c.do # "target" /\ ~(c.do = "incoming" /\ c.arg \in DOMAIN md)
  /\ WritesLast(next)

LEMMA MildParts ==
  ASSUME NEW next, NEW md, Mild(next, md)
  PROVE  /\ IsSeries(next) /\ WritesLast(next)
         /\ \A c \in Left(next) : Safe(c, md) /\ c.do # "target" /\ ~(c.do = "incoming" /\ c.arg \in DOMAIN md)
BY DEF Mild

\* The rest of a series, with mild calls before it
LEMMA Onward ==
  ASSUME NEW s, IsSeries(s), s # <<>>, NEW md, NEW md2, DOMAIN md2 = DOMAIN md, NEW next, Mild(next, md2),
         InFront(s, md), WritesLast(s), \A c \in Left(s) : Safe(c, md2),
         s[1].do = "prefix" => next = <<>> /\ md2 = md,
         (\E c \in Left(next) : Writing(c)) => Writing(s[1])
  PROVE  /\ InFront(next \o Tail(s), md2) /\ WritesLast(next \o Tail(s))
         /\ \A c \in Left(next \o Tail(s)) : Safe(c, md2)
         /\ Left(next \o Tail(s)) = Left(next) \cup Left(Tail(s)) /\ Left(s) = {s[1]} \cup Left(Tail(s))
<1> DEFINE u == Tail(s)
           v == next \o u
           n == Len(next)
<1>1. /\ Left(s) = {s[1]} \cup Left(u) /\ 1 \in DOMAIN s /\ IsSeries(u)
      /\ \A k \in DOMAIN u : k + 1 \in DOMAIN s /\ k + 1 > 1 /\ u[k] = s[k + 1]
  BY FirstAndRest
<1>2. DOMAIN u \subseteq Nat /\ DOMAIN s \subseteq Nat
  BY <1>1 DEF IsSeries
<1> HIDE DEF u
<1>3. /\ Left(v) = Left(next) \cup Left(u) /\ n \in Nat /\ DOMAIN next = 1..n /\ DOMAIN v \subseteq Nat
      /\ \A k \in DOMAIN v : \/ k \in DOMAIN next /\ v[k] = next[k]
                             \/ k - n \in DOMAIN u /\ v[k] = u[k - n] /\ k > n
  BY <1>1, Joined DEF Mild
<1>4. (\A k \in DOMAIN next : next[k] \in Left(next)) /\ \A k \in DOMAIN u : u[k] \in Left(u)
  BY DEF Left
<1> HIDE DEF v, n
<1>5. \A c \in Left(v) : Safe(c, md2)
  BY <1>1, <1>3 DEF Mild
<1>6. ASSUME NEW k \in DOMAIN v, v[k].do = "incoming", v[k].arg \in DOMAIN md2
      PROVE  /\ k = 1 \/ (k = 2 /\ v[1].do = "prefix")
             /\ \E c \in Left(v) : c.do = "settle" /\ Now(v[k].arg, md2) \in c.arg
  <2>1. k \notin DOMAIN next
    <3>1. k \in DOMAIN next => v[k] = next[k]
      BY <1>3
    <3> QED BY <1>4, <1>6, <3>1 DEF Mild
  <2>2. k - n \in DOMAIN u /\ v[k] = u[k - n] /\ k > n
    BY <1>3, <2>1
  <2>3. (k - n) + 1 \in DOMAIN s /\ u[k - n] = s[(k - n) + 1] /\ (k - n) + 1 > 1 /\ k \in Nat /\ n \in Nat
    BY <1>1, <1>3, <2>2
  <2>4. /\ (k - n) + 1 = 2 /\ s[1].do = "prefix"
        /\ \E c \in Left(s) : c.do = "settle" /\ Now(v[k].arg, md) \in c.arg
    BY <1>6, <2>2, <2>3 DEF InFront
  <2>5. next = <<>> /\ md2 = md
    BY <2>4
  <2>6. DOMAIN next = {}
    BY <2>5, Ones
  <2>7. n = 0
    BY <1>3, <2>6
  <2> QED BY <1>1, <1>3, <2>3, <2>4, <2>5, <2>7
<1>7. ASSUME NEW j \in DOMAIN v, NEW k \in DOMAIN v, j < k, Writing(v[j])
      PROVE  v[k].do \notin {"settle", "heal"}
  <2>1. CASE j \in DOMAIN next /\ v[j] = next[j] /\ k \in DOMAIN next /\ v[k] = next[k]
    BY <1>7, <2>1 DEF Mild, WritesLast
  <2>2. CASE j \in DOMAIN next /\ v[j] = next[j] /\ k - n \in DOMAIN u /\ v[k] = u[k - n]
    <3>1. Writing(s[1])
      BY <1>4, <1>7, <2>2
    <3>2. (k - n) + 1 \in DOMAIN s /\ u[k - n] = s[(k - n) + 1] /\ (k - n) + 1 > 1
      BY <1>1, <2>2
    <3> QED BY <1>1, <2>2, <3>1, <3>2 DEF WritesLast
  <2>3. CASE j - n \in DOMAIN u /\ v[j] = u[j - n] /\ j > n
    <3>1. j \in Nat /\ k \in Nat /\ n \in Nat
      BY <1>3
    <3>2. k \notin DOMAIN next
      BY <1>3, <1>7, <2>3, <3>1
    <3>3. k - n \in DOMAIN u /\ v[k] = u[k - n]
      BY <1>3, <3>2
    <3>4. /\ (k - n) + 1 \in DOMAIN s /\ u[k - n] = s[(k - n) + 1]
          /\ (j - n) + 1 \in DOMAIN s /\ u[j - n] = s[(j - n) + 1] /\ (j - n) + 1 < (k - n) + 1
      BY <1>1, <1>7, <2>3, <3>1, <3>3
    <3> QED BY <1>7, <2>3, <3>3, <3>4 DEF WritesLast
  <2> QED BY <1>3, <2>1, <2>2, <2>3
<1>8. InFront(v, md2) /\ WritesLast(v)
  BY <1>6, <1>7 DEF InFront, WritesLast
<1> QED BY <1>1, <1>3, <1>5, <1>8 DEF v, u

\* What the head of a series would see to is seen to by the calls that take its place.
Replaces(next, c, r, md) ==
  /\ \A p \in DOMAIN md : r.to = md[p].place /\ r.target = NoPage /\ Healing(c, p, md) =>
       \E d \in Left(next) : Healing(d, p, md)
  /\ r.to \in Place /\ r.target # NoPage /\ (\A p \in DOMAIN md : md[p].place # r.to) /\ Breaking(c, r.to) =>
       \E d \in Left(next) : Breaking(d, r.to)
  /\ r.target # NoPage /\ r.target \notin DOMAIN md /\ Dropping(c, r.target) =>
       \E d \in Left(next) : Dropping(d, r.target)

LEMMA RowOnward ==
  ASSUME NEW r, NEW s, NEW s2, NEW next, NEW rest, NEW head, NEW md, Attended(r, s, md), Left(s) = {head} \cup rest,
         Left(s2) = Left(next) \cup rest, Replaces(next, head, r, md)
  PROVE  Attended(r, s2, md)
<1>1. ASSUME NEW p \in DOMAIN md, r.to = md[p].place
      PROVE  r.target = p \/ (r.target = NoPage /\ \E c \in Left(s2) : Healing(c, p, md))
  BY <1>1 DEF Attended, Replaces
<1>2. ASSUME r.to \in Place, r.target # NoPage, \A p \in DOMAIN md : md[p].place # r.to
      PROVE  \E c \in Left(s2) : Breaking(c, r.to)
  BY <1>2 DEF Attended, Replaces
<1>3. ASSUME r.target # NoPage, r.target \notin DOMAIN md
      PROVE  \E c \in Left(s2) : Dropping(c, r.target)
  BY <1>3 DEF Attended, Replaces
<1> QED BY <1>1, <1>2, <1>3 DEF Attended

\* A call that heals, breaks and drops nothing
Idle(c) == c.do \notin {"settle", "heal", "prefix", "path", "incoming", "each"}

LEMMA IdleReplaced ==
  ASSUME NEW c, Idle(c)
  PROVE  \A next, r, md : Replaces(next, c, r, md)
BY DEF Idle, Replaces, Healing, Breaking, Dropping

\* A thread makes a step, after which what it has left will do.
LEMMA Stepped ==
  ASSUME LinkInv, ResolutionInv, NEW t \in Thread, NEW s, calls' = [calls EXCEPT ![t] = s],
         \A c \in Left(s) : Planned(c), IsTreeOfPages(pages'), calm' => calm,
         calls[t] = <<>> /\ calm' => Alone(t),
         Clean(calls[t], pages, rows) => Clean(s, pages', rows')
  PROVE  ResolutionInv'
<1>1. /\ calls'[t] = s /\ \A u \in Thread : u # t => calls'[u] = calls[u]
  BY DEF LinkInv, LinkTypeOK
<1>2. \A u \in Thread : \A c \in Left(calls'[u]) : Planned(c)
  BY <1>1 DEF ResolutionInv
<1>3. ASSUME calm'
      PROVE  Steady'
  <2>1. calm /\ Steady
    BY <1>3 DEF ResolutionInv
  <2>2. Alone(t)
    BY <1>3, <2>1 DEF Steady
  <2>3. Clean(calls[t], pages, rows)
    <3>1. CASE calls[t] = <<>>
      <4>1. AtRest
        BY <2>2, <3>1 DEF Alone, AtRest
      <4> QED BY <2>1, <3>1, <4>1 DEF Steady
    <3>2. CASE calls[t] # <<>>
      BY <2>1, <3>2 DEF Steady
    <3> QED BY <3>1, <3>2
  <2>4. Clean(s, pages', rows')
    BY <2>3
  <2>5. \A u \in Thread \ {t} : calls'[u] = <<>>
    BY <1>1, <2>2 DEF Alone
  <2>6. AtRest' => Clean(<<>>, pages', rows')
    BY <1>1, <2>4 DEF AtRest
  <2>7. \A u \in Thread : calls'[u] # <<>> => u = t /\ Alone(t)' /\ Clean(calls'[u], pages', rows')
    BY <1>1, <2>4, <2>5 DEF Alone
  <2> QED BY <2>6, <2>7 DEF Steady
<1> QED BY <1>2, <1>3 DEF ResolutionInv

\* The calls that take the place of the first one, as long as the pages stay
Succeeds(next, t) ==
  /\ Mild(next, pages) /\ (Head1(t).do = "prefix" => next = <<>>)
  /\ (\E c \in Left(next) : Writing(c)) => Writing(Head1(t))

\* A call that is made, with others in its place; what they ask is only needed where all was clean.
LEMMA CallMade ==
  ASSUME LinkInv, ResolutionInv, NEW t \in Thread, calls[t] # <<>>, NEW next, IsSeries(next), Goes(t, next), pages' = pages, calm' = calm,
         \A c \in Left(next) : c.do # "target",
         Clean(calls[t], pages, rows) => Succeeds(next, t),
         \A s : Clean(calls[t], pages, rows) /\ Left(calls[t]) = {Head1(t)} \cup Left(Tail(calls[t]))
                 /\ Left(s) = Left(next) \cup Left(Tail(calls[t]))
                 => \A r \in rows' : Attended(r, s, pages)
  PROVE  ResolutionInv'
<1> DEFINE u == calls[t]
           s == next \o Tail(u)
<1>1. IsSeries(u)
  BY DEF LinkInv, LinkTypeOK
<1>2. calls' = [calls EXCEPT ![t] = s]
  BY DEF Goes
<1>3. Left(s) = Left(next) \cup Left(Tail(u)) /\ Left(u) = {Head1(t)} \cup Left(Tail(u))
  <2> HIDE DEF u
  <2>1. Left(u) = {u[1]} \cup Left(Tail(u)) /\ IsSeries(Tail(u)) /\ u[1] = Head1(t)
    <3>1. u # <<>> /\ u[1] = Head1(t)
      BY DEF u, Head1
    <3> QED BY <1>1, <3>1, FirstAndRest
  <2> QED BY <2>1, Joined
<1>4. \A c \in Left(s) : Planned(c)
  BY <1>3 DEF Planned, ResolutionInv
<1>5. ASSUME Clean(u, pages, rows)
      PROVE  Clean(s, pages, rows')
  <2>1. /\ InFront(s, pages) /\ WritesLast(s) /\ \A c \in Left(s) : Safe(c, pages)
    <3>1. Succeeds(next, t)
      BY <1>5
    <3> HIDE DEF u
    <3>2. InFront(u, pages) /\ WritesLast(u) /\ \A c \in Left(u) : Safe(c, pages)
      BY <1>5 DEF Clean
    <3>3. u # <<>> /\ u[1] = Head1(t)
      BY DEF u, Head1
    <3> QED BY <1>1, <3>1, <3>2, <3>3, Onward DEF Succeeds
  <2>2. \A r \in rows' : Attended(r, s, pages)
    BY <1>3, <1>5
  <2> QED BY <2>1, <2>2 DEF Clean
<1> HIDE DEF s
<1> QED BY <1>2, <1>4, <1>5, Stepped DEF ResolutionInv

\* The rows stay as they are.
LEMMA RowsKept ==
  ASSUME LinkInv, ResolutionInv, NEW t \in Thread, calls[t] # <<>>, NEW next, IsSeries(next), Goes(t, next), pages' = pages, calm' = calm,
         rows' = rows, \A c \in Left(next) : c.do # "target",
         Clean(calls[t], pages, rows) => Succeeds(next, t),
         \A r \in rows : Replaces(next, Head1(t), r, pages)
  PROVE  ResolutionInv'
<1>1. ASSUME NEW s, Clean(calls[t], pages, rows), Left(calls[t]) = {Head1(t)} \cup Left(Tail(calls[t])),
             Left(s) = Left(next) \cup Left(Tail(calls[t])), NEW r \in rows'
      PROVE  Attended(r, s, pages)
  <2>1. Attended(r, calls[t], pages) /\ r \in rows
    BY <1>1 DEF Clean
  <2> QED BY <1>1, <2>1, RowOnward
<1> QED BY <1>1, CallMade

\* A series of calls in which none writes, or none heals
LEMMA MildSeries ==
  ASSUME NEW next, IsSeries(next), NEW md,
         \A c \in Left(next) : Safe(c, md) /\ c.do # "target" /\ ~(c.do = "incoming" /\ c.arg \in DOMAIN md),
         (\A c \in Left(next) : ~Writing(c)) \/ (\A c \in Left(next) : c.do \notin {"settle", "heal"})
  PROVE  Mild(next, md)
<1>1. \A k \in DOMAIN next : next[k] \in Left(next)
  BY DEF Left
<1>2. WritesLast(next)
  BY <1>1 DEF WritesLast
<1> QED BY <1>2 DEF Mild

LEMMA MildNone == \A md : Mild(<<>>, md)
<1> DEFINE s == <<>>
<1>1. IsSeries(s) /\ Left(s) = {}
  BY Ones
<1> HIDE DEF s
<1>2. \A md : Mild(s, md)
  BY <1>1, MildSeries
<1> QED BY <1>2 DEF s

LEMMA MildOne ==
  ASSUME NEW c, NEW md, Safe(c, md), c.do # "target", ~(c.do = "incoming" /\ c.arg \in DOMAIN md)
  PROVE  Mild(<<c>>, md) /\ Left(<<c>>) = {c}
<1> DEFINE s == <<c>>
<1>1. IsSeries(s) /\ Left(s) = {c}
  BY Ones
<1> HIDE DEF s
<1>2. (\A d \in Left(s) : ~Writing(d)) \/ (\A d \in Left(s) : d.do \notin {"settle", "heal"})
  BY <1>1 DEF Writing
<1>3. Mild(s, md)
  BY <1>1, <1>2, MildSeries
<1> QED BY <1>1, <1>3 DEF s

LEMMA SettleSeries ==
  ASSUME NEW S
  PROVE  /\ IsSeries(Settle(S)) /\ \A c \in Left(Settle(S)) : c.do = "settle" /\ c.arg = S
         /\ \A s \in S : \E c \in Left(Settle(S)) : c.do = "settle" /\ s \in c.arg
<1>1. CASE S = {}
  BY <1>1, Ones DEF Settle
<1>2. CASE S # {}
  <2> DEFINE c == Call("settle", S)
  <2>1. c.do = "settle" /\ c.arg = S
    BY Fields
  <2>2. Settle(S) = <<c>>
    BY <1>2 DEF Settle
  <2> HIDE DEF c
  <2>3. IsSeries(<<c>>) /\ Left(<<c>>) = {c}
    BY Ones
  <2> QED BY <2>1, <2>2, <2>3
<1> QED BY <1>1, <1>2

LEMMA EachSeries ==
  ASSUME NEW what, NEW S
  PROVE  /\ IsSeries(Each(what, S))
         /\ \A c \in Left(Each(what, S)) : c.do = "each" /\ c.arg.what = what /\ c.arg.of = S
         /\ \A x \in S : \E c \in Left(Each(what, S)) : c.do = "each" /\ c.arg.what = what /\ x \in c.arg.of
<1>1. CASE S = {}
  BY <1>1, Ones DEF Each
<1>2. CASE S # {}
  <2> DEFINE a == [what |-> what, of |-> S]
             c == Call("each", a)
  <2>1. c.do = "each" /\ c.arg = a
    BY Fields
  <2>2. a.what = what /\ a.of = S
    OBVIOUS
  <2>3. Each(what, S) = <<c>>
    BY <1>2 DEF Each
  <2> HIDE DEF a, c
  <2>4. IsSeries(<<c>>) /\ Left(<<c>>) = {c}
    BY Ones
  <2> QED BY <2>1, <2>2, <2>3, <2>4
<1> QED BY <1>1, <1>2

-----------------------------------------------------------------------------
(* Calls that leave the rows *)

LEMMA HeadIsSafe ==
  ASSUME LinkInv, NEW t \in Thread, calls[t] # <<>>, Clean(calls[t], pages, rows)
  PROVE  Safe(Head1(t), pages) /\ Head1(t) \in Left(calls[t])
BY FirstCall DEF Clean

LEMMA NoneSucceeds ==
  ASSUME NEW t \in Thread
  PROVE  Succeeds(<<>>, t) /\ IsSeries(<<>>) /\ Left(<<>>) = {}
<1>1. \A c \in Left(<<>>) : FALSE
  BY Ones
<1> QED BY <1>1, MildNone, Ones DEF Succeeds

LEMMA ResolveTargetsHeals ==
  ASSUME LinkInv, ResolutionInv, NEW t \in Thread, ResolveTargets(t)
  PROVE  ResolutionInv'
<1>1. Does(t, "settle") /\ calls[t] # <<>> /\ pages' = pages /\ calm' = calm /\ rows' = rows /\ Head1(t).do = "settle"
  BY DEF ResolveTargets, Does, NoPageChange
<1>2. PICK s \in Head1(t).arg :
        Goes(t, <<Call("write", [of |-> s, targets |-> Targets(s.page.links)]),
                  Call("heal", s), Call("title", s)>> \o Settle(Head1(t).arg \ {s}))
  BY DEF ResolveTargets
<1> DEFINE u == [of |-> s, targets |-> Targets(s.page.links)]
           w == Call("write", u)
           h == Call("heal", s)
           n == Call("title", s)
           a == <<w, h, n>>
           S == Head1(t).arg \ {s}
           rest == Settle(S)
           next == a \o rest
<1>3. /\ w.do = "write" /\ w.arg.targets = Targets(s.page.links) /\ h.do = "heal" /\ h.arg = s
      /\ n.do = "title" /\ n.arg = s
  BY Fields
<1>4. Goes(t, next)
  BY <1>2
<1> HIDE DEF w, h, n
<1>5. IsSeries(a) /\ Left(a) = {w, h, n}
  BY Ones
<1>6. IsSeries(rest) /\ \A c \in Left(rest) : c.do = "settle" /\ c.arg = S
  BY SettleSeries
<1>7. \A x \in S : \E c \in Left(rest) : c.do = "settle" /\ x \in c.arg
  BY SettleSeries
<1>8. S = Head1(t).arg \ {s}
  OBVIOUS
<1> HIDE DEF a, rest, S
<1>9. IsSeries(next) /\ Left(next) = {w, h, n} \cup Left(rest)
  BY <1>5, <1>6, Joined
<1> HIDE DEF next
<1>10. \A c \in Left(next) : c.do \in {"write", "heal", "title", "settle"}
  BY <1>3, <1>6, <1>9
<1>11. ASSUME Clean(calls[t], pages, rows)
       PROVE  Succeeds(next, t)
  <2>1. \A x \in Head1(t).arg : x.page.title \notin Place
    BY <1>1, <1>11, HeadIsSafe DEF Safe
  <2>2. AllRight(Targets(s.page.links), pages)
    BY TargetsRight DEF ResolutionInv
  <2>3. Safe(w, pages) /\ Safe(h, pages) /\ Safe(n, pages)
    BY <1>3, <2>1, <2>2 DEF Safe
  <2>4. \A c \in Left(rest) : Safe(c, pages)
    BY <1>6, <1>8, <2>1 DEF Safe
  <2>5. \A c \in Left(next) : Safe(c, pages) /\ ~Writing(c)
    BY <1>9, <1>10, <2>3, <2>4 DEF Writing
  <2>6. Mild(next, pages)
    BY <1>9, <1>10, <2>5, MildSeries
  <2> QED BY <1>1, <2>5, <2>6 DEF Succeeds
<1>12. ASSUME NEW r \in rows
       PROVE  Replaces(next, Head1(t), r, pages)
  <2>1. \A x : ~Breaking(Head1(t), x) /\ ~Dropping(Head1(t), x)
    BY <1>1 DEF Breaking, Dropping
  <2>2. ASSUME NEW p \in DOMAIN pages, Healing(Head1(t), p, pages)
        PROVE  \E d \in Left(next) : Healing(d, p, pages)
    <3>1. Now(p, pages) \in Head1(t).arg
      BY <1>1, <2>2 DEF Healing
    <3>2. CASE Now(p, pages) = s
      BY <1>3, <1>9, <3>2 DEF Healing
    <3>3. CASE Now(p, pages) # s
      BY <1>7, <1>8, <1>9, <3>1, <3>3 DEF Healing
    <3> QED BY <3>2, <3>3
  <2> QED BY <2>1, <2>2 DEF Replaces
<1>13. \A c \in Left(next) : c.do # "target"
  BY <1>10
<1> QED BY <1>1, <1>4, <1>9, <1>11, <1>12, <1>13, RowsKept DEF next

\* A title that is looked up is the title of a page, and of no path.
LEMMA TitleHeals ==
  ASSUME LinkInv, ResolutionInv, NEW t \in Thread, CheckTitle(t) \/ FindTitle(t)
  PROVE  ResolutionInv'
<1>1. /\ calls[t] # <<>> /\ pages' = pages /\ calm' = calm /\ rows' = rows /\ Head1(t).do \in {"title", "oldTitle"}
      /\ \/ Goes(t, <<>>)
         \/ \E s : /\ Goes(t, <<Call("healTitle", s)>>)
                   /\ (Head1(t).do = "title" /\ s = Head1(t).arg) \/ \E p : p # NoPage /\ p = Resolve(Head1(t).arg) /\ s = Snapshot(p)
  BY DEF CheckTitle, FindTitle, Does, NoPageChange
<1>2. Idle(Head1(t)) /\ \A next : \A r \in rows : Replaces(next, Head1(t), r, pages)
  BY <1>1, IdleReplaced DEF Idle
<1>3. CASE Goes(t, <<>>)
  <2> DEFINE next == <<>>
  <2>1. Succeeds(next, t) /\ IsSeries(next) /\ Left(next) = {} /\ Goes(t, next)
    BY <1>3, NoneSucceeds
  <2> HIDE DEF next
  <2> QED BY <1>1, <1>2, <2>1, RowsKept
<1>4. ASSUME NEW s, Goes(t, <<Call("healTitle", s)>>),
             (Head1(t).do = "title" /\ s = Head1(t).arg) \/ \E p : p # NoPage /\ p = Resolve(Head1(t).arg) /\ s = Snapshot(p)
      PROVE  ResolutionInv'
  <2> DEFINE c == Call("healTitle", s)
             next == <<c>>
  <2>1. c.do = "healTitle" /\ c.arg = s /\ Goes(t, next)
    BY <1>4, Fields
  <2> HIDE DEF c
  <2>2. IsSeries(next) /\ Left(next) = {c}
    BY Ones
  <2>3. ASSUME Clean(calls[t], pages, rows)
        PROVE  s.page.title \notin Place
    <3>1. CASE Head1(t).do = "title" /\ s = Head1(t).arg
      BY <1>1, <2>3, <3>1, HeadIsSafe DEF Safe
    <3>2. ASSUME NEW p, p # NoPage, p = Resolve(Head1(t).arg), s = Snapshot(p)
          PROVE  s.page.title \notin Place
      <4>1. p \in DOMAIN pages
        BY <3>2, ResolveRight DEF Right, ResolutionInv
      <4> QED BY <3>2, <4>1, PathsAreNoTitles DEF Snapshot, ResolutionInv, IsTreeOfPages, IsText
    <3> QED BY <1>4, <3>1, <3>2
  <2>4. ASSUME Clean(calls[t], pages, rows)
        PROVE  Succeeds(next, t)
    <3>1. Safe(c, pages) /\ ~Writing(c)
      BY <2>1, <2>3, <2>4 DEF Safe, Writing
    <3>2. Mild(next, pages)
      BY <2>1, <3>1, MildOne
    <3> QED BY <1>1, <2>2, <3>1, <3>2 DEF Succeeds
  <2>5. \A d \in Left(next) : d.do # "target"
    BY <2>1, <2>2
  <2> HIDE DEF next
  <2> QED BY <1>1, <1>2, <2>1, <2>2, <2>4, <2>5, RowsKept
<1> QED BY <1>1, <1>3, <1>4

LEMMA EachOfHeals ==
  ASSUME LinkInv, ResolutionInv, NEW t \in Thread, EachOf(t)
  PROVE  ResolutionInv'
<1> DEFINE a == Head1(t).arg
           more(x) == [a EXCEPT !.of = @ \ {x}]
           left(x) == IF a.of = {x} THEN <<>> ELSE <<Call("each", more(x))>>
<1>1. /\ calls[t] # <<>> /\ pages' = pages /\ calm' = calm /\ rows' = rows /\ Head1(t).do = "each" /\ Head1(t).arg = a
      /\ \E x \in a.of : Goes(t, <<Call(a.what, x)>> \o left(x))
  BY DEF EachOf, Does, NoPageChange
<1>2. PICK x \in a.of : Goes(t, <<Call(a.what, x)>> \o left(x))
  BY <1>1
<1>3. a = [what |-> a.what, of |-> a.of] /\ a.what \in {"outgoing", "incoming", "oldTitle", "index", "save"}
  BY <1>1, FirstCall DEF Sensible
<1>4. more(x) = [what |-> a.what, of |-> a.of \ {x}]
  BY <1>3
<1> DEFINE c == Call(a.what, x)
           S == a.of \ {x}
           e == Each(a.what, S)
           one == <<c>>
           next == one \o e
<1>5. left(x) = e
  <2>1. a.of = {x} <=> S = {}
    BY <1>2
  <2> QED BY <1>4, <2>1 DEF Each
<1>6. c.do = a.what /\ c.arg = x /\ Goes(t, next)
  BY <1>2, <1>5, Fields
<1>7. S = a.of \ {x}
  OBVIOUS
<1>8. IsSeries(one) /\ Left(one) = {c}
  BY Ones
<1> HIDE DEF a, c, e, S, one
<1>9. /\ IsSeries(e) /\ \A d \in Left(e) : d.do = "each" /\ d.arg.what = a.what /\ d.arg.of = S
      /\ \A y \in S : \E d \in Left(e) : d.do = "each" /\ d.arg.what = a.what /\ y \in d.arg.of
  BY EachSeries DEF e
<1>10. IsSeries(next) /\ Left(next) = {c} \cup Left(e)
  BY <1>8, <1>9, Joined
<1> HIDE DEF next
<1>11. \A d \in Left(next) : d.do \notin {"target", "settle", "heal"}
  BY <1>3, <1>6, <1>9, <1>10
<1>12. ASSUME Clean(calls[t], pages, rows)
       PROVE  Succeeds(next, t)
  <2>1. a.what = "incoming" => a.of \cap DOMAIN pages = {}
    BY <1>1, <1>12, HeadIsSafe DEF Safe
  <2>2. Safe(c, pages) /\ ~(c.do = "incoming" /\ c.arg \in DOMAIN pages)
    BY <1>2, <1>3, <1>6, <2>1 DEF Safe
  <2>3. \A d \in Left(e) : Safe(d, pages) /\ d.do # "incoming"
    BY <1>7, <1>9, <2>1 DEF Safe
  <2>4. \A d \in Left(next) : Writing(d) => Writing(Head1(t))
    BY <1>1, <1>3, <1>6, <1>9, <1>10 DEF Writing
  <2>5. Mild(next, pages)
    BY <1>10, <1>11, <2>2, <2>3, MildSeries
  <2> QED BY <1>1, <2>4, <2>5 DEF Succeeds
<1>13. ASSUME NEW r \in rows
       PROVE  Replaces(next, Head1(t), r, pages)
  <2>1. (\A p : ~Healing(Head1(t), p, pages)) /\ \A y : ~Breaking(Head1(t), y)
    BY <1>1 DEF Breaking, Healing
  <2>2. ASSUME NEW p, Dropping(Head1(t), p)
        PROVE  \E d \in Left(next) : Dropping(d, p)
    <3>1. a.what = "incoming" /\ p \in a.of
      BY <1>1, <2>2 DEF Dropping
    <3>2. CASE p = x
      BY <1>6, <1>10, <3>1, <3>2 DEF Dropping
    <3>3. CASE p # x
      BY <1>7, <1>9, <1>10, <3>1, <3>3 DEF Dropping
    <3> QED BY <3>2, <3>3
  <2> QED BY <2>1, <2>2 DEF Replaces
<1> QED BY <1>1, <1>6, <1>10, <1>11, <1>12, <1>13, RowsKept

\* An idle call, with calls in its place that neither break nor heal, and write only if it does
LEMMA IdleCall ==
  ASSUME LinkInv, ResolutionInv, NEW t \in Thread, calls[t] # <<>>, Idle(Head1(t)), NEW next, IsSeries(next), Goes(t, next),
         pages' = pages, calm' = calm, rows' = rows,
         \A c \in Left(next) : c.do \notin {"target", "settle", "heal", "incoming"} /\ Safe(c, pages) /\ (Writing(c) => Writing(Head1(t)))
  PROVE  ResolutionInv'
<1>1. \A r \in rows : Replaces(next, Head1(t), r, pages)
  BY IdleReplaced
<1>2. Mild(next, pages)
  BY MildSeries
<1>3. Succeeds(next, t)
  BY <1>2 DEF Succeeds, Idle
<1> QED BY <1>1, <1>3, RowsKept

LEMMA LoadAllHeals ==
  ASSUME LinkInv, ResolutionInv, NEW t \in Thread, LoadAllPages(t) \/ LoadStopsShort(t)
  PROVE  ResolutionInv'
<1>1. /\ calls[t] # <<>> /\ pages' = pages /\ calm' = calm /\ rows' = rows /\ Head1(t).do = "load"
      /\ \E S : Goes(t, Each("index", S))
  BY DEF LoadAllPages, LoadStopsShort, Does, NoPageChange
<1>2. PICK S : Goes(t, Each("index", S))
  BY <1>1
<1> DEFINE next == Each("index", S)
<1>3. IsSeries(next) /\ \A d \in Left(next) : d.do = "each" /\ d.arg.what = "index"
  BY EachSeries
<1>4. Goes(t, next)
  BY <1>2
<1> HIDE DEF next
<1>5. \A c \in Left(next) : c.do \notin {"target", "settle", "heal", "incoming"} /\ Safe(c, pages) /\ ~Writing(c)
  BY <1>3 DEF Safe, Writing
<1>6. Idle(Head1(t))
  BY <1>1 DEF Idle
<1> QED BY <1>1, <1>3, <1>4, <1>5, <1>6, IdleCall

LEMMA ListPagesHeals ==
  ASSUME LinkInv, ResolutionInv, NEW t \in Thread, ListPages(t)
  PROVE  ResolutionInv'
<1> DEFINE c == Call("load", Live)
           next == <<c>>
<1>1. /\ calls[t] # <<>> /\ pages' = pages /\ calm' = calm /\ rows' = rows /\ Head1(t).do = "walk" /\ Goes(t, next)
  BY DEF ListPages, Does, NoPageChange
<1>2. c.do = "load"
  BY Fields
<1> HIDE DEF c
<1>3. IsSeries(next) /\ Left(next) = {c}
  BY Ones
<1> HIDE DEF next
<1>4. \A d \in Left(next) : d.do \notin {"target", "settle", "heal", "incoming"} /\ Safe(d, pages) /\ ~Writing(d)
  BY <1>2, <1>3 DEF Safe, Writing
<1>5. Idle(Head1(t))
  BY <1>1 DEF Idle
<1> QED BY <1>1, <1>3, <1>4, <1>5, IdleCall

\* Calls with resolved targets
LEMMA OneNext ==
  ASSUME LinkInv, ResolutionInv, NEW t \in Thread, calls[t] # <<>>, Idle(Head1(t)), NEW c, Goes(t, <<c>>),
         pages' = pages, calm' = calm, rows' = rows,
         c.do \in {"write", "batch", "resolve"}, Safe(c, pages)
  PROVE  ResolutionInv'
<1> DEFINE next == <<c>>
<1>1. IsSeries(next) /\ Left(next) = {c} /\ Goes(t, next)
  BY Ones
<1> HIDE DEF next
<1>2. \A d \in Left(next) : d.do \notin {"target", "settle", "heal", "incoming"} /\ Safe(d, pages) /\ ~Writing(d)
  BY <1>1 DEF Writing
<1> QED BY <1>1, <1>2, IdleCall

LEMMA IndexHeals ==
  ASSUME LinkInv, ResolutionInv, NEW t \in Thread, IndexPage(t)
  PROVE  ResolutionInv'
<1> DEFINE links == Head1(t).arg.page.links
           u == [of |-> Head1(t).arg, targets |-> Targets(links)]
           w == Call("write", u)
<1>1. /\ calls[t] # <<>> /\ pages' = pages /\ calm' = calm /\ rows' = rows /\ Head1(t).do = "index" /\ Goes(t, <<w>>)
  BY DEF IndexPage, Does, NoPageChange
<1>2. w.do = "write" /\ w.arg.targets = Targets(links)
  BY Fields
<1> HIDE DEF w, links
<1>3. Safe(w, pages) /\ Idle(Head1(t))
  BY <1>1, <1>2, TargetsRight DEF Safe, Idle, ResolutionInv
<1> QED BY <1>1, <1>2, <1>3, OneNext

LEMMA ResolveBatchHeals ==
  ASSUME LinkInv, ResolutionInv, NEW t \in Thread, ResolveBatch(t) \/ ResolveRows(t)
  PROVE  ResolutionInv'
<1>1. /\ calls[t] # <<>> /\ pages' = pages /\ calm' = calm /\ rows' = rows /\ Head1(t).do \in {"resolve", "resolveRows"}
      /\ \E U : Goes(t, <<Call("batch", U)>>) /\ \A u \in U : \E links : u.targets = Targets(links)
  <2>1. CASE ResolveBatch(t)
    <3> DEFINE U == {[of |-> s, targets |-> Targets(s.page.links)] : s \in Head1(t).arg}
    <3>1. \A u \in U : \E links : u.targets = Targets(links)
      OBVIOUS
    <3>2. Goes(t, <<Call("batch", U)>>)
      BY <2>1 DEF ResolveBatch
    <3> HIDE DEF U
    <3> QED BY <2>1, <3>1, <3>2 DEF ResolveBatch, Does, NoPageChange
  <2>2. CASE ResolveRows(t)
    <3> DEFINE rule == Head1(t).arg.rule
               those(s) == RewrittenLinks(RowsOf(s.id) \cap Place, rule)
               U == {[of |-> s, targets |-> Targets(those(s))] : s \in Head1(t).arg.of}
    <3>1. \A u \in U : \E links : u.targets = Targets(links)
      <4> HIDE DEF those
      <4> QED OBVIOUS
    <3>2. Goes(t, <<Call("batch", U)>>)
      BY <2>2 DEF ResolveRows
    <3> HIDE DEF U
    <3> QED BY <2>2, <3>1, <3>2 DEF ResolveRows, Does, NoPageChange
  <2> QED BY <2>1, <2>2
<1>2. PICK U : Goes(t, <<Call("batch", U)>>) /\ \A u \in U : \E links : u.targets = Targets(links)
  BY <1>1
<1> DEFINE b == Call("batch", U)
<1>3. b.do = "batch" /\ b.arg = U /\ Goes(t, <<b>>)
  BY <1>2, Fields
<1> HIDE DEF b
<1>4. \A u \in U : AllRight(u.targets, pages)
  BY <1>2, TargetsRight DEF ResolutionInv
<1>5. Safe(b, pages) /\ Idle(Head1(t))
  BY <1>1, <1>3, <1>4 DEF Safe, Idle
<1> QED BY <1>1, <1>3, <1>5, OneNext

\* The texts are read, and saved one after the other before the index is told.
LEMMA LoadTextsHeals ==
  ASSUME LinkInv, ResolutionInv, NEW t \in Thread, LoadAffected(t) \/ LoadSubtree(t)
  PROVE  ResolutionInv'
<1>1. /\ calls[t] # <<>> /\ pages' = pages /\ calm' = calm /\ rows' = rows /\ Head1(t).do \in {"rewrite", "subtree"}
      /\ \E S, do, arg : /\ Goes(t, IF S = {} THEN <<>> ELSE Each("save", S) \o <<Call(do, arg)>>)
                         /\ do \in {"resolveRows", "resolve"}
  BY DEF LoadAffected, LoadSubtree, Does, NoPageChange
<1>2. PICK S, do, arg : /\ Goes(t, IF S = {} THEN <<>> ELSE Each("save", S) \o <<Call(do, arg)>>)
                        /\ do \in {"resolveRows", "resolve"}
  BY <1>1
<1> DEFINE c == Call(do, arg)
           e == Each("save", S)
           one == <<c>>
           next == IF S = {} THEN <<>> ELSE e \o one
<1>3. c.do = do
  BY Fields
<1>4. IsSeries(one) /\ Left(one) = {c}
  BY Ones
<1>5. IsSeries(e) /\ \A d \in Left(e) : d.do = "each" /\ d.arg.what = "save"
  BY EachSeries
<1>6. Goes(t, next)
  BY <1>2
<1> HIDE DEF c, e, one
<1>7. IsSeries(e \o one) /\ Left(e \o one) = Left(e) \cup {c}
  BY <1>4, <1>5, Joined
<1>8. IsSeries(next) /\ \A d \in Left(next) : d \in Left(e) \/ d = c
  BY <1>7, Ones
<1> HIDE DEF next
<1>9. \A d \in Left(next) : /\ d.do \notin {"target", "settle", "heal", "incoming"} /\ Safe(d, pages)
                            /\ Writing(d) => Writing(Head1(t))
  BY <1>1, <1>2, <1>3, <1>5, <1>8 DEF Safe, Writing
<1>10. Idle(Head1(t))
  BY <1>1 DEF Idle
<1> QED BY <1>1, <1>6, <1>8, <1>9, <1>10, IdleCall

LEMMA LoadRefreshHeals ==
  ASSUME LinkInv, ResolutionInv, NEW t \in Thread, LoadRefresh(t)
  PROVE  ResolutionInv'
<1>1. /\ calls[t] # <<>> /\ pages' = pages /\ calm' = calm /\ rows' = rows /\ Head1(t).do = "refresh"
      /\ Goes(t, <<>>) \/ \E S : Goes(t, <<Call("resolve", S)>>)
  BY DEF LoadRefresh, Does
<1>2. Idle(Head1(t))
  BY <1>1 DEF Idle
<1>3. CASE Goes(t, <<>>)
  <2> DEFINE next == <<>>
  <2>1. IsSeries(next) /\ Left(next) = {} /\ Goes(t, next)
    BY <1>3, Ones
  <2> HIDE DEF next
  <2> QED BY <1>1, <1>2, <2>1, IdleCall
<1>4. ASSUME NEW S, Goes(t, <<Call("resolve", S)>>)
      PROVE  ResolutionInv'
  <2> DEFINE c == Call("resolve", S)
  <2>1. c.do = "resolve" /\ Goes(t, <<c>>)
    BY <1>4, Fields
  <2> HIDE DEF c
  <2>2. Safe(c, pages)
    BY <2>1 DEF Safe
  <2> QED BY <1>1, <1>2, <2>1, <2>2, OneNext
<1> QED BY <1>1, <1>3, <1>4

-----------------------------------------------------------------------------
(* Calls that write rows *)

LEMMA RowsWritten ==
  ASSUME LinkInv, ResolutionInv, NEW t \in Thread, calls[t] # <<>>, Goes(t, <<>>), pages' = pages, calm' = calm,
         \A s : Clean(calls[t], pages, rows) /\ Left(calls[t]) = {Head1(t)} \cup Left(s)
                 => \A r \in rows' : Attended(r, s, pages)
  PROVE  ResolutionInv'
<1> DEFINE next == <<>>
<1>1. Succeeds(next, t) /\ IsSeries(next) /\ Left(next) = {} /\ Goes(t, next)
  BY NoneSucceeds
<1> HIDE DEF next
<1>2. ASSUME NEW s, Clean(calls[t], pages, rows), Left(calls[t]) = {Head1(t)} \cup Left(Tail(calls[t])),
             Left(s) = Left(next) \cup Left(Tail(calls[t]))
      PROVE  \A r \in rows' : Attended(r, s, pages)
  <2>1. Left(calls[t]) = {Head1(t)} \cup Left(s)
    BY <1>1, <1>2
  <2> QED BY <1>2, <2>1
<1> QED BY <1>1, <1>2, CallMade

LEMMA StaysAttended ==
  ASSUME NEW r, NEW s, NEW s2, NEW head, NEW md, Attended(r, s, md), Left(s) = {head} \cup Left(s2),
         \A p \in DOMAIN md : r.to = md[p].place /\ r.target = NoPage => ~Healing(head, p, md),
         r.to \in Place /\ r.target # NoPage => ~Breaking(head, r.to),
         r.target # NoPage /\ r.target \notin DOMAIN md => ~Dropping(head, r.target)
  PROVE  Attended(r, s2, md)
BY DEF Attended

\* A row that a current page has at its path leads there.
LEMMA CurrentIsRight ==
  ASSUME IsTreeOfPages(pages), NEW s, Current(s)
  PROVE  Right(s.page.place, s.id, pages)
BY DEF Current, Right, IsTreeOfPages, IsTree, Live

LEMMA Retargeted ==
  ASSUME NEW r, IsRow(r), NEW x
  PROVE  [r EXCEPT !.target = x].to = r.to /\ [r EXCEPT !.target = x].target = x
BY DEF IsRow

LEMMA AddLinksHeals ==
  ASSUME LinkInv, ResolutionInv, NEW t \in Thread, AddLinks(t)
  PROVE  ResolutionInv'
<1> DEFINE u == Head1(t).arg
<1>1. /\ calls[t] # <<>> /\ pages' = pages /\ calm' = calm /\ Head1(t).do = "write" /\ Goes(t, <<>>) /\ Head1(t).arg = u
      /\ rows' = IF Current(u.of) THEN Replaced(rows, u.of, u.targets) ELSE rows
  BY DEF AddLinks, Does, NoPageChange
<1> HIDE DEF u
<1>2. \A r \in rows' : r \in rows \/ \E ref \in DOMAIN u.targets : r.to = ref /\ r.target = u.targets[ref]
  BY <1>1 DEF Replaced
<1>3. ASSUME NEW s, Clean(calls[t], pages, rows), Left(calls[t]) = {Head1(t)} \cup Left(s), NEW r \in rows'
      PROVE  Attended(r, s, pages)
  <2>1. CASE r \in rows
    <3>1. Attended(r, calls[t], pages)
      BY <1>3, <2>1 DEF Clean
    <3>2. /\ \A p : ~Healing(Head1(t), p, pages)
          /\ \A y : ~Breaking(Head1(t), y) /\ ~Dropping(Head1(t), y)
      BY <1>1 DEF Healing, Breaking, Dropping
    <3> QED BY <1>3, <3>1, <3>2, StaysAttended
  <2>2. ASSUME NEW ref \in DOMAIN u.targets, r.to = ref, r.target = u.targets[ref]
        PROVE  Attended(r, s, pages)
    <3>1. Right(r.to, r.target, pages)
      BY <1>1, <1>3, <2>2, HeadIsSafe DEF Safe, AllRight
    <3> QED BY <3>1, RightRow
  <2> QED BY <1>2, <2>1, <2>2
<1> QED BY <1>1, <1>3, RowsWritten

LEMMA HealPathHeals ==
  ASSUME LinkInv, ResolutionInv, NEW t \in Thread, HealExactPath(t)
  PROVE  ResolutionInv'
<1> DEFINE x == Head1(t).arg
<1>1. /\ calls[t] # <<>> /\ pages' = pages /\ calm' = calm /\ Head1(t).do = "heal" /\ Goes(t, <<>>) /\ Head1(t).arg = x
      /\ rows' = IF Current(x) THEN Healed(rows, x.page.place, x.id) ELSE rows
  BY DEF HealExactPath, Does, NoPageChange
<1> HIDE DEF x
<1>2. \A r \in rows' :
        \/ r \in rows /\ ~(Current(x) /\ r.to = x.page.place /\ r.target = NoPage)
        \/ Current(x) /\ r.to = x.page.place /\ r.target = x.id
  <2>1. CASE ~Current(x)
    BY <1>1, <2>1
  <2>2. CASE Current(x)
    <3>1. TAKE r \in rows'
    <3>2. PICK q \in rows : r = IF q.to = x.page.place /\ q.target = NoPage THEN [q EXCEPT !.target = x.id] ELSE q
      BY <1>1, <2>2 DEF Healed
    <3>3. IsRow(q)
      BY RowsAre
    <3> QED BY <2>2, <3>2, <3>3, Retargeted
  <2> QED BY <2>1, <2>2
<1>3. ASSUME NEW s, Clean(calls[t], pages, rows), Left(calls[t]) = {Head1(t)} \cup Left(s), NEW r \in rows'
      PROVE  Attended(r, s, pages)
  <2>1. CASE r \in rows /\ ~(Current(x) /\ r.to = x.page.place /\ r.target = NoPage)
    <3>1. Attended(r, calls[t], pages)
      BY <1>3, <2>1 DEF Clean
    <3>2. \A y : ~Breaking(Head1(t), y) /\ ~Dropping(Head1(t), y)
      BY <1>1 DEF Breaking, Dropping
    <3>3. ASSUME NEW p \in DOMAIN pages, r.to = pages[p].place, r.target = NoPage, Healing(Head1(t), p, pages)
          PROVE  FALSE
      <4>1. x = Now(p, pages)
        BY <1>1, <3>3 DEF Healing
      <4>2. Current(x) /\ x.page.place = pages[p].place
        BY <4>1 DEF Now, Current, Live
      <4> QED BY <2>1, <3>3, <4>2
    <3> QED BY <1>3, <3>1, <3>2, <3>3, StaysAttended
  <2>2. CASE Current(x) /\ r.to = x.page.place /\ r.target = x.id
    BY <2>2, CurrentIsRight, RightRow DEF ResolutionInv
  <2> QED BY <1>2, <2>1, <2>2
<1> QED BY <1>1, <1>3, RowsWritten

LEMMA HealTitleHeals ==
  ASSUME LinkInv, ResolutionInv, NEW t \in Thread, HealTitle(t)
  PROVE  ResolutionInv'
<1> DEFINE x == Head1(t).arg
<1>1. /\ calls[t] # <<>> /\ pages' = pages /\ calm' = calm /\ Head1(t).do = "healTitle" /\ Goes(t, <<>>) /\ Head1(t).arg = x
      /\ rows' = IF Current(x) THEN Healed(rows, x.page.title, x.id) ELSE rows
  BY DEF HealTitle, Does, NoPageChange
<1> HIDE DEF x
<1>2. \A r \in rows' : r \in rows \/ (Current(x) /\ r.to = x.page.title /\ r.target = x.id)
  <2>1. CASE ~Current(x)
    BY <1>1, <2>1
  <2>2. CASE Current(x)
    <3>1. TAKE r \in rows'
    <3>2. PICK q \in rows : r = IF q.to = x.page.title /\ q.target = NoPage THEN [q EXCEPT !.target = x.id] ELSE q
      BY <1>1, <2>2 DEF Healed
    <3>3. IsRow(q)
      BY RowsAre
    <3> QED BY <2>2, <3>2, <3>3, Retargeted
  <2> QED BY <2>1, <2>2
<1>3. ASSUME NEW s, Clean(calls[t], pages, rows), Left(calls[t]) = {Head1(t)} \cup Left(s), NEW r \in rows'
      PROVE  Attended(r, s, pages)
  <2>1. CASE r \in rows
    <3>1. Attended(r, calls[t], pages)
      BY <1>3, <2>1 DEF Clean
    <3>2. /\ \A p : ~Healing(Head1(t), p, pages)
          /\ \A y : ~Breaking(Head1(t), y) /\ ~Dropping(Head1(t), y)
      BY <1>1 DEF Healing, Breaking, Dropping
    <3> QED BY <1>3, <3>1, <3>2, StaysAttended
  <2>2. CASE Current(x) /\ r.to = x.page.title /\ r.target = x.id
    <3>1. r.to \notin Place
      BY <1>1, <1>3, <2>2, HeadIsSafe DEF Safe
    <3>2. Right(r.to, r.target, pages)
      BY <2>2, <3>1 DEF Right, Current, Live, ResolutionInv, IsTreeOfPages, IsText
    <3> QED BY <3>2, RightRow
  <2> QED BY <1>2, <2>1, <2>2
<1> QED BY <1>1, <1>3, RowsWritten

\* A row that loses its target needs none, if no page is at its path.
LEMMA NoneThere ==
  ASSUME NEW r, NEW md, r.target = NoPage, \A p \in DOMAIN md : r.to # md[p].place
  PROVE  \A s : Attended(r, s, md)
BY DEF Attended

LEMMA BrokenRows ==
  ASSUME LinkInv, NEW hit \in SUBSET rows
  PROVE  \A r \in Broken(hit) : r \in rows \ hit \/ \E q \in hit : r.to = q.to /\ r.target = NoPage
<1>1. \A q \in hit : [q EXCEPT !.target = NoPage].to = q.to /\ [q EXCEPT !.target = NoPage].target = NoPage
  BY RowsAre, Retargeted
<1> QED BY <1>1 DEF Broken

LEMMA MarkPathHeals ==
  ASSUME LinkInv, ResolutionInv, NEW t \in Thread, MarkBroken(t), Head1(t).do # "incoming"
  PROVE  ResolutionInv'
<1> DEFINE base == Head1(t).arg
           under == {r \in rows : r.to \in Place /\ Under(r.to, base)}
           there == {r \in rows : r.to = base}
           hit == IF Head1(t).do = "prefix" THEN under ELSE there
<1>1. /\ calls[t] # <<>> /\ pages' = pages /\ calm' = calm /\ Goes(t, <<>>) /\ Head1(t).do \in {"prefix", "path"}
      /\ rows' = Broken(hit)
  BY DEF MarkBroken, Does, NoPageChange
<1>2. /\ \A r \in rows : r \in hit <=> IF Head1(t).do = "prefix" THEN r.to \in Place /\ Under(r.to, base) ELSE r.to = base
      /\ hit \in SUBSET rows /\ Head1(t).arg = base
  OBVIOUS
<1> HIDE DEF base, hit
<1>3. ASSUME NEW s, Clean(calls[t], pages, rows), Left(calls[t]) = {Head1(t)} \cup Left(s), NEW r \in rows'
      PROVE  Attended(r, s, pages)
  <2>1. CASE r \in rows \ hit
    <3>1. Attended(r, calls[t], pages)
      BY <1>3, <2>1 DEF Clean
    <3>2. (\A p : ~Healing(Head1(t), p, pages)) /\ \A y : ~Dropping(Head1(t), y)
      BY <1>1 DEF Healing, Dropping
    <3>3. r.to \in Place => ~Breaking(Head1(t), r.to)
      BY <1>1, <1>2, <2>1 DEF Breaking
    <3> QED BY <1>3, <3>1, <3>2, <3>3, StaysAttended
  <2>2. ASSUME NEW q \in hit, r.to = q.to, r.target = NoPage
        PROVE  Attended(r, s, pages)
    <3>1. \A p \in DOMAIN pages : r.to # pages[p].place
      BY <1>1, <1>2, <1>3, <2>2, HeadIsSafe DEF Safe
    <3> QED BY <2>2, <3>1, NoneThere
  <2> QED BY <1>1, <1>2, <2>1, <2>2, BrokenRows
<1> QED BY <1>1, <1>3, RowsWritten

\* Links to a page that is there are healed again by what is left.
LEMMA MarkIncomingHeals ==
  ASSUME LinkInv, ResolutionInv, NEW t \in Thread, MarkBroken(t), Head1(t).do = "incoming"
  PROVE  ResolutionInv'
<1> DEFINE x == Head1(t).arg
           hit == {r \in rows : r.target = x}
<1>1. /\ calls[t] # <<>> /\ pages' = pages /\ calm' = calm /\ Goes(t, <<>>) /\ rows' = Broken(hit)
  BY DEF MarkBroken, Does, NoPageChange
<1>2. (\A r \in rows : r \in hit <=> r.target = x) /\ hit \in SUBSET rows /\ Head1(t).arg = x
  OBVIOUS
<1> HIDE DEF x, hit
<1>3. ASSUME NEW s, Clean(calls[t], pages, rows), Left(calls[t]) = {Head1(t)} \cup Left(s), NEW r \in rows'
      PROVE  Attended(r, s, pages)
  <2>1. CASE r \in rows \ hit
    <3>1. Attended(r, calls[t], pages)
      BY <1>3, <2>1 DEF Clean
    <3>2. (\A p : ~Healing(Head1(t), p, pages)) /\ \A y : ~Breaking(Head1(t), y)
      BY DEF Healing, Breaking
    <3>3. ~Dropping(Head1(t), r.target)
      BY <1>2, <2>1 DEF Dropping
    <3> QED BY <1>3, <3>1, <3>2, <3>3, StaysAttended
  <2>2. ASSUME NEW q \in hit, r.to = q.to, r.target = NoPage
        PROVE  Attended(r, s, pages)
    <3>1. Attended(q, calls[t], pages) /\ q.target = x
      BY <1>2, <1>3, <2>2 DEF Clean
    <3>2. ASSUME NEW p \in DOMAIN pages, r.to = pages[p].place
          PROVE  \E c \in Left(s) : Healing(c, p, pages)
      <4>1. CASE x = p
        <5>1. Head1(t) = calls[t][1] /\ 1 \in DOMAIN calls[t]
          BY <1>1, FirstAndRest DEF Head1, LinkInv, LinkTypeOK
        <5>2. PICK c \in Left(calls[t]) : c.do = "settle" /\ Now(p, pages) \in c.arg
          BY <1>2, <1>3, <4>1, <5>1 DEF Clean, InFront
        <5> QED BY <1>3, <5>2 DEF Healing
      <4>2. CASE x # p
        <5>1. q.target = NoPage /\ \E c \in Left(calls[t]) : Healing(c, p, pages)
          BY <2>2, <3>1, <3>2, <4>2 DEF Attended
        <5> QED BY <1>3, <5>1 DEF Healing
      <4> QED BY <4>1, <4>2
    <3> QED BY <2>2, <3>2 DEF Attended
  <2> QED BY <1>1, <1>2, <2>1, <2>2, BrokenRows
<1> QED BY <1>1, <1>3, RowsWritten

LEMMA FewerRowsHeal ==
  ASSUME LinkInv, ResolutionInv, NEW t \in Thread, DeleteOutgoing(t) \/ ClearLinks(t)
  PROVE  ResolutionInv'
<1>1. /\ calls[t] # <<>> /\ pages' = pages /\ calm' = calm /\ Goes(t, <<>>) /\ Head1(t).do \in {"outgoing", "clear"}
      /\ rows' \subseteq rows
  BY DEF DeleteOutgoing, ClearLinks, Does, NoPageChange
<1>2. ASSUME NEW s, Clean(calls[t], pages, rows), Left(calls[t]) = {Head1(t)} \cup Left(s), NEW r \in rows'
      PROVE  Attended(r, s, pages)
  <2>1. Attended(r, calls[t], pages)
    BY <1>1, <1>2 DEF Clean
  <2>2. (\A p : ~Healing(Head1(t), p, pages)) /\ \A y : ~Breaking(Head1(t), y) /\ ~Dropping(Head1(t), y)
    BY <1>1 DEF Healing, Breaking, Dropping
  <2> QED BY <1>2, <2>1, <2>2, StaysAttended
<1> QED BY <1>1, <1>2, RowsWritten

LEMMA ReplaceBatchHeals ==
  ASSUME LinkInv, ResolutionInv, NEW t \in Thread, ReplaceBatch(t)
  PROVE  ResolutionInv'
<1> DEFINE U == Head1(t).arg
           ok == {u \in U : Current(u.of)}
           ids == {u.of.id : u \in ok}
           kept == {r \in rows : r.from \notin ids}
           row(u, ref) == [from |-> u.of.id, to |-> ref, target |-> u.targets[ref]]
           newOf(u) == {row(u, ref) : ref \in DOMAIN u.targets}
           fresh == UNION {newOf(u) : u \in ok}
           There(r) == {u \in ok : u.of.page.place = r.to}
           f(r) == IF r.target = NoPage /\ There(r) # {} THEN [r EXCEPT !.target = (CHOOSE u \in There(r) : TRUE).of.id] ELSE r
           all == kept \cup fresh
<1>1. /\ calls[t] # <<>> /\ pages' = pages /\ calm' = calm /\ Goes(t, <<>>) /\ Head1(t).do = "batch" /\ Head1(t).arg = U
      /\ rows' = {f(r) : r \in all}
  BY DEF ReplaceBatch, Does, NoPageChange, Batched
<1>2. \A u \in ok : u \in U /\ Current(u.of) /\ u.of.id \in Page
  BY DEF Current, LinkInv, LinkTypeOK
<1>3. \A u, ref : row(u, ref).to = ref /\ row(u, ref).target = u.targets[ref] /\ (u.of.id \in Page => IsRow(row(u, ref)))
  BY DEF IsRow
<1>4. \A r : There(r) # {} => /\ (CHOOSE u \in There(r) : TRUE) \in ok
                              /\ (CHOOSE u \in There(r) : TRUE).of.page.place = r.to
  <2>1. TAKE r
  <2>2. \A u \in There(r) : u \in ok /\ u.of.page.place = r.to
    OBVIOUS
  <2> HIDE DEF There
  <2> QED BY <2>2
<1> HIDE DEF U, ok, row
<1>5. \A r \in fresh : \E u \in ok : \E ref \in DOMAIN u.targets : r = row(u, ref)
  OBVIOUS
<1> HIDE DEF fresh, There
<1>6. \A r \in all : IsRow(r) /\ (r \in rows \/ r \in fresh)
  BY <1>2, <1>3, <1>5, RowsAre
<1>7. \A r \in all : f(r) = r \/ \E u \in ok : f(r).to = u.of.page.place /\ f(r).target = u.of.id
  <2>1. TAKE r \in all
  <2>2. CASE r.target = NoPage /\ There(r) # {}
    <3> DEFINE v == CHOOSE u \in There(r) : TRUE
    <3>1. f(r) = [r EXCEPT !.target = v.of.id] /\ v \in ok /\ v.of.page.place = r.to
      BY <1>4, <2>2
    <3> HIDE DEF v, f
    <3> QED BY <1>6, <3>1, Retargeted
  <2> QED BY <2>2
<1> HIDE DEF f, all
<1>8. ASSUME NEW s, Clean(calls[t], pages, rows), Left(calls[t]) = {Head1(t)} \cup Left(s), NEW r \in rows'
      PROVE  Attended(r, s, pages)
  <2>1. PICK q \in all : r = f(q)
    BY <1>1
  <2>2. ASSUME NEW u \in ok, r.to = u.of.page.place, r.target = u.of.id
        PROVE  Attended(r, s, pages)
    <3>1. Right(r.to, r.target, pages)
      BY <1>2, <2>2, CurrentIsRight DEF ResolutionInv
    <3> QED BY <3>1, RightRow
  <2>3. CASE r = q /\ q \in rows
    <3>1. Attended(r, calls[t], pages)
      BY <1>8, <2>3 DEF Clean
    <3>2. (\A p : ~Healing(Head1(t), p, pages)) /\ \A y : ~Breaking(Head1(t), y) /\ ~Dropping(Head1(t), y)
      BY <1>1 DEF Healing, Breaking, Dropping
    <3> QED BY <1>8, <3>1, <3>2, StaysAttended
  <2>4. CASE r = q /\ q \in fresh
    <3>1. PICK u \in ok : \E ref \in DOMAIN u.targets : q = row(u, ref)
      BY <1>5, <2>4
    <3>2. PICK ref \in DOMAIN u.targets : q = row(u, ref)
      BY <3>1
    <3>3. AllRight(u.targets, pages)
      BY <1>1, <1>2, <1>8, HeadIsSafe DEF Safe
    <3>4. Right(r.to, r.target, pages)
      BY <1>3, <2>4, <3>2, <3>3 DEF AllRight
    <3> QED BY <3>4, RightRow
  <2> QED BY <1>6, <1>7, <2>1, <2>2, <2>3, <2>4
<1> QED BY <1>1, <1>8, RowsWritten

-----------------------------------------------------------------------------
(* Calls that write pages, or read one back *)

\* Where all rows lead where they should, calls that break nothing are clean.
LEMMA FreshClean ==
  ASSUME NEW s, NEW md, NEW R, \A r \in R : Right(r.to, r.target, md), WritesLast(s),
         \A c \in Left(s) : Safe(c, md) /\ ~(c.do = "incoming" /\ c.arg \in DOMAIN md)
  PROVE  Clean(s, md, R)
<1>1. \A k \in DOMAIN s : s[k] \in Left(s)
  BY DEF Left
<1>2. InFront(s, md)
  BY <1>1 DEF InFront
<1> QED BY <1>2, RightRow DEF Clean

\* The pages of a tree that are settled
LEMMA SettleSafe ==
  ASSUME NEW md, IsTreeOfPages(md), NEW S, \A x \in S : \E p \in DOMAIN md : x = Now(p, md)
  PROVE  IsSeries(Settle(S)) /\ \A c \in Left(Settle(S)) : c.do = "settle" /\ c.arg = S /\ Safe(c, md)
<1>1. IsSeries(Settle(S)) /\ \A c \in Left(Settle(S)) : c.do = "settle" /\ c.arg = S
  BY SettleSeries
<1>2. \A x \in S : x.page.title \notin Place
  BY PathsAreNoTitles DEF Now, IsTreeOfPages, IsText
<1> QED BY <1>1, <1>2 DEF Safe

LEMMA SettleClean ==
  ASSUME NEW md, IsTreeOfPages(md), NEW S, \A x \in S : \E p \in DOMAIN md : x = Now(p, md),
         NEW R, \A r \in R : Right(r.to, r.target, md)
  PROVE  Clean(Settle(S), md, R) /\ \A c \in Left(Settle(S)) : Planned(c)
<1> DEFINE s == Settle(S)
<1>1. IsSeries(s) /\ \A c \in Left(s) : c.do = "settle" /\ Safe(c, md)
  BY SettleSafe
<1> HIDE DEF s
<1>2. (\A c \in Left(s) : c.do # "incoming" /\ Planned(c)) /\ \A k \in DOMAIN s : s[k] \in Left(s)
  BY <1>1 DEF Left, Planned
<1>3. WritesLast(s)
  BY <1>1, <1>2 DEF WritesLast, Writing
<1> QED BY <1>1, <1>2, <1>3, FreshClean DEF s

LEMMA ReadBackHeals ==
  ASSUME LinkInv, ResolutionInv, NEW t \in Thread, ReadBack(t)
  PROVE  ResolutionInv'
<1> DEFINE p == Head1(t).arg
           S == IF p \in Live THEN {Snapshot(p)} ELSE {}
           s == Settle(S)
<1>1. /\ calls[t] # <<>> /\ pages' = pages /\ calm' = calm /\ rows' = rows /\ Head1(t).do = "readBack"
      /\ calls' = [calls EXCEPT ![t] = s]
  BY DEF ReadBack, Does, NoPageChange, Settle
<1>2. \A x \in S : \E q \in DOMAIN pages : x = Now(q, pages)
  BY DEF Snapshot, Now, Live
<1>3. Left(calls[t]) = {Head1(t)}
  <2> DEFINE none == <<>>
  <2>1. WellFormed(calls[t], Gone) /\ Fine(none, Gone)
    BY EmptyFine DEF LinkInv
  <2> HIDE DEF none
  <2> QED BY <1>1, <2>1, Prefixed DEF Head1
<1> HIDE DEF S
<1>4. \A R : (\A r \in R : Right(r.to, r.target, pages)) => (Clean(s, pages, R) /\ \A c \in Left(s) : Planned(c))
  BY <1>2, SettleClean DEF ResolutionInv
<1> HIDE DEF s
<1>5. \A c \in Left(s) : Planned(c)
  <2>1. \A c \in Left(s) : c.do = "settle"
    BY SettleSeries DEF s
  <2> QED BY <2>1 DEF Planned
<1>6. ASSUME Clean(calls[t], pages, rows)
      PROVE  Clean(s, pages', rows')
  <2>1. /\ \A q \in DOMAIN pages : \A c \in Left(calls[t]) : ~Healing(c, q, pages)
        /\ \A c \in Left(calls[t]) : \A x : ~Breaking(c, x) /\ ~Dropping(c, x)
    BY <1>1, <1>3 DEF Healing, Breaking, Dropping
  <2>2. \A r \in rows : Right(r.to, r.target, pages)
    BY <1>6, <2>1, RestIsRight DEF Clean
  <2> QED BY <1>1, <1>4, <2>2
<1>7. IsTreeOfPages(pages')
  BY <1>1 DEF ResolutionInv
<1> QED BY <1>1, <1>5, <1>6, <1>7, Stepped

\* Pages that have the paths they had
SamePlaces(md, md2) == DOMAIN md2 = DOMAIN md /\ \A p \in DOMAIN md : md2[p].place = md[p].place

LEMMA PlacesOnly ==
  ASSUME NEW md, NEW md2, SamePlaces(md, md2)
  PROVE  /\ \A ref, x : Right(ref, x, md) <=> Right(ref, x, md2)
         /\ \A c : Safe(c, md) => Safe(c, md2)
         /\ IsTree(md) => IsTree(md2)
<1>1. \A ref, x : Right(ref, x, md) <=> Right(ref, x, md2)
  BY DEF SamePlaces, Right
<1>2. \A targets : AllRight(targets, md) <=> AllRight(targets, md2)
  BY <1>1 DEF AllRight
<1>3. \A c : Safe(c, md) => Safe(c, md2)
  BY <1>2 DEF Safe, SamePlaces
<1>4. IsTree(md) => IsTree(md2)
  BY DEF IsTree, SamePlaces
<1> QED BY <1>1, <1>3, <1>4

\* A page with another text or title
LEMMA TextWritten ==
  ASSUME IsTreeOfPages(pages), pages = [q \in Live |-> pages[q]], NEW p \in Live, NEW g, IsText(g), g.place = pages[p].place,
         pages' = [pages EXCEPT ![p] = g]
  PROVE  IsTreeOfPages(pages') /\ SamePlaces(pages, pages') /\ DOMAIN pages' = Live /\ pages'[p] = g
<1>1. /\ DOMAIN pages' = DOMAIN pages /\ pages'[p] = g /\ \A q \in DOMAIN pages : q # p => pages'[q] = pages[q]
  BY DEF Live
<1>2. SamePlaces(pages, pages')
  BY <1>1 DEF SamePlaces
<1> QED BY <1>1, <1>2, PlacesOnly DEF IsTreeOfPages, Live

LEMMA SaveRewrittenHeals ==
  ASSUME LinkInv, ResolutionInv, NEW t \in Thread, SaveRewritten(t)
  PROVE  ResolutionInv'
<1> DEFINE u == Head1(t).arg
           p == u.of.id
           none == <<>>
           s == none \o Tail(calls[t])
<1>1. /\ calls[t] # <<>> /\ calls' = [calls EXCEPT ![t] = s] /\ rows' = rows /\ (calm' => calm) /\ Head1(t).do = "save"
  BY DEF SaveRewritten, Does, Goes, Changes
<1>7. \/ p \in Live /\ pages' = [pages EXCEPT ![p].links = u.links, ![p].stamp = @ + 1]
      \/ pages' = pages
  BY DEF SaveRewritten, Writable
<1>2. IsTreeOfPages(pages') /\ SamePlaces(pages, pages')
  <2>1. CASE pages' = pages
    BY <2>1 DEF ResolutionInv, SamePlaces
  <2>2. CASE p \in Live /\ pages' = [pages EXCEPT ![p].links = u.links, ![p].stamp = @ + 1]
    <3> DEFINE h == pages[p]
               links == u.links
               stamp == h.stamp + 1
               g == [h EXCEPT !.links = links, !.stamp = stamp]
    <3>1. pages = [q \in Live |-> pages[q]] /\ IsTreeOfPages(pages) /\ p \in Live
      BY <2>2 DEF ResolutionInv, LinkInv, LinkTypeOK
    <3>2. IsText(h)
      BY <3>1 DEF IsTreeOfPages, Live
    <3>3. pages' = [pages EXCEPT ![p] = g]
      BY <2>2, <3>1
    <3> HIDE DEF links, stamp, h
    <3>4. IsText(g) /\ g.place = h.place
      BY <3>2 DEF IsText
    <3> HIDE DEF p, g
    <3> QED BY <3>1, <3>3, <3>4, TextWritten DEF h
  <2> QED BY <1>7, <2>1, <2>2
<1> HIDE DEF p, u
<1>3. /\ IsSeries(calls[t]) /\ Left(calls[t]) = {Head1(t)} \cup Left(Tail(calls[t]))
      /\ IsSeries(none) /\ Left(none) = {} /\ Left(s) = Left(Tail(calls[t]))
  <2>1. IsSeries(calls[t])
    BY DEF LinkInv, LinkTypeOK
  <2>2. IsSeries(none) /\ Left(none) = {}
    BY Ones
  <2> HIDE DEF none
  <2>3. IsSeries(Tail(calls[t])) /\ Left(calls[t]) = {Head1(t)} \cup Left(Tail(calls[t]))
    BY <1>1, <2>1, FirstAndRest DEF Head1
  <2> DEFINE rest == Tail(calls[t])
  <2> HIDE DEF rest
  <2>4. Left(none \o rest) = Left(none) \cup Left(rest)
    BY <2>2, <2>3, Joined DEF rest
  <2> QED BY <2>1, <2>2, <2>3, <2>4 DEF rest
<1>4. \A c \in Left(s) : Planned(c)
  BY <1>3 DEF ResolutionInv
<1>5. ASSUME Clean(calls[t], pages, rows)
      PROVE  Clean(s, pages', rows')
  <2> DEFINE before == calls[t]
             after == pages'
  <2>1. before # <<>> /\ before[1] = Head1(t) /\ IsSeries(before) /\ Writing(before[1]) /\ before[1].do # "prefix"
    BY <1>1, <1>3 DEF Head1, Writing
  <2>2. DOMAIN after = DOMAIN pages /\ (\A c : Safe(c, pages) => Safe(c, after)) /\ SamePlaces(pages, after)
    BY <1>2, PlacesOnly DEF SamePlaces
  <2>3. Mild(none, after)
    BY MildNone
  <2> HIDE DEF before, after, none
  <2>4. InFront(before, pages) /\ WritesLast(before) /\ \A c \in Left(before) : Safe(c, pages)
    BY <1>5 DEF Clean, before
  <2>5. InFront(none \o Tail(before), after) /\ WritesLast(none \o Tail(before)) /\ \A c \in Left(none \o Tail(before)) : Safe(c, after)
    BY <2>1, <2>2, <2>3, <2>4, Onward
  <2>6. \A c \in Left(s) : c.do \notin {"settle", "heal"}
    <3>1. TAKE c \in Left(s)
    <3>2. PICK k \in DOMAIN Tail(before) : c = Tail(before)[k]
      BY <1>3 DEF before, Left
    <3>3. 1 \in DOMAIN before /\ k + 1 \in DOMAIN before /\ k + 1 > 1 /\ Tail(before)[k] = before[k + 1]
      BY <2>1, FirstAndRest
    <3> QED BY <2>1, <2>4, <3>2, <3>3 DEF WritesLast
  <2>7. ASSUME NEW r \in rows
        PROVE  Attended(r, s, after)
    <3>1. Attended(r, calls[t], pages)
      BY <1>5 DEF Clean
    <3>2. \A c \in Left(calls[t]) : \A q : ~Healing(c, q, pages)
      BY <1>1, <1>3, <2>6 DEF Healing
    <3>3. \A x : ~Breaking(Head1(t), x) /\ ~Dropping(Head1(t), x)
      BY <1>1 DEF Breaking, Dropping
    <3> QED BY <1>3, <2>2, <3>1, <3>2, <3>3 DEF Attended, SamePlaces
  <2> QED BY <1>1, <2>5, <2>7 DEF Clean, before, after
<1> HIDE DEF s
<1>6. calls[t] = <<>> /\ calm' => Alone(t)
  BY <1>1
<1> QED BY <1>1, <1>2, <1>4, <1>5, <1>6, Stepped

-----------------------------------------------------------------------------
(* Paths *)

LEMMA SameNames ==
  ASSUME NEW a \in Seq(Names), NEW b \in Seq(Names), Len(a) = Len(b), \A i \in 1..Len(a) : a[i] = b[i]
  PROVE  a = b
OBVIOUS

LEMMA FrontIs ==
  ASSUME NEW a \in Seq(Names), NEW n \in 0..Len(a)
  PROVE  /\ SubSeq(a, 1, n) \in Seq(Names) /\ Len(SubSeq(a, 1, n)) = n
         /\ \A i \in 1..n : SubSeq(a, 1, n)[i] = a[i]
<1>1. Len(a) \in Nat /\ n \in Nat /\ 1..n \subseteq 1..Len(a)
  OBVIOUS
<1> QED BY <1>1

LEMMA UnderIs ==
  ASSUME NEW a \in Seq(Names), NEW b \in Seq(Names)
  PROVE  Under(a, b) <=> (Len(a) >= Len(b) /\ \A i \in 1..Len(b) : a[i] = b[i])
<1>1. Len(a) \in Nat /\ Len(b) \in Nat
  OBVIOUS
<1>2. ASSUME Len(a) >= Len(b)
      PROVE  SubSeq(a, 1, Len(b)) = b <=> \A i \in 1..Len(b) : a[i] = b[i]
  <2>1. /\ SubSeq(a, 1, Len(b)) \in Seq(Names) /\ Len(SubSeq(a, 1, Len(b))) = Len(b)
        /\ \A i \in 1..Len(b) : SubSeq(a, 1, Len(b))[i] = a[i]
    BY <1>1, <1>2, FrontIs
  <2> DEFINE s == SubSeq(a, 1, Len(b))
  <2> HIDE DEF s
  <2>2. s = b <=> \A i \in 1..Len(b) : s[i] = b[i]
    BY <2>1, SameNames DEF s
  <2> QED BY <2>1, <2>2 DEF s
<1> QED BY <1>2 DEF Under

IsRebased(m, a, b, c) ==
  /\ m \in Seq(Names) /\ Len(m) = Len(c) + (Len(a) - Len(b))
  /\ \A i \in 1..Len(c) : m[i] = c[i]
  /\ \A i \in 1..(Len(a) - Len(b)) : m[Len(c) + i] = a[Len(b) + i]

LEMMA RebasedIs ==
  ASSUME NEW a \in Seq(Names), NEW b \in Seq(Names), NEW c \in Seq(Names), Len(a) >= Len(b)
  PROVE  IsRebased(Rebased(a, b, c), a, b, c)
<1> DEFINE d == SubSeq(a, Len(b) + 1, Len(a))
<1>1. Len(a) \in Nat /\ Len(b) \in Nat /\ Len(c) \in Nat
  OBVIOUS
<1>2. d \in Seq(Names) /\ Len(d) = Len(a) - Len(b) /\ \A i \in 1..(Len(a) - Len(b)) : d[i] = a[Len(b) + i]
  BY <1>1
<1>3. Rebased(a, b, c) = c \o d
  BY DEF Rebased
<1>7. d \in Seq(Names)
  BY <1>2
<1> HIDE DEF d
<1>4. /\ c \o d \in Seq(Names) /\ Len(c \o d) = Len(c) + Len(d)
      /\ \A i \in 1..(Len(c) + Len(d)) : (c \o d)[i] = IF i <= Len(c) THEN c[i] ELSE d[i - Len(c)]
  BY <1>7
<1>5. \A i \in 1..Len(c) : (c \o d)[i] = c[i]
  BY <1>1, <1>2, <1>4
<1>6. \A i \in 1..(Len(a) - Len(b)) : (c \o d)[Len(c) + i] = a[Len(b) + i]
  <2>1. TAKE i \in 1..(Len(a) - Len(b))
  <2>2. Len(c) + i \in 1..(Len(c) + Len(d)) /\ ~(Len(c) + i <= Len(c)) /\ (Len(c) + i) - Len(c) = i
    BY <1>1, <1>2
  <2> QED BY <1>2, <1>4, <2>2
<1> QED BY <1>2, <1>3, <1>4, <1>5, <1>6 DEF IsRebased

LEMMA PlaceOf ==
  ASSUME NEW md, IsTreeOfPages(md), NEW p \in DOMAIN md
  PROVE  md[p].place \in Place /\ md[p].place \in Seq(Names) /\ Len(md[p].place) \in Nat \ {0} /\ md[p].title \in Title
<1>1. md[p].place \in Place /\ md[p].title \in Title
  BY DEF IsTreeOfPages, IsText
<1>2. \A a \in Seq(Names) : a # <<>> => Len(a) \in Nat \ {0}
  OBVIOUS
<1> QED BY <1>1, <1>2, PathsAreNoTitles

\* Each beginning of the path of a page is the path of a page.
LEMMA Ancestors ==
  ASSUME NEW md, IsTreeOfPages(md), NEW p \in DOMAIN md, NEW n \in 1..Len(md[p].place)
  PROVE  \E q \in DOMAIN md : md[q].place = SubSeq(md[p].place, 1, n)
<1> DEFINE a == md[p].place
           l == Len(a)
           There(k) == \E q \in DOMAIN md : md[q].place = SubSeq(a, 1, l - k)
           T == {k \in 0..(l - 1) : ~There(k)}
<1>1. a \in Seq(Names) /\ l \in Nat \ {0}
  BY PlaceOf
<1> HIDE DEF a
<1>2. There(0)
  <2>1. SubSeq(a, 1, l - 0) = a
    BY <1>1
  <2> QED BY <2>1 DEF a
<1>3. ASSUME NEW k \in 0..(l - 1), k + 1 \in 0..(l - 1), There(k)
      PROVE  There(k + 1)
  <2>1. PICK q \in DOMAIN md : md[q].place = SubSeq(a, 1, l - k)
    BY <1>3
  <2>2. l - k \in 0..l /\ l - (k + 1) \in 0..l /\ l - k > 1 /\ l - (k + 1) = (l - k) - 1
    BY <1>1, <1>3
  <2> DEFINE m == l - k
             b == SubSeq(a, 1, m)
             c == SubSeq(a, 1, m - 1)
  <2>3. m \in 0..Len(a) /\ m - 1 \in 0..Len(a) /\ m > 1 /\ m \in Nat
    BY <2>2
  <2>9. l - (k + 1) = m - 1 /\ md[q].place = b
    BY <2>1, <2>2
  <2> HIDE DEF m
  <2>4. b \in Seq(Names) /\ Len(b) = m /\ \A i \in 1..m : b[i] = a[i]
    BY <1>1, <2>3, FrontIs
  <2>5. c \in Seq(Names) /\ Len(c) = m - 1 /\ \A i \in 1..(m - 1) : c[i] = a[i]
    BY <1>1, <2>3, FrontIs
  <2> HIDE DEF b, c
  <2>6. SubSeq(b, 1, m - 1) \in Seq(Names) /\ Len(SubSeq(b, 1, m - 1)) = m - 1 /\ \A i \in 1..(m - 1) : SubSeq(b, 1, m - 1)[i] = b[i]
    <3>1. m - 1 \in 0..Len(b)
      BY <2>3, <2>4
    <3> QED BY <2>4, <3>1, FrontIs
  <2>7. SubSeq(b, 1, m - 1) = c
    <3>1. \A i \in 1..(m - 1) : SubSeq(b, 1, m - 1)[i] = c[i]
      BY <2>3, <2>4, <2>5, <2>6
    <3> DEFINE d == SubSeq(b, 1, m - 1)
    <3> HIDE DEF d
    <3> QED BY <2>5, <2>6, <3>1, SameNames DEF d
  <2>8. \E y \in DOMAIN md : md[y].place = c
    BY <2>3, <2>4, <2>7, <2>9 DEF IsTreeOfPages, IsTree
  <2> QED BY <2>8, <2>9 DEF c
<1> HIDE DEF There
<1>4. T = {}
  <2>1. SUFFICES ASSUME T # {}
                 PROVE  FALSE
    OBVIOUS
  <2>2. T \subseteq Nat
    BY <1>1
  <2>3. PICK m \in T : \A k \in T : m <= k
    BY <2>1, <2>2, LeastNatural
  <2>4. m # 0 /\ m \in 0..(l - 1)
    BY <1>2, <2>3
  <2>5. m - 1 \in 0..(l - 1) /\ ~(m <= m - 1) /\ (m - 1) + 1 = m
    BY <1>1, <2>4
  <2>6. There(m - 1)
    BY <2>3, <2>5
  <2> QED BY <1>3, <2>3, <2>4, <2>5, <2>6
<1>5. l - n \in 0..(l - 1) /\ l - (l - n) = n
  BY <1>1 DEF a
<1>6. There(l - n)
  BY <1>4, <1>5
<1> QED BY <1>5, <1>6 DEF There, a

\* Where no page is, there is none below.
LEMMA NoneBelow ==
  ASSUME NEW md, IsTreeOfPages(md), NEW place \in Place, \A p \in DOMAIN md : md[p].place # place, NEW p \in DOMAIN md
  PROVE  ~Under(md[p].place, place)
<1>1. SUFFICES ASSUME Under(md[p].place, place)
               PROVE  FALSE
  OBVIOUS
<1>2. Len(md[p].place) >= Len(place) /\ SubSeq(md[p].place, 1, Len(place)) = place
  BY <1>1 DEF Under
<1>3. Len(place) \in Nat \ {0} /\ Len(md[p].place) \in Nat
  <2>1. \A a \in Seq(Names) : a # <<>> => Len(a) \in Nat \ {0}
    OBVIOUS
  <2> QED BY <2>1, PlaceOf, PathsAreNoTitles
<1>4. Len(place) \in 1..Len(md[p].place)
  BY <1>2, <1>3
<1>5. \E q \in DOMAIN md : md[q].place = SubSeq(md[p].place, 1, Len(place))
  BY <1>4, Ancestors
<1> QED BY <1>2, <1>5

LEMMA RebasedOnce ==
  ASSUME NEW a \in Seq(Names), NEW d \in Seq(Names), NEW b \in Seq(Names), NEW c \in Seq(Names), Under(a, b), Under(d, b),
         Rebased(a, b, c) = Rebased(d, b, c)
  PROVE  a = d
<1> DEFINE m == Rebased(a, b, c)
<1>1. Len(a) \in Nat /\ Len(b) \in Nat /\ Len(c) \in Nat /\ Len(d) \in Nat
  OBVIOUS
<1>2. Len(a) >= Len(b) /\ Len(d) >= Len(b) /\ \A i \in 1..Len(b) : a[i] = b[i] /\ d[i] = b[i]
  BY UnderIs
<1>3. /\ Len(m) = Len(c) + (Len(a) - Len(b)) /\ Len(m) = Len(c) + (Len(d) - Len(b))
      /\ \A i \in 1..(Len(a) - Len(b)) : m[Len(c) + i] = a[Len(b) + i]
      /\ \A i \in 1..(Len(d) - Len(b)) : m[Len(c) + i] = d[Len(b) + i]
  <2>1. IsRebased(Rebased(a, b, c), a, b, c)
    BY <1>2, RebasedIs
  <2>2. IsRebased(Rebased(d, b, c), d, b, c)
    BY <1>2, RebasedIs
  <2>3. IsRebased(m, a, b, c) /\ IsRebased(m, d, b, c)
    BY <2>1, <2>2
  <2> HIDE DEF m
  <2> QED BY <2>3 DEF IsRebased
<1> HIDE DEF m
<1>4. Len(a) = Len(d)
  BY <1>1, <1>3
<1>5. ASSUME NEW i \in 1..Len(a)
      PROVE  a[i] = d[i]
  <2>1. CASE i <= Len(b)
    BY <1>1, <1>2, <2>1
  <2>2. CASE ~(i <= Len(b))
    <3>1. i - Len(b) \in 1..(Len(a) - Len(b)) /\ Len(b) + (i - Len(b)) = i
      BY <1>1, <2>2
    <3> QED BY <1>3, <1>4, <3>1
  <2> QED BY <2>1, <2>2
<1> QED BY <1>4, <1>5, SameNames

LEMMA RebasedItself ==
  ASSUME NEW b \in Seq(Names), NEW c \in Seq(Names)
  PROVE  Rebased(b, b, c) = c /\ Under(b, b)
<1> DEFINE m == Rebased(b, b, c)
<1>1. Len(b) \in Nat /\ Len(c) \in Nat
  OBVIOUS
<1>2. m \in Seq(Names) /\ Len(m) = Len(c) + (Len(b) - Len(b)) /\ \A i \in 1..Len(c) : m[i] = c[i]
  <2>1. Len(b) >= Len(b)
    BY <1>1
  <2>2. IsRebased(m, b, b, c)
    BY <2>1, RebasedIs
  <2> HIDE DEF m
  <2> QED BY <2>2 DEF IsRebased
<1> HIDE DEF m
<1>3. Len(m) = Len(c)
  BY <1>1, <1>2
<1>4. m = c
  BY <1>2, <1>3, SameNames
<1>5. Under(b, b)
  BY <1>1, UnderIs
<1> QED BY <1>4, <1>5 DEF m

\* The parent of a page below the relocated one goes with it, and stays its parent.
LEMMA RebasedFront ==
  ASSUME NEW a \in Seq(Names), NEW b \in Seq(Names), NEW c \in Seq(Names), Under(a, b), Len(a) > Len(b)
  PROVE  /\ Under(SubSeq(a, 1, Len(a) - 1), b)
         /\ Rebased(SubSeq(a, 1, Len(a) - 1), b, c) = SubSeq(Rebased(a, b, c), 1, Len(Rebased(a, b, c)) - 1)
<1> DEFINE f == SubSeq(a, 1, Len(a) - 1)
           m == Rebased(a, b, c)
           n == Rebased(f, b, c)
           g == SubSeq(m, 1, Len(m) - 1)
<1>1. Len(a) \in Nat /\ Len(b) \in Nat /\ Len(c) \in Nat
  OBVIOUS
<1>2. f \in Seq(Names) /\ Len(f) = Len(a) - 1 /\ \A i \in 1..(Len(a) - 1) : f[i] = a[i]
  <2>1. Len(a) - 1 \in 0..Len(a)
    BY <1>1
  <2> QED BY <2>1, FrontIs
<1>3. /\ m \in Seq(Names) /\ Len(m) = Len(c) + (Len(a) - Len(b)) /\ (\A i \in 1..Len(c) : m[i] = c[i])
      /\ \A i \in 1..(Len(a) - Len(b)) : m[Len(c) + i] = a[Len(b) + i]
  <2>1. Len(a) >= Len(b)
    BY <1>1
  <2>2. IsRebased(m, a, b, c)
    BY <2>1, RebasedIs
  <2> HIDE DEF m
  <2> QED BY <2>2 DEF IsRebased
<1>4. /\ n \in Seq(Names) /\ Len(n) = Len(c) + (Len(f) - Len(b)) /\ (\A i \in 1..Len(c) : n[i] = c[i])
      /\ \A i \in 1..(Len(f) - Len(b)) : n[Len(c) + i] = f[Len(b) + i]
  <2>1. Len(f) >= Len(b)
    BY <1>1, <1>2
  <2> HIDE DEF f
  <2>2. IsRebased(n, f, b, c)
    BY <1>2, <2>1, RebasedIs
  <2> HIDE DEF n
  <2> QED BY <2>2 DEF IsRebased
<1> HIDE DEF m
<1>5. g \in Seq(Names) /\ Len(g) = Len(m) - 1 /\ \A i \in 1..(Len(m) - 1) : g[i] = m[i]
  <2>1. Len(m) - 1 \in 0..Len(m)
    BY <1>1, <1>3
  <2> QED BY <1>3, <2>1, FrontIs
<1> HIDE DEF f, n, g
<1>6. Len(n) = Len(g) /\ Len(n) = Len(m) - 1
  BY <1>1, <1>2, <1>3, <1>4, <1>5
<1>7. ASSUME NEW i \in 1..Len(n)
      PROVE  n[i] = g[i]
  <2>1. i \in 1..(Len(m) - 1) /\ g[i] = m[i]
    BY <1>5, <1>6, <1>7
  <2>2. CASE i <= Len(c)
    BY <1>1, <1>3, <1>4, <2>1, <2>2
  <2>3. CASE ~(i <= Len(c))
    <3>1. /\ i - Len(c) \in 1..(Len(f) - Len(b)) /\ i - Len(c) \in 1..(Len(a) - Len(b)) /\ Len(c) + (i - Len(c)) = i
          /\ Len(b) + (i - Len(c)) \in 1..(Len(a) - 1)
      BY <1>1, <1>2, <1>3, <1>4, <1>6, <2>1, <2>3
    <3>2. n[i] = f[Len(b) + (i - Len(c))] /\ m[i] = a[Len(b) + (i - Len(c))] /\ f[Len(b) + (i - Len(c))] = a[Len(b) + (i - Len(c))]
      BY <1>2, <1>3, <1>4, <3>1
    <3> QED BY <2>1, <3>2
  <2> QED BY <2>2, <2>3
<1>8. n = g
  BY <1>4, <1>5, <1>6, <1>7, SameNames
<1>9. Under(f, b)
  <2>1. Len(f) >= Len(b) /\ \A i \in 1..Len(b) : i \in 1..(Len(a) - 1) /\ a[i] = b[i]
    BY <1>1, <1>2, UnderIs
  <2> QED BY <1>2, <2>1, UnderIs
<1> QED BY <1>8, <1>9 DEF n, g, m, f

LEMMA UnderFront ==
  ASSUME NEW a \in Seq(Names), NEW b \in Seq(Names), Len(a) > 0, Under(SubSeq(a, 1, Len(a) - 1), b)
  PROVE  Under(a, b)
<1> DEFINE f == SubSeq(a, 1, Len(a) - 1)
<1>1. Len(a) \in Nat /\ Len(b) \in Nat
  OBVIOUS
<1>2. f \in Seq(Names) /\ Len(f) = Len(a) - 1 /\ \A i \in 1..(Len(a) - 1) : f[i] = a[i]
  <2>1. Len(a) - 1 \in 0..Len(a)
    BY <1>1
  <2> QED BY <2>1, FrontIs
<1>3. Under(f, b)
  OBVIOUS
<1> HIDE DEF f
<1>4. Len(f) >= Len(b) /\ \A i \in 1..Len(b) : f[i] = b[i]
  BY <1>2, <1>3, UnderIs
<1>5. Len(a) >= Len(b) /\ \A i \in 1..Len(b) : a[i] = b[i]
  BY <1>1, <1>2, <1>4
<1> QED BY <1>5, UnderIs


LEMMA RelocatedTree ==
  ASSUME IsTreeOfPages(pages), NEW p \in Live, NEW place \in Place, NEW name \in Title, Free(p, place),
         NEW md, md = Relocated(p, place, name)
  PROVE  /\ DOMAIN md = Live /\ IsTreeOfPages(md) /\ p \in Subtree(p)
         /\ \A q \in Live : q \notin Subtree(p) => md[q].place = pages[q].place
         /\ \A q \in Subtree(p) : Under(md[q].place, place)
         /\ \A q \in Live : ~Under(pages[q].place, place) /\ ~Under(md[q].place, pages[p].place)
<1> DEFINE base == pages[p].place
           mine(q) == pages[q].place
<1>1. /\ place \in Seq(Names) /\ Len(place) \in Nat \ {0} /\ base \in Seq(Names) /\ Len(base) \in Nat \ {0}
      /\ \A q \in Live : mine(q) \in Seq(Names) /\ Len(mine(q)) \in Nat \ {0} /\ mine(q) \in Place
  <2>1. \A a \in Seq(Names) : a # <<>> => Len(a) \in Nat \ {0}
    OBVIOUS
  <2> QED BY <2>1, PathsAreNoTitles, PlaceOf DEF Live
<1>2. \A q : q \in Subtree(p) <=> q \in Live /\ Under(mine(q), base)
  BY DEF Subtree
<1>3. /\ DOMAIN md = Live /\ \A q \in Live : q \notin Subtree(p) => md[q] = pages[q]
      /\ \A q \in Subtree(p) : md[q].place = Rebased(mine(q), base, place) /\ IsText(md[q])
  <2>1. DOMAIN md = Live /\ \A q \in Live : q \notin Subtree(p) => md[q] = pages[q]
    BY DEF Relocated
  <2>2. ASSUME NEW q \in Subtree(p)
        PROVE  md[q].place = Rebased(mine(q), base, place) /\ IsText(md[q])
    <3> DEFINE g == pages[q]
               to == Rebased(g.place, base, place)
               nm == IF q = p THEN name ELSE g.title
               st == IF q = p THEN g.stamp + 1 ELSE g.stamp
    <3>1. q \in Live /\ IsText(g) /\ to \in Place
      BY <1>2 DEF IsTreeOfPages, Live, Free
    <3>2. md[q] = [g EXCEPT !.place = to, !.title = nm, !.stamp = st]
      BY <3>1 DEF Relocated
    <3>3. nm \in Title
      BY <3>1 DEF IsText
    <3>4. to = Rebased(mine(q), base, place)
      OBVIOUS
    <3> HIDE DEF g, to, nm, st
    <3> QED BY <3>1, <3>2, <3>3, <3>4 DEF IsText
  <2> QED BY <2>1, <2>2
<1>4. /\ (\A q \in Live : mine(q) # place) /\ ~Under(place, base)
      /\ Len(place) > 1 => \E q \in Live : mine(q) = SubSeq(place, 1, Len(place) - 1)
  BY DEF Free
<1>5. \A q \in Live : ~Under(mine(q), place)
  BY <1>4, NoneBelow DEF Live
<1>6. /\ \A q \in Live : \A z \in Live : mine(q) = mine(z) => q = z
      /\ \A q \in Live : Len(mine(q)) > 1 => \E z \in Live : mine(z) = SubSeq(mine(q), 1, Len(mine(q)) - 1)
  BY DEF IsTreeOfPages, IsTree, Live
<1>7. \A q \in Live : IsText(pages[q])
  BY DEF IsTreeOfPages, Live
<1>8. p \in Live /\ base = mine(p)
  OBVIOUS
<1> DEFINE moved(q) == md[q].place
<1>9. /\ \A q \in Live : q \notin Subtree(p) => moved(q) = mine(q)
      /\ \A q \in Subtree(p) : q \in Live /\ Under(mine(q), base) /\ moved(q) = Rebased(mine(q), base, place)
  BY <1>2, <1>3
<1>10. \A q \in Live : IsText(md[q])
  BY <1>3, <1>7
<1>11. DOMAIN md = Live
  BY <1>3
<1> HIDE DEF mine, moved, base
<1>12. \A q \in Subtree(p) : /\ moved(q) \in Seq(Names) /\ Len(moved(q)) = Len(place) + (Len(mine(q)) - Len(base))
                            /\ Len(mine(q)) >= Len(base) /\ \A i \in 1..Len(place) : moved(q)[i] = place[i]
  <2>1. TAKE q \in Subtree(p)
  <2>2. mine(q) \in Seq(Names) /\ Len(mine(q)) >= Len(base)
    BY <1>1, <1>9 DEF Under
  <2>3. IsRebased(Rebased(mine(q), base, place), mine(q), base, place)
    BY <1>1, <2>2, RebasedIs
  <2>4. IsRebased(moved(q), mine(q), base, place)
    BY <1>9, <2>3
  <2> QED BY <2>2, <2>4 DEF IsRebased
<1>13. \A q \in Subtree(p) : Under(moved(q), place)
  <2>1. TAKE q \in Subtree(p)
  <2>2. /\ moved(q) \in Seq(Names) /\ Len(moved(q)) = Len(place) + (Len(mine(q)) - Len(base))
        /\ Len(mine(q)) >= Len(base) /\ (\A i \in 1..Len(place) : moved(q)[i] = place[i]) /\ Len(mine(q)) \in Nat
    BY <1>1, <1>9, <1>12
  <2>3. Len(moved(q)) >= Len(place)
    BY <1>1, <2>2
  <2> QED BY <1>1, <2>2, <2>3, UnderIs
<1>14. ASSUME NEW q \in Live
       PROVE  ~Under(moved(q), base)
  <2>1. CASE q \notin Subtree(p)
    BY <1>2, <1>9, <2>1
  <2>2. CASE q \in Subtree(p)
    <3>1. /\ moved(q) \in Seq(Names) /\ Len(moved(q)) = Len(place) + (Len(mine(q)) - Len(base))
          /\ \A i \in 1..Len(place) : moved(q)[i] = place[i]
      BY <1>12, <2>2
    <3>2. SUFFICES ASSUME Under(moved(q), base)
                   PROVE  FALSE
      OBVIOUS
    <3>3. \A i \in 1..Len(base) : moved(q)[i] = base[i]
      BY <1>1, <3>1, <3>2, UnderIs
    <3>4. CASE Len(place) >= Len(base)
      <4>1. \A i \in 1..Len(base) : i \in 1..Len(place) /\ place[i] = base[i]
        BY <1>1, <3>1, <3>3, <3>4
      <4> QED BY <1>1, <1>4, <3>4, <4>1, UnderIs
    <3>5. CASE ~(Len(place) >= Len(base))
      <4>1. Len(base) >= Len(place) /\ \A i \in 1..Len(place) : i \in 1..Len(base) /\ base[i] = place[i]
        BY <1>1, <3>1, <3>3, <3>5
      <4>2. Under(base, place)
        BY <1>1, <4>1, UnderIs
      <4> QED BY <1>5, <1>8, <4>2
    <3> QED BY <3>4, <3>5
  <2> QED BY <2>1, <2>2
<1>15. ASSUME NEW q \in Live, NEW z \in Live, moved(q) = moved(z)
       PROVE  q = z
  <2>1. CASE q \in Subtree(p) /\ z \in Subtree(p)
    BY <1>1, <1>6, <1>9, <1>15, <2>1, RebasedOnce
  <2>2. CASE q \notin Subtree(p) /\ z \notin Subtree(p)
    BY <1>6, <1>9, <1>15, <2>2
  <2>3. CASE q \in Subtree(p) /\ z \notin Subtree(p)
    BY <1>5, <1>9, <1>13, <1>15, <2>3
  <2>4. CASE q \notin Subtree(p) /\ z \in Subtree(p)
    BY <1>5, <1>9, <1>13, <1>15, <2>4
  <2> QED BY <2>1, <2>2, <2>3, <2>4
<1>16. ASSUME NEW q \in Live, Len(moved(q)) > 1
       PROVE  \E z \in Live : moved(z) = SubSeq(moved(q), 1, Len(moved(q)) - 1)
  <2>1. CASE q \notin Subtree(p)
    <3>1. PICK z \in Live : mine(z) = SubSeq(mine(q), 1, Len(mine(q)) - 1)
      BY <1>6, <1>9, <1>16, <2>1
    <3>2. z \notin Subtree(p)
      <4>1. ~Under(mine(q), base)
        BY <1>2, <2>1
      <4>2. mine(q) \in Seq(Names) /\ Len(mine(q)) > 0
        BY <1>1
      <4>3. ~Under(mine(z), base)
        BY <1>1, <3>1, <4>1, <4>2, UnderFront
      <4> QED BY <1>9, <4>3
    <3> QED BY <1>9, <2>1, <3>1, <3>2
  <2>2. CASE q \in Subtree(p) /\ Len(mine(q)) > Len(base)
    <3>1. Len(mine(q)) > 1 /\ mine(q) \in Seq(Names) /\ Under(mine(q), base)
      BY <1>1, <1>9, <2>2
    <3>2. PICK z \in Live : mine(z) = SubSeq(mine(q), 1, Len(mine(q)) - 1)
      BY <1>6, <3>1
    <3>3. Under(mine(z), base) /\ Rebased(mine(z), base, place) = SubSeq(moved(q), 1, Len(moved(q)) - 1)
      BY <1>1, <1>9, <2>2, <3>1, <3>2, RebasedFront
    <3> QED BY <1>2, <1>9, <3>3
  <2>3. CASE q \in Subtree(p) /\ ~(Len(mine(q)) > Len(base))
    <3>1. Len(mine(q)) = Len(base)
      BY <1>1, <1>9, <1>12, <2>3
    <3>2. mine(q) = base
      <4>1. mine(q) \in Seq(Names) /\ \A i \in 1..Len(base) : mine(q)[i] = base[i]
        BY <1>1, <1>9, <2>3, UnderIs
      <4> QED BY <1>1, <3>1, <4>1, SameNames
    <3>3. moved(q) = place
      BY <1>1, <1>9, <2>3, <3>2, RebasedItself
    <3>4. PICK z \in Live : mine(z) = SubSeq(place, 1, Len(place) - 1)
      BY <1>4, <1>16, <3>3
    <3>5. z \notin Subtree(p)
      <4>1. ~Under(mine(z), base)
        BY <1>1, <1>4, <3>4, UnderFront
      <4> QED BY <1>9, <4>1
    <3> QED BY <1>9, <3>3, <3>4, <3>5
  <2> QED BY <2>1, <2>2, <2>3
<1>17. IsTreeOfPages(md)
  BY <1>10, <1>11, <1>15, <1>16 DEF IsTreeOfPages, IsTree, moved
<1>18. p \in Subtree(p)
  BY <1>1, <1>2, <1>8, RebasedItself
<1> QED BY <1>5, <1>9, <1>11, <1>13, <1>14, <1>17, <1>18 DEF mine, moved, base

-----------------------------------------------------------------------------
(* Relocations *)

\* One series and then another
Joint(u, a, b) ==
  /\ IsSeries(u) /\ Left(u) = Left(a) \cup Left(b) /\ DOMAIN u = 1..Len(u) /\ Len(u) \in Nat
  /\ Len(a) \in Nat /\ DOMAIN a = 1..Len(a)
  /\ \A k \in DOMAIN u : \/ k \in DOMAIN a /\ u[k] = a[k]
                         \/ k - Len(a) \in DOMAIN b /\ u[k] = b[k - Len(a)] /\ k > Len(a)

LEMMA JointIs ==
  ASSUME NEW a, IsSeries(a), NEW b, IsSeries(b)
  PROVE  Joint(a \o b, a, b)
<1>1. /\ IsSeries(a \o b) /\ Left(a \o b) = Left(a) \cup Left(b)
      /\ \A k \in DOMAIN (a \o b) : \/ k \in DOMAIN a /\ (a \o b)[k] = a[k]
                                    \/ k - Len(a) \in DOMAIN b /\ (a \o b)[k] = b[k - Len(a)] /\ k > Len(a)
      /\ Len(a) \in Nat /\ DOMAIN a = 1..Len(a) /\ DOMAIN (a \o b) \subseteq Nat
  BY Joined
<1>2. DOMAIN (a \o b) = 1..Len(a \o b) /\ Len(a \o b) \in Nat
  <2> DEFINE u == a \o b
  <2>1. IsSeries(u)
    BY <1>1
  <2> HIDE DEF u
  <2>2. DOMAIN u = 1..Len(u) /\ Len(u) \in Nat
    BY <2>1 DEF IsSeries
  <2> QED BY <2>2 DEF u
<1> QED BY <1>1, <1>2, Zenon DEF Joint

LEMMA RelocationForm ==
  ASSUME NEW p, NEW place, NEW name, NEW md, md = Relocated(p, place, name), NEW s, s = RelocationCalls(p, place, name)
  PROVE  /\ IsSeries(s)
         /\ \A c \in Left(s) : /\ c.do \in {"prefix", "incoming", "oldTitle", "settle"}
                               /\ c.do = "prefix" => c.arg = pages[p].place
                               /\ c.do = "settle" => c.arg = {Now(q, md) : q \in Subtree(p)}
                               /\ c.do = "incoming" => c.arg = p
         /\ \E c \in Left(s) : c.do = "prefix" /\ c.arg = pages[p].place
         /\ \A q \in Subtree(p) : \E c \in Left(s) : c.do = "settle" /\ Now(q, md) \in c.arg
         /\ \A k \in DOMAIN s : s[k].do = "incoming" => k = 2 /\ 1 \in DOMAIN s /\ s[1].do = "prefix"
<1> DEFINE S == {Now(q, md) : q \in Subtree(p)}
           settle == Settle(S)
           b == Call("prefix", pages[p].place)
           i == Call("incoming", p)
           o == Call("oldTitle", pages[p].title)
           pre == <<b>>
           mid == IF name = pages[p].title THEN <<>> ELSE <<i, o>>
           none == <<>>
           two == <<i, o>>
           a == pre \o mid
<1>1. s = a \o settle
  BY DEF RelocationCalls, Now
<1>2. /\ b.do = "prefix" /\ b.arg = pages[p].place /\ i.do = "incoming" /\ i.arg = p /\ o.do = "oldTitle"
  BY Fields
<1>3. /\ IsSeries(settle) /\ (\A c \in Left(settle) : c.do = "settle" /\ c.arg = S)
      /\ \A x \in S : \E c \in Left(settle) : c.do = "settle" /\ x \in c.arg
  <2> HIDE DEF S
  <2> QED BY SettleSeries
<1>4. \A q \in Subtree(p) : Now(q, md) \in S
  OBVIOUS
<1>5. mid = none \/ mid = two
  OBVIOUS
<1> HIDE DEF settle, S, b, i, o
<1>6. /\ IsSeries(pre) /\ Left(pre) = {b} /\ DOMAIN pre = {1} /\ pre[1] = b /\ Len(pre) = 1
      /\ IsSeries(none) /\ Left(none) = {} /\ DOMAIN none = {}
      /\ IsSeries(two) /\ Left(two) = {i, o} /\ DOMAIN two = {1, 2} /\ two[1] = i /\ two[2] = o
  BY Ones
<1> HIDE DEF pre, none, two, mid
<1>15. IsSeries(mid) /\ Left(mid) \subseteq {i, o} /\ \A k \in DOMAIN mid : k \in Nat /\ (mid[k].do = "incoming" => k = 1)
  BY <1>2, <1>5, <1>6
<1>16. Joint(a, pre, mid)
  BY <1>6, <1>15, JointIs
<1> HIDE DEF a
<1>17. b \in Left(a) /\ DOMAIN a = 1..Len(a) /\ Len(a) \in Nat
  BY <1>6, <1>16 DEF Joint
<1>18. 1 \in DOMAIN a
  <2>1. DOMAIN a # {}
    BY <1>17 DEF Left
  <2> QED BY <1>17, <2>1
<1>19. a[1] = b
  BY <1>6, <1>16, <1>18 DEF Joint
<1>7. /\ IsSeries(a) /\ b \in Left(a) /\ Left(a) \subseteq {b, i, o} /\ 1 \in DOMAIN a /\ a[1] = b
      /\ \A k \in DOMAIN a : a[k].do = "incoming" => k = 2
  <2>1. \A k \in DOMAIN a : a[k].do = "incoming" => k = 2
    <3>1. TAKE k \in DOMAIN a
    <3>2. CASE k \in DOMAIN pre /\ a[k] = pre[k]
      BY <1>2, <1>6, <3>2
    <3>3. CASE k - Len(pre) \in DOMAIN mid /\ a[k] = mid[k - Len(pre)]
      <4>1. k \in Nat
        BY <1>17
      <4> QED BY <1>6, <1>15, <3>3, <4>1
    <3> QED BY <1>16, <3>2, <3>3 DEF Joint
  <2> QED BY <1>6, <1>15, <1>16, <1>17, <1>18, <1>19, <2>1 DEF Joint
<1>20. Joint(a \o settle, a, settle)
  BY <1>3, <1>7, JointIs
<1>8. Joint(s, a, settle)
  BY <1>1, <1>20
<1>9. \A c \in Left(s) : \/ c \in {b, i, o}
                         \/ c.do = "settle" /\ c.arg = S
  BY <1>3, <1>7, <1>8 DEF Joint
<1>10. \A k \in DOMAIN settle : settle[k].do # "incoming"
  BY <1>3 DEF Left
<1>11. \A k \in DOMAIN s : s[k].do = "incoming" => k = 2
  BY <1>7, <1>8, <1>10 DEF Joint
<1>12. 1 \in DOMAIN s /\ s[1] = b
  <2>1. DOMAIN s # {} /\ DOMAIN s = 1..Len(s) /\ Len(s) \in Nat
    BY <1>7, <1>8 DEF Joint, Left
  <2>2. 1 \in DOMAIN s
    BY <2>1
  <2> QED BY <1>7, <1>8, <2>2 DEF Joint
<1>13. \A q \in Subtree(p) : \E c \in Left(s) : c.do = "settle" /\ Now(q, md) \in c.arg
  BY <1>3, <1>4, <1>8 DEF Joint
<1>14. b \in Left(s)
  BY <1>7, <1>8 DEF Joint
<1> QED BY <1>2, <1>8, <1>9, <1>11, <1>12, <1>13, <1>14 DEF S, Joint

\* Where all rows lead where they should, the calls of a relocation will do, whatever texts are written after them.
LEMMA RelocatedClean ==
  ASSUME IsTreeOfPages(pages), NEW p \in Live, NEW place \in Place, NEW name \in Title, Free(p, place),
         \A r \in rows : Right(r.to, r.target, pages),
         NEW u, IsSeries(u), \A c \in Left(u) : c.do \in {"subtree", "refresh"}
  PROVE  Clean(RelocationCalls(p, place, name) \o u, Relocated(p, place, name), rows)
<1> DEFINE md == Relocated(p, place, name)
           r == RelocationCalls(p, place, name)
           s == r \o u
           base == pages[p].place
           S == {Now(q, md) : q \in Subtree(p)}
<1>1. DOMAIN md = Live /\ IsTreeOfPages(md) /\ p \in Subtree(p)
  BY RelocatedTree
<1>2. /\ \A q \in Live : q \notin Subtree(p) => md[q].place = pages[q].place
      /\ \A q \in Subtree(p) : Under(md[q].place, place)
      /\ \A q \in Live : ~Under(pages[q].place, place) /\ ~Under(md[q].place, base)
  BY RelocatedTree
<1>3. /\ IsSeries(r)
      /\ \A c \in Left(r) : /\ c.do \in {"prefix", "incoming", "oldTitle", "settle"}
                            /\ c.do = "prefix" => c.arg = base
                            /\ c.do = "settle" => c.arg = S
                            /\ c.do = "incoming" => c.arg = p
      /\ \E c \in Left(r) : c.do = "prefix" /\ c.arg = base
      /\ \A q \in Subtree(p) : \E c \in Left(r) : c.do = "settle" /\ Now(q, md) \in c.arg
      /\ \A k \in DOMAIN r : r[k].do = "incoming" => k = 2 /\ 1 \in DOMAIN r /\ r[1].do = "prefix"
  BY RelocationForm
<1>4. \A q \in Subtree(p) : q \in Live /\ Under(pages[q].place, base)
  BY DEF Subtree
<1>5. \A q \in Live : q \notin Subtree(p) => ~Under(pages[q].place, base)
  BY DEF Subtree
<1>6. \A x \in S : \E q \in DOMAIN md : x = Now(q, md)
  BY <1>1, <1>4
<1> HIDE DEF md, r, S
<1>7. \A x \in S : x.page.title \notin Place
  BY <1>1, <1>6, PathsAreNoTitles DEF Now, IsTreeOfPages, IsText
<1>8. /\ IsSeries(s) /\ Left(s) = Left(r) \cup Left(u)
      /\ \A k \in DOMAIN s : \/ k \in DOMAIN r /\ s[k] = r[k]
                             \/ k - Len(r) \in DOMAIN u /\ s[k] = u[k - Len(r)] /\ k > Len(r)
      /\ Len(r) \in Nat /\ DOMAIN r = 1..Len(r) /\ DOMAIN s \subseteq Nat
  BY <1>3, Joined
<1> HIDE DEF s
<1>9. (\A k \in DOMAIN u : u[k].do \in {"subtree", "refresh"}) /\ \A k \in DOMAIN r : ~Writing(r[k]) /\ r[k] \in Left(r)
  BY <1>3 DEF Left, Writing
<1>10. InFront(s, md)
  <2>1. SUFFICES ASSUME NEW k \in DOMAIN s, s[k].do = "incoming", s[k].arg \in DOMAIN md
                 PROVE  k = 2 /\ s[1].do = "prefix" /\ \E c \in Left(s) : c.do = "settle" /\ Now(s[k].arg, md) \in c.arg
    BY DEF InFront
  <2>2. k \in DOMAIN r /\ s[k] = r[k]
    BY <1>8, <1>9, <2>1
  <2>3. k = 2 /\ 1 \in DOMAIN r /\ r[1].do = "prefix" /\ s[k].arg = p
    BY <1>3, <1>9, <2>1, <2>2
  <2>4. s[1] = r[1]
    <3>1. 1 \in DOMAIN s
      <4>1. DOMAIN s = 1..Len(s) /\ Len(s) \in Nat
        BY <1>8 DEF IsSeries
      <4> QED BY <2>1, <2>3, <4>1
    <3>2. ~(1 > Len(r))
      BY <1>8, <2>3
    <3> QED BY <1>8, <3>1, <3>2
  <2> QED BY <1>1, <1>3, <1>8, <2>3, <2>4
<1>11. WritesLast(s)
  <2>1. SUFFICES ASSUME NEW j \in DOMAIN s, NEW k \in DOMAIN s, j < k, Writing(s[j])
                 PROVE  s[k].do \notin {"settle", "heal"}
    BY DEF WritesLast
  <2>2. j > Len(r)
    BY <1>8, <1>9, <2>1
  <2>3. k \notin DOMAIN r
    BY <1>8, <2>1, <2>2
  <2> QED BY <1>8, <1>9, <2>3
<1>12. \A c \in Left(s) : Safe(c, md)
  <2>1. TAKE c \in Left(s)
  <2>2. CASE c \in Left(u)
    BY <2>2 DEF Safe
  <2>3. CASE c \in Left(r)
    BY <1>1, <1>2, <1>3, <1>7, <2>3 DEF Safe
  <2> QED BY <1>8, <2>2, <2>3
<1>13. ASSUME NEW x \in rows
       PROVE  Attended(x, s, md)
  <2>1. Right(x.to, x.target, pages)
    OBVIOUS
  <2>2. ASSUME NEW q \in DOMAIN md, x.to = md[q].place
        PROVE  x.target = q \/ (x.target = NoPage /\ \E c \in Left(s) : Healing(c, q, md))
    <3>1. CASE q \notin Subtree(p)
      BY <1>1, <1>2, <2>1, <2>2, <3>1 DEF Right, Live
    <3>2. CASE q \in Subtree(p)
      <4>1. x.to \in Place
        BY <1>1, <2>2 DEF IsTreeOfPages, IsText
      <4>2. \A z \in DOMAIN pages : pages[z].place # x.to
        BY <1>2, <2>2, <3>2 DEF Live
      <4>3. x.target = NoPage
        BY <2>1, <4>1, <4>2 DEF Right
      <4>4. \E c \in Left(s) : c.do = "settle" /\ Now(q, md) \in c.arg
        BY <1>3, <1>8, <3>2
      <4> QED BY <4>3, <4>4 DEF Healing
    <3> QED BY <3>1, <3>2
  <2>3. ASSUME x.to \in Place, x.target # NoPage, \A q \in DOMAIN md : md[q].place # x.to
        PROVE  \E c \in Left(s) : Breaking(c, x.to)
    <3>1. PICK q \in DOMAIN pages : pages[q].place = x.to
      BY <2>1, <2>3 DEF Right
    <3>2. q \in Subtree(p)
      BY <1>1, <1>2, <2>3, <3>1 DEF Live
    <3>3. Under(x.to, base)
      BY <1>4, <3>1, <3>2
    <3> QED BY <1>3, <1>8, <3>3 DEF Breaking
  <2>4. x.target # NoPage => x.target \in DOMAIN md
    BY <1>1, <2>1 DEF Right, Live
  <2> QED BY <2>2, <2>3, <2>4 DEF Attended
<1>14. Clean(s, md, rows)
  BY <1>10, <1>11, <1>12, <1>13 DEF Clean
<1> QED BY <1>14 DEF s, r, md

LEMMA PlainPlanned ==
  ASSUME NEW s, \A c \in Left(s) : c.do # "target"
  PROVE  \A c \in Left(s) : Planned(c)
BY DEF Planned

LEMMA RelocateHeals ==
  ASSUME LinkInv, ResolutionInv, NEW t \in Thread, NEW p \in Live, NEW place \in Place, NEW name \in Title, Relocate(t, p, place, name)
  PROVE  ResolutionInv'
<1> DEFINE s == RelocationCalls(p, place, name)
           md == Relocated(p, place, name)
           none == <<>>
<1>1. /\ calls[t] = none /\ rows' = rows /\ pages' = md /\ calls' = [calls EXCEPT ![t] = s] /\ Free(p, place)
      /\ (calm' => calm) /\ (calm' => Alone(t))
  BY DEF Relocate, Asked, Changes
<1>2. IsTreeOfPages(pages)
  BY DEF ResolutionInv
<1>3. IsTreeOfPages(md)
  BY <1>1, <1>2, RelocatedTree
<1>4. IsSeries(s) /\ \A c \in Left(s) : c.do # "target"
  <2>1. IsSeries(s) /\ \A c \in Left(s) : c.do \in {"prefix", "incoming", "oldTitle", "settle"}
    BY RelocationForm
  <2> HIDE DEF s
  <2> QED BY <2>1
<1>5. ASSUME Clean(none, pages, rows)
      PROVE  Clean(s, md, rows)
  <2>1. \A r \in rows : Right(r.to, r.target, pages)
    BY <1>5, NothingLeft
  <2>2. IsSeries(none) /\ Left(none) = {}
    BY Ones
  <2> HIDE DEF none
  <2>3. Clean(s \o none, md, rows)
    BY <1>1, <1>2, <2>1, <2>2, RelocatedClean
  <2> HIDE DEF s
  <2>4. s \o <<>> = s
    BY <1>4 DEF IsSeries
  <2> QED BY <2>3, <2>4 DEF none
<1> HIDE DEF s, md, none
<1>6. \A c \in Left(s) : Planned(c)
  BY <1>4, PlainPlanned
<1>7. IsTreeOfPages(pages')
  BY <1>1, <1>3
<1>8. Clean(calls[t], pages, rows) => Clean(s, pages', rows')
  BY <1>1, <1>5
<1> QED BY <1>1, <1>6, <1>7, <1>8, Stepped

LEMMA RelocateTargetHeals ==
  ASSUME LinkInv, ResolutionInv, NEW t \in Thread, RelocateTarget(t)
  PROVE  ResolutionInv'
<1> DEFINE place == Head1(t).arg.rule.new
           name == Head1(t).arg.rule.newTitle
           p == Head1(t).arg.of.id
           r == RelocationCalls(p, place, name)
           md == Relocated(p, place, name)
           none == <<>>
           u == Tail(calls[t])
           s == r \o u
<1>1. /\ calls[t] # none /\ rows' = rows /\ Head1(t).do = "target" /\ (calm' => calm)
      /\ \/ pages' = md /\ calls' = [calls EXCEPT ![t] = s] /\ p \in Live /\ Free(p, place)
         \/ calls' = [calls EXCEPT ![t] = none] /\ pages' = pages
  BY DEF RelocateTarget, Does, Goes, Changes, Writable
<1>2. IsTreeOfPages(pages) /\ \A c \in Left(calls[t]) : Planned(c)
  BY DEF ResolutionInv
<1>3. /\ Left(calls[t]) = {Head1(t)} \cup Left(u) /\ IsSeries(u) /\ \A c \in Left(u) : c.do \in {"subtree", "refresh"}
  <2>1. WellFormed(calls[t], Gone) /\ Fine(none, Gone)
    BY EmptyFine DEF LinkInv
  <2>2. Left(calls[t]) = {Head1(t)} \cup Left(u) /\ \A c \in Left(u) : c.do \in {"subtree", "refresh"}
    <3> HIDE DEF none
    <3> QED BY <1>1, <2>1, Prefixed DEF Head1, none
  <2>3. IsSeries(u)
    <3>1. IsSeries(calls[t])
      BY <2>1 DEF WellFormed
    <3> QED BY <1>1, <3>1, FirstAndRest
  <2> QED BY <2>2, <2>3
<1>4. place \in Place /\ name \in Title
  BY <1>1, <1>2, <1>3 DEF Planned
<1>5. ASSUME Clean(calls[t], pages, rows)
      PROVE  \A x \in rows : Right(x.to, x.target, pages)
  <2>1. \A c \in Left(calls[t]) : c.do \in {"target", "subtree", "refresh"}
    BY <1>1, <1>3
  <2>2. /\ \A q \in DOMAIN pages : \A c \in Left(calls[t]) : ~Healing(c, q, pages)
        /\ \A c \in Left(calls[t]) : \A x : ~Breaking(c, x) /\ ~Dropping(c, x)
    BY <2>1 DEF Healing, Breaking, Dropping
  <2> QED BY <1>5, <2>2, RestIsRight DEF Clean
<1> HIDE DEF u
<1>6. CASE pages' = md /\ calls' = [calls EXCEPT ![t] = s] /\ p \in Live /\ Free(p, place)
  <2> HIDE DEF place, name, p
  <2>1. IsTreeOfPages(md)
    BY <1>2, <1>4, <1>6, RelocatedTree
  <2>2. IsSeries(r) /\ \A c \in Left(r) : c.do \in {"prefix", "incoming", "oldTitle", "settle"}
    BY RelocationForm
  <2>3. ASSUME Clean(calls[t], pages, rows)
        PROVE  Clean(s, md, rows)
    <3>1. \A x \in rows : Right(x.to, x.target, pages)
      BY <1>5, <2>3
    <3> QED BY <1>2, <1>3, <1>4, <1>6, <3>1, RelocatedClean
  <2> HIDE DEF r, md
  <2>4. \A c \in Left(s) : c.do # "target"
    <3>1. Left(r \o u) = Left(r) \cup Left(u)
      BY <1>3, <2>2, Joined
    <3> QED BY <1>3, <2>2, <3>1
  <2> HIDE DEF s
  <2>5. \A c \in Left(s) : Planned(c)
    BY <2>4, PlainPlanned
  <2>6. IsTreeOfPages(pages')
    BY <1>6, <2>1
  <2>7. Clean(calls[t], pages, rows) => Clean(s, pages', rows')
    BY <1>1, <1>6, <2>3
  <2>8. calls[t] = <<>> /\ calm' => Alone(t)
    BY <1>1
  <2> QED BY <1>1, <1>6, <2>5, <2>6, <2>7, <2>8, Stepped
<1>7. CASE calls' = [calls EXCEPT ![t] = none] /\ pages' = pages
  <2>1. Left(none) = {}
    BY Ones
  <2>2. Clean(calls[t], pages, rows) => Clean(none, pages', rows')
    <3>1. ASSUME Clean(calls[t], pages, rows)
          PROVE  Clean(none, pages, rows)
      BY <1>5, <3>1, NothingLeft
    <3> QED BY <1>1, <1>7, <3>1
  <2> HIDE DEF none
  <2>3. \A c \in Left(none) : Planned(c)
    BY <2>1
  <2>4. IsTreeOfPages(pages')
    BY <1>2, <1>7
  <2>5. calls[t] = <<>> /\ calm' => Alone(t)
    BY <1>1 DEF none
  <2> QED BY <1>1, <1>7, <2>2, <2>3, <2>4, <2>5, Stepped
<1> QED BY <1>1, <1>6, <1>7

-----------------------------------------------------------------------------
(* Operations that begin *)

LEMMA Started ==
  ASSUME LinkInv, ResolutionInv, NEW t \in Thread, calls[t] = <<>>, Changes(t), NEW s, calls' = [calls EXCEPT ![t] = s],
         \A c \in Left(s) : Planned(c), IsTreeOfPages(pages'),
         (\A r \in rows : Right(r.to, r.target, pages)) => Clean(s, pages', rows')
  PROVE  ResolutionInv'
<1>1. (calm' => calm) /\ (calm' => Alone(t))
  BY DEF Changes
<1>2. Clean(<<>>, pages, rows) => \A r \in rows : Right(r.to, r.target, pages)
  BY NothingLeft
<1>3. Clean(calls[t], pages, rows) => Clean(s, pages', rows')
  BY <1>2
<1> QED BY <1>1, <1>3, Stepped

LEMMA CreateHeals ==
  ASSUME LinkInv, ResolutionInv, NEW t \in Thread, NEW p \in Page, NEW place \in Place, NEW name \in Title, NEW links,
         Create(t, p, place, name, links)
  PROVE  ResolutionInv'
<1> DEFINE page == [place |-> place, title |-> name, links |-> links, stamp |-> 1]
           S == {[id |-> p, page |-> page]}
           s == Settle(S)
<1>1. /\ calls[t] = <<>> /\ p \notin used /\ pages' = [q \in Live \cup {p} |-> IF q = p THEN page ELSE pages[q]]
      /\ calls' = [calls EXCEPT ![t] = s] /\ rows' = rows /\ Changes(t) /\ (\A q \in Live : pages[q].place # place)
      /\ Len(place) > 1 => \E q \in Live : pages[q].place = SubSeq(place, 1, Len(place) - 1)
  BY DEF Create, Asked
<1>2. page.place = place /\ IsText(page)
  BY DEF IsText
<1>3. IsTreeOfPages(pages) /\ Live = DOMAIN pages /\ Live \subseteq used
  BY DEF ResolutionInv, LinkInv, LinkTypeOK, Live
<1> HIDE DEF page
<1>4. /\ DOMAIN pages' = Live \cup {p} /\ pages'[p] = page /\ p \notin Live /\ \A q \in Live : pages'[q] = pages[q]
  BY <1>1, <1>3
<1>5. IsTreeOfPages(pages')
  <2>1. \A q \in DOMAIN pages' : IsText(pages'[q])
    BY <1>2, <1>3, <1>4 DEF IsTreeOfPages
  <2>2. \A q, z \in DOMAIN pages' : pages'[q].place = pages'[z].place => q = z
    BY <1>1, <1>2, <1>3, <1>4 DEF IsTreeOfPages, IsTree
  <2>3. ASSUME NEW q \in DOMAIN pages', Len(pages'[q].place) > 1
        PROVE  \E z \in DOMAIN pages' : pages'[z].place = SubSeq(pages'[q].place, 1, Len(pages'[q].place) - 1)
    <3>1. CASE q = p
      BY <1>1, <1>2, <1>4, <2>3, <3>1
    <3>2. CASE q # p
      BY <1>3, <1>4, <2>3, <3>2 DEF IsTreeOfPages, IsTree
    <3> QED BY <3>1, <3>2
  <2> QED BY <2>1, <2>2, <2>3 DEF IsTreeOfPages, IsTree
<1>6. \A x \in S : x = Now(p, pages')
  BY <1>4 DEF Now
<1>7. Now(p, pages') \in S
  BY <1>4 DEF Now
<1> HIDE DEF S
<1>8. IsSeries(s) /\ \A c \in Left(s) : c.do = "settle" /\ Safe(c, pages')
  BY <1>4, <1>5, <1>6, SettleSafe
<1>9. \E c \in Left(s) : c.do = "settle" /\ Now(p, pages') \in c.arg
  BY <1>7, SettleSeries
<1> HIDE DEF s
<1>10. \A k \in DOMAIN s : s[k].do = "settle"
  BY <1>8 DEF Left
<1>11. \A c \in Left(s) : Planned(c)
  BY <1>8, PlainPlanned
<1>12. ASSUME \A r \in rows : Right(r.to, r.target, pages)
       PROVE  Clean(s, pages', rows')
  <2>1. InFront(s, pages') /\ WritesLast(s)
    BY <1>10 DEF InFront, WritesLast, Writing
  <2>2. ASSUME NEW r \in rows
        PROVE  Attended(r, s, pages')
    <3>1. Right(r.to, r.target, pages)
      BY <1>12
    <3>2. ASSUME NEW q \in DOMAIN pages', r.to = pages'[q].place
          PROVE  r.target = q \/ (r.target = NoPage /\ \E c \in Left(s) : Healing(c, q, pages'))
      <4>1. CASE q = p
        <5>1. r.to = place
          BY <1>2, <1>4, <3>2, <4>1
        <5>2. r.target = NoPage
          BY <1>1, <1>3, <3>1, <5>1 DEF Right
        <5> QED BY <1>9, <4>1, <5>2 DEF Healing
      <4>2. CASE q # p
        BY <1>3, <1>4, <3>1, <3>2, <4>2 DEF Right
      <4> QED BY <4>1, <4>2
    <3>3. ~(r.to \in Place /\ r.target # NoPage /\ \A q \in DOMAIN pages' : pages'[q].place # r.to)
      BY <1>3, <1>4, <3>1 DEF Right
    <3>4. r.target # NoPage => r.target \in DOMAIN pages'
      BY <1>3, <1>4, <3>1 DEF Right
    <3> QED BY <3>2, <3>3, <3>4 DEF Attended
  <2> QED BY <1>1, <1>8, <2>1, <2>2 DEF Clean
<1> QED BY <1>1, <1>5, <1>11, <1>12, Started

\* The text of one page is written.
LEMMA SaveHeals ==
  ASSUME LinkInv, ResolutionInv, NEW t \in Thread, NEW p \in Live, NEW name \in Title, NEW links,
         Save(t, p, name, links) \/ RestoreRevision(t, p, name, links) \/ Pin(t, p)
  PROVE  ResolutionInv'
<1> DEFINE h == pages[p]
           stamp == h.stamp + 1
           g == IF Pin(t, p) THEN [h EXCEPT !.stamp = stamp] ELSE [h EXCEPT !.title = name, !.links = links, !.stamp = stamp]
           S == {[id |-> p, page |-> pages'[p]]}
           c == Call("readBack", p)
           back == <<c>>
           none == <<>>
<1>1. IsTreeOfPages(pages) /\ pages = [q \in Live |-> pages[q]]
  BY DEF ResolutionInv, LinkInv, LinkTypeOK
<1>2. /\ calls[t] = <<>> /\ rows' = rows /\ Changes(t)
      /\ \/ calls' = [calls EXCEPT ![t] = Settle(S)] \/ calls' = [calls EXCEPT ![t] = back] \/ calls' = calls
  BY DEF Save, RestoreRevision, Pin, Asked
<1>3. IsText(h)
  BY <1>1 DEF IsTreeOfPages, Live
<1>4. pages' = [pages EXCEPT ![p] = g]
  <2>1. CASE Pin(t, p)
    BY <1>1, <2>1 DEF Pin
  <2>2. CASE ~Pin(t, p)
    BY <1>1, <2>2 DEF Save, RestoreRevision
  <2> QED BY <2>1, <2>2
<1>5. IsText(g) /\ g.place = h.place
  <2> HIDE DEF h, stamp
  <2> QED BY <1>3 DEF IsText
<1> HIDE DEF g
<1>6. IsTreeOfPages(pages') /\ SamePlaces(pages, pages') /\ DOMAIN pages' = Live /\ pages'[p] = g
  BY <1>1, <1>4, <1>5, TextWritten
<1>7. c.do = "readBack"
  BY Fields
<1> HIDE DEF c
<1>8. /\ Left(back) = {c} /\ DOMAIN back = {1} /\ back[1] = c /\ Left(none) = {} /\ DOMAIN none = {}
  BY Ones
<1> HIDE DEF back, none
<1>9. \A x \in S : \E q \in DOMAIN pages' : x = Now(q, pages')
  BY <1>6 DEF Now
<1> HIDE DEF S
<1>10. (\A r \in rows : Right(r.to, r.target, pages)) => \A r \in rows' : Right(r.to, r.target, pages')
  BY <1>2, <1>6, PlacesOnly
<1>11. CASE calls' = [calls EXCEPT ![t] = Settle(S)]
  <2> DEFINE s == Settle(S)
  <2>1. \A x \in Left(s) : x.do # "target"
    BY SettleSeries
  <2>2. (\A r \in rows' : Right(r.to, r.target, pages')) => Clean(s, pages', rows')
    BY <1>6, <1>9, SettleClean
  <2> HIDE DEF s
  <2>3. \A x \in Left(s) : Planned(x)
    BY <2>1, PlainPlanned
  <2>4. calls' = [calls EXCEPT ![t] = s]
    BY <1>11 DEF s
  <2> QED BY <1>2, <1>6, <1>10, <2>2, <2>3, <2>4, Started
<1>12. CASE calls' = [calls EXCEPT ![t] = back] \/ calls' = calls
  <2> DEFINE s == IF calls' = calls THEN none ELSE back
  <2>1. calls' = [calls EXCEPT ![t] = s]
    BY <1>2, <1>12 DEF none, LinkInv, LinkTypeOK
  <2>2. (\A x \in Left(s) : x.do = "readBack") /\ \A k \in DOMAIN s : s[k].do = "readBack"
    BY <1>7, <1>8
  <2> HIDE DEF s
  <2>3. WritesLast(s) /\ \A x \in Left(s) : Safe(x, pages') /\ ~(x.do = "incoming" /\ x.arg \in DOMAIN pages')
    BY <2>2 DEF WritesLast, Safe
  <2>4. (\A r \in rows' : Right(r.to, r.target, pages')) => Clean(s, pages', rows')
    BY <2>3, FreshClean
  <2>5. \A x \in Left(s) : Planned(x)
    BY <2>2, PlainPlanned
  <2> QED BY <1>2, <1>6, <1>10, <2>1, <2>4, <2>5, Started
<1> QED BY <1>2, <1>11, <1>12

LEMMA RebuildHeals ==
  ASSUME LinkInv, ResolutionInv, NEW t \in Thread, Rebuild(t)
  PROVE  ResolutionInv'
<1> DEFINE c == Call("clear", NoPage)
           d == Call("walk", NoPage)
           s == <<c, d>>
<1>1. calls[t] = <<>> /\ calls' = [calls EXCEPT ![t] = s] /\ rows' = rows /\ pages' = pages /\ Changes(t)
  BY DEF Rebuild, Asked
<1>2. c.do = "clear" /\ d.do = "walk"
  BY Fields
<1> HIDE DEF c, d
<1>3. Left(s) = {c, d} /\ DOMAIN s = {1, 2} /\ s[1] = c /\ s[2] = d
  BY Ones
<1> HIDE DEF s
<1>4. WritesLast(s) /\ \A x \in Left(s) : Safe(x, pages) /\ ~(x.do = "incoming" /\ x.arg \in DOMAIN pages)
  BY <1>2, <1>3 DEF WritesLast, Safe
<1>5. (\A r \in rows : Right(r.to, r.target, pages)) => Clean(s, pages', rows')
  BY <1>1, <1>4, FreshClean
<1>6. \A x \in Left(s) : Planned(x)
  BY <1>2, <1>3, PlainPlanned
<1>7. IsTreeOfPages(pages')
  BY <1>1 DEF ResolutionInv
<1> QED BY <1>1, <1>5, <1>6, <1>7, Started

LEMMA RefactorHeals ==
  ASSUME LinkInv, ResolutionInv, NEW t \in Thread, NEW p \in Live, NEW place \in Place, NEW name \in Title, Refactor(t, p, place, name)
  PROVE  ResolutionInv'
<1> DEFINE rule == [old |-> pages[p].place, new |-> place, oldTitle |-> pages[p].title, newTitle |-> name]
           b == [of |-> Snapshot(p), rule |-> rule]
<1>1. /\ calls[t] = <<>> /\ rows' = rows /\ pages' = pages /\ Changes(t)
      /\ \E a, e, d : calls' = [calls EXCEPT ![t] =
                        <<Call("rewrite", a), Call("target", b), Call("subtree", e), Call("refresh", d)>>]
  BY DEF Refactor, Asked
<1>2. PICK a, e, d : calls' = [calls EXCEPT ![t] =
                       <<Call("rewrite", a), Call("target", b), Call("subtree", e), Call("refresh", d)>>]
  BY <1>1
<1>3. rule.new = place /\ rule.newTitle = name /\ b.rule = rule
  OBVIOUS
<1> HIDE DEF rule, b
<1> DEFINE w == Call("rewrite", a)
           x == Call("target", b)
           y == Call("subtree", e)
           z == Call("refresh", d)
           s == <<w, x, y, z>>
<1>4. w.do = "rewrite" /\ x.do = "target" /\ x.arg = b /\ y.do = "subtree" /\ z.do = "refresh"
  BY Fields
<1>5. calls' = [calls EXCEPT ![t] = s]
  BY <1>2
<1> HIDE DEF w, x, y, z
<1>6. Left(s) = {w, x, y, z} /\ DOMAIN s = {1, 2, 3, 4} /\ s[1] = w /\ s[2] = x /\ s[3] = y /\ s[4] = z
  BY Ones
<1> HIDE DEF s
<1>7. \A k \in DOMAIN s : s[k].do \notin {"settle", "heal"}
  BY <1>4, <1>6
<1>8. WritesLast(s) /\ \A c \in Left(s) : Safe(c, pages) /\ ~(c.do = "incoming" /\ c.arg \in DOMAIN pages)
  BY <1>4, <1>6, <1>7 DEF WritesLast, Safe
<1>9. (\A r \in rows : Right(r.to, r.target, pages)) => Clean(s, pages', rows')
  BY <1>1, <1>8, FreshClean
<1>10. \A c \in Left(s) : Planned(c)
  BY <1>3, <1>4, <1>6 DEF Planned
<1>11. IsTreeOfPages(pages')
  BY <1>1 DEF ResolutionInv
<1> QED BY <1>1, <1>5, <1>9, <1>10, <1>11, Started

-----------------------------------------------------------------------------
(* Deletions *)

\* The pages that stay are a tree, below none of those that went.
LEMMA RestOfTree ==
  ASSUME IsTreeOfPages(pages), NEW p \in Live, NEW md, md = [q \in Live \ Subtree(p) |-> pages[q]]
  PROVE  /\ IsTreeOfPages(md) /\ DOMAIN md = Live \ Subtree(p) /\ p \in Subtree(p)
         /\ \A q \in DOMAIN md : md[q].place = pages[q].place /\ ~Under(md[q].place, pages[p].place)
<1> DEFINE base == pages[p].place
<1>1. DOMAIN md = Live \ Subtree(p) /\ \A q \in DOMAIN md : md[q] = pages[q]
  OBVIOUS
<1>2. base \in Seq(Names) /\ \A q \in Live : pages[q].place \in Seq(Names) /\ Len(pages[q].place) > 0
  BY PlaceOf DEF Live
<1>3. p \in Subtree(p)
  BY <1>2, RebasedItself DEF Subtree
<1>4. \A q \in Live : q \notin Subtree(p) <=> ~Under(pages[q].place, base)
  BY DEF Subtree
<1> HIDE DEF base
<1>5. ASSUME NEW q \in DOMAIN md, Len(md[q].place) > 1
      PROVE  \E z \in DOMAIN md : md[z].place = SubSeq(md[q].place, 1, Len(md[q].place) - 1)
  <2>1. q \in Live /\ md[q] = pages[q] /\ ~Under(pages[q].place, base)
    BY <1>1, <1>4
  <2>2. PICK z \in Live : pages[z].place = SubSeq(pages[q].place, 1, Len(pages[q].place) - 1)
    BY <1>5, <2>1 DEF IsTreeOfPages, IsTree, Live
  <2>3. ~Under(pages[z].place, base)
    BY <1>2, <2>1, <2>2, UnderFront
  <2>4. z \in DOMAIN md /\ md[z] = pages[z]
    BY <1>1, <1>4, <2>3
  <2> QED BY <2>1, <2>2, <2>4
<1>6. /\ \A q \in DOMAIN md : IsText(md[q])
      /\ \A q, z \in DOMAIN md : md[q].place = md[z].place => q = z
  BY <1>1 DEF IsTreeOfPages, IsTree, Live
<1>7. IsTreeOfPages(md)
  BY <1>5, <1>6 DEF IsTreeOfPages, IsTree
<1> QED BY <1>1, <1>3, <1>4, <1>7 DEF base

LEMMA DeleteHeals ==
  ASSUME LinkInv, ResolutionInv, NEW t \in Thread, NEW p \in Live, Delete(t, p)
  PROVE  ResolutionInv'
<1> DEFINE gone == Subtree(p)
           base == pages[p].place
           out == Each("outgoing", gone)
           in == Each("incoming", gone)
           titles == Each("oldTitle", {pages[q].title : q \in gone})
           b == Call("prefix", base)
           i == Call("incoming", p)
           o == Call("path", base)
           prefix == <<b>>
           alone == <<i, o>>
           mid == IF gone # {p} THEN prefix \o in ELSE alone
           a == out \o mid
           s == a \o titles
           md == [q \in Live \ gone |-> pages[q]]
<1>1. /\ calls[t] = <<>> /\ pages' = md /\ rows' = rows /\ calls' = [calls EXCEPT ![t] = s] /\ Changes(t)
  BY DEF Delete, Asked
<1>2. /\ IsTreeOfPages(md) /\ DOMAIN md = Live \ gone /\ p \in gone
      /\ \A q \in DOMAIN md : md[q].place = pages[q].place /\ ~Under(md[q].place, base)
  BY RestOfTree DEF ResolutionInv
<1>3. \A q \in gone : q \in Live /\ Under(pages[q].place, base)
  BY DEF Subtree
<1>4. /\ b.do = "prefix" /\ b.arg = base /\ i.do = "incoming" /\ i.arg = p /\ o.do = "path" /\ o.arg = base
  BY Fields
<1>5. /\ IsSeries(out) /\ \A c \in Left(out) : c.do = "each" /\ c.arg.what = "outgoing"
  BY EachSeries
<1>6. /\ IsSeries(titles) /\ \A c \in Left(titles) : c.do = "each" /\ c.arg.what = "oldTitle"
  BY EachSeries
<1>7. IsTreeOfPages(pages)
  BY DEF ResolutionInv
<1> HIDE DEF gone
<1>8. /\ IsSeries(in) /\ (\A c \in Left(in) : c.do = "each" /\ c.arg.what = "incoming" /\ c.arg.of = gone)
      /\ \A x \in gone : \E c \in Left(in) : c.do = "each" /\ c.arg.what = "incoming" /\ x \in c.arg.of
  BY EachSeries
<1> HIDE DEF out, in, titles, b, i, o, md, base
<1>9. IsSeries(prefix) /\ Left(prefix) = {b} /\ IsSeries(alone) /\ Left(alone) = {i, o}
  BY Ones
<1> HIDE DEF prefix, alone
<1>10. IsSeries(prefix \o in) /\ Left(prefix \o in) = {b} \cup Left(in)
  BY <1>8, <1>9, Joined
<1>11. /\ IsSeries(mid) /\ (gone = {p} => Left(mid) = {i, o}) /\ (gone # {p} => Left(mid) = {b} \cup Left(in))
  BY <1>9, <1>10
<1> HIDE DEF mid
<1>12. IsSeries(a) /\ Left(a) = Left(out) \cup Left(mid)
  BY <1>5, <1>11, Joined
<1> HIDE DEF a
<1>13. IsSeries(s) /\ Left(s) = Left(a) \cup Left(titles)
  BY <1>6, <1>12, Joined
<1> HIDE DEF s
<1>14. \A c \in Left(s) :
         \/ c.do = "each" /\ c.arg.what \in {"outgoing", "oldTitle"}
         \/ c.do = "each" /\ c.arg.what = "incoming" /\ c.arg.of = gone
         \/ c.do = "prefix" /\ c.arg = base
         \/ c.do = "path" /\ c.arg = base
         \/ c.do = "incoming" /\ c.arg = p
  BY <1>4, <1>5, <1>6, <1>8, <1>11, <1>12, <1>13
<1>15. /\ gone = {p} => i \in Left(s) /\ o \in Left(s)
       /\ gone # {p} => b \in Left(s) /\ \A x \in gone : \E c \in Left(s) : c.do = "each" /\ c.arg.what = "incoming" /\ x \in c.arg.of
  BY <1>8, <1>11, <1>12, <1>13
<1>16. \A q \in DOMAIN md : md[q].place # base
  <2>1. \A q \in DOMAIN md : q \in Live /\ q # p
    BY <1>2
  <2> QED BY <1>2, <1>7, <2>1 DEF IsTreeOfPages, IsTree, Live, base
<1>17. \A c \in Left(s) : Safe(c, md) /\ ~(c.do = "incoming" /\ c.arg \in DOMAIN md) /\ ~Writing(c)
  <2>1. TAKE c \in Left(s)
  <2>2. gone \cap DOMAIN md = {}
    BY <1>2
  <2> QED BY <1>2, <1>14, <1>16, <2>2 DEF Safe, Writing
<1>18. InFront(s, md) /\ WritesLast(s)
  BY <1>17 DEF InFront, WritesLast, Left
<1>19. ASSUME \A r \in rows : Right(r.to, r.target, pages)
       PROVE  Clean(s, md, rows)
  <2>1. ASSUME NEW r \in rows
        PROVE  Attended(r, s, md)
    <3>1. Right(r.to, r.target, pages)
      BY <1>19
    <3>2. \A q \in DOMAIN md : r.to = md[q].place => r.target = q
      BY <1>2, <3>1 DEF Right, Live
    <3>3. ASSUME r.to \in Place, r.target # NoPage, \A q \in DOMAIN md : md[q].place # r.to
          PROVE  \E c \in Left(s) : Breaking(c, r.to)
      <4>1. PICK q \in DOMAIN pages : pages[q].place = r.to
        BY <3>1, <3>3 DEF Right
      <4>2. q \in gone
        BY <1>2, <3>3, <4>1 DEF Live
      <4>3. CASE gone = {p}
        BY <1>4, <1>15, <4>1, <4>2, <4>3 DEF Breaking, base
      <4>4. CASE gone # {p}
        BY <1>3, <1>4, <1>15, <4>1, <4>2, <4>4 DEF Breaking
      <4> QED BY <4>3, <4>4
    <3>4. ASSUME r.target # NoPage, r.target \notin DOMAIN md
          PROVE  \E c \in Left(s) : Dropping(c, r.target)
      <4>1. r.target \in gone
        BY <1>2, <3>1, <3>4 DEF Right, Live
      <4>2. CASE gone = {p}
        BY <1>4, <1>15, <4>1, <4>2 DEF Dropping
      <4>3. CASE gone # {p}
        BY <1>15, <4>1, <4>3 DEF Dropping
      <4> QED BY <4>2, <4>3
    <3> QED BY <3>2, <3>3, <3>4 DEF Attended
  <2> QED BY <1>17, <1>18, <2>1 DEF Clean
<1>20. \A c \in Left(s) : Planned(c)
  BY <1>17, PlainPlanned DEF Writing
<1>21. IsTreeOfPages(pages') /\ ((\A r \in rows : Right(r.to, r.target, pages)) => Clean(s, pages', rows'))
  BY <1>1, <1>2, <1>19
<1> QED BY <1>1, <1>20, <1>21, Started

-----------------------------------------------------------------------------
(* The resolution *)

LEMMA ResolutionStarts == LinkInit => ResolutionInv
<1> SUFFICES ASSUME LinkInit
             PROVE  ResolutionInv
  OBVIOUS
<1>1. /\ pages = Initial /\ calls = [t \in Thread |-> <<>>]
      /\ \A r \in rows : \E p \in DOMAIN Initial : \E ref \in Initial[p].links : r = [from |-> p, to |-> ref, target |-> Resolve(ref)]
  BY DEF LinkInit
<1>2. IsTreeOfPages(pages)
  <2>1. IsTree(Initial) /\ \A p \in DOMAIN Initial : Initial[p] \in PageRow
    BY LinkIndexAssumption
  <2> QED BY <1>1, <2>1 DEF IsTreeOfPages, IsText, PageRow
<1>3. \A r \in rows : r.target = Resolve(r.to)
  BY <1>1
<1>4. \A r \in rows : Right(r.to, r.target, pages)
  BY <1>2, <1>3, ResolveRight
<1>5. Clean(<<>>, pages, rows)
  BY <1>4, NothingLeft
<1>6. \A t \in Thread : calls[t] = <<>>
  BY <1>1
<1>7. \A t \in Thread : \A c \in Left(calls[t]) : Planned(c)
  BY <1>6, Ones
<1> QED BY <1>2, <1>5, <1>6, <1>7 DEF ResolutionInv, Steady

LEMMA ResolutionStutter == ResolutionInv /\ UNCHANGED linkVars => ResolutionInv'
BY DEF ResolutionInv, Steady, AtRest, Alone, linkVars

LEMMA ResolutionNext == LinkInv /\ ResolutionInv /\ LinkNext => ResolutionInv'
<1> SUFFICES ASSUME LinkInv, ResolutionInv, NEW t \in Thread, Mutate(t) \/ Proceed(t)
             PROVE  ResolutionInv'
  BY DEF LinkNext
<1>1. CASE Mutate(t)
  <2>1. CASE \E p \in Page, place \in Place, name \in Title, links \in Content : Create(t, p, place, name, links)
    BY <2>1, CreateHeals
  <2>2. CASE \E p \in Live : Delete(t, p)
    BY <2>2, DeleteHeals
  <2>3. CASE \E p \in Live : Pin(t, p)
    <3>1. PICK p \in Live : Pin(t, p)
      BY <2>3
    <3>2. pages[p].title \in Title
      BY DEF ResolutionInv, IsTreeOfPages, IsText, Live
    <3>3. \A name, links : Save(t, p, name, links) \/ RestoreRevision(t, p, name, links) \/ Pin(t, p)
      BY <3>1
    <3> QED BY <3>2, <3>3, SaveHeals
  <2>4. CASE \E p \in Live : \E name \in Title : \E links \in Content : Save(t, p, name, links) \/ RestoreRevision(t, p, name, links)
    BY <2>4, SaveHeals
  <2>5. CASE \E p \in Live : \E name \in Title : \E place \in Place : Relocate(t, p, place, name)
    BY <2>5, RelocateHeals
  <2>6. CASE \E p \in Live : \E name \in Title : \E place \in Place : Refactor(t, p, place, name)
    BY <2>6, RefactorHeals
  <2>7. CASE Rebuild(t)
    BY <2>7, RebuildHeals
  <2> QED BY <1>1, <2>1, <2>2, <2>3, <2>4, <2>5, <2>6, <2>7 DEF Mutate
<1>2. CASE Proceed(t)
  <2>1. CASE MarkBroken(t)
    BY <2>1, MarkPathHeals, MarkIncomingHeals
  <2>2. CASE ~MarkBroken(t)
    BY <1>2, <2>2, ResolveTargetsHeals, AddLinksHeals, HealPathHeals, TitleHeals, HealTitleHeals, FewerRowsHeal, EachOfHeals,
       ReadBackHeals, ListPagesHeals, LoadAllHeals, IndexHeals, LoadTextsHeals, SaveRewrittenHeals, ResolveBatchHeals, ReplaceBatchHeals,
       RelocateTargetHeals, LoadRefreshHeals DEF Proceed
  <2> QED BY <2>1, <2>2
<1> QED BY <1>1, <1>2

\* What a link leads to is what it should, or a call is left that heals, breaks or drops it, in every
\* state that no page was changed in beside another thread at work.
THEOREM ResolutionInvariant == LinkSpec => []ResolutionInv
<1>1. LinkInv /\ ResolutionInv /\ [LinkNext]_linkVars => ResolutionInv'
  BY ResolutionNext, ResolutionStutter
<1> QED BY <1>1, ResolutionStarts, LinkInvariant, PTL DEF LinkSpec

\* ResolutionSettles, for every set of pages, places, titles and threads: with the calls that
\* creations, moves, deletions, restores, refactorings and rebuilds make in
\* internal/wiki/pagesave and internal/links one after the other, what a link to a path leads to is
\* the page that has this path, and none leads to a page that is gone.
THEOREM ResolutionStays == LinkSpec => []ResolutionSettles
<1>1. ResolutionInv => ResolutionSettles
  <2> SUFFICES ASSUME ResolutionInv, AtRest, calm, NEW r \in rows
               PROVE  /\ r.to \in Place => r.target = Resolve(r.to)
                      /\ r.target # NoPage => r.target \in Live
    BY DEF ResolutionSettles
  <2>1. Clean(<<>>, pages, rows) /\ IsTreeOfPages(pages)
    BY DEF ResolutionInv, Steady
  <2>2. Right(r.to, r.target, pages)
    BY <2>1, NothingLeft
  <2>3. r.to \in Place => r.target = Resolve(r.to)
    BY <2>1, <2>2, RightIsResolved
  <2> QED BY <2>2, <2>3 DEF Right, Live
<1> QED BY <1>1, ResolutionInvariant, PTL

=============================================================================
