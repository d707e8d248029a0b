---------------------------- MODULE MCLinkIndex ----------------------------
(* The index: two threads, three pages, three top-level paths, two with a   *)
(* place below them.  The rewriting: texts of two links, paths of one or    *)
(* two segments, two slugs and titles.  The two share no state, and each    *)
(* half of the run has one of them.                                         *)
EXTENDS LinkIndex, LinkRewriting, TLC

CONSTANTS a, b, c, t1, t2, one, two, x, y, up

VARIABLE half

Paths == {<<1>>, <<2>>, <<3>>, <<3, 1>>, <<1, 1>>}
Contents == {{}} \cup {{r} : r \in {<<1>>, <<3>>, <<3, 1>>, one, two}}
Row(place, name, links) == [place |-> place, title |-> name, links |-> links, stamp |-> 1]

\* A page, one below it, and one beside them that links to the first.
Start == [p \in {a, b} |-> IF p = a THEN Row(<<1>>, one, {}) ELSE Row(<<2>>, two, {<<1>>})]
Family == [p \in {a, b, c} |-> CASE p = a -> Row(<<1>>, one, {})
                                  [] p = b -> Row(<<2>>, two, {<<1>>})
                                  [] p = c -> Row(<<1, 1>>, two, {<<1>>})]
Threads == {t1, t2}
Symmetric == Permutations(Threads)

Slugs == {x, y}
PagePaths == UNION {[1..n -> Slugs] : n \in 1..2}
Downs(n) == UNION {[1..k -> Slugs] : k \in 0..n}
Dest(from, segs) == [from |-> from, segs |-> segs]
Relatives == {Dest("page", [i \in 1..n |-> up] \o s) : n \in 0..2, s \in Downs(2)} \ {Dest("page", <<>>)}
Links == Relatives \cup {Dest("top", s) : s \in Downs(2)} \cup {Dest("outside", <<>>)}
Hints == {Dest("wiki", s) : s \in Downs(2) \ {<<>>}}
Item(syntax, to) == [syntax |-> syntax, to |-> to]
Inline == {Item("inline", d) : d \in Links} \cup {Item("wiki", d) : d \in Hints}
Others == {Item(s, d) : s \in {"reference", "escaped", "code"},
                        d \in {Dest("top", s) : s \in Downs(2) \ {<<>>}} \cup {Dest("page", <<up, x>>)}}
Shorts == {i \in Inline : Len(i.to.segs) <= 1} \cup {Item("inline", Dest("top", <<x, y>>)), Item("inline", Dest("page", <<up, up, x>>))}
\* What the two passes over a page in two levels see differently, and a path that goes up again
Deep == Dest("page", <<up, x, y, x>>)
Winding == Item("inline", Dest("top", <<x, x, up, y>>))
Texts == {<<i, j>> : i \in Inline \cup Others \cup {Item("escaped", Deep), Winding}, j \in Shorts \cup {Item("inline", Deep)}}

Unwritten ==
  /\ text = <<>> /\ at = <<x>> /\ old = <<x>> /\ new = <<y>> /\ title = x /\ titled = x /\ aside = y
  /\ done = "all" /\ was = [text |-> text, at |-> at]

SideBySideInit ==
  \/ half = "index" /\ LinkInit /\ Unwritten
  \/ half = "text" /\ LinkInit /\ RewritingInit

SideBySideNext ==
  /\ UNCHANGED half
  /\ \/ half = "index" /\ LinkNext /\ UNCHANGED rewritingVars
     \/ half = "text" /\ RewritingNext /\ UNCHANGED linkVars

SideBySide == SideBySideInit /\ [][SideBySideNext]_<<linkVars, rewritingVars, half>>
=============================================================================
