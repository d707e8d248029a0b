--------------------------- MODULE LinkRewriting ---------------------------
(***************************************************************************)
(* What a rename or a move of a page does to the text of a page: the page  *)
(* that is moved, one below it, or one beside it that links to them.       *)
(*                                                                         *)
(* A text is the series of its links.  A destination starts at the page    *)
(* ("page") or at the top ("top") and goes through its segments; "wiki" is *)
(* [[segments]], a title when it has one segment, and "outside" an asset   *)
(* or another site.  The syntax tells who sees a Markdown link: the parser *)
(* and the scanner see "inline", only the parser "reference", only the     *)
(* scanner "escaped", and nobody "code".  Queries, fragments and aliases   *)
(* are carried along and left out.  Titles have no slash.                  *)
(***************************************************************************)
EXTENDS Integers, Sequences, SequencesExt

CONSTANTS Segment, Up, Path, Text   \* names, "..", the paths of pages, and their texts

Link == [syntax : {"inline", "reference", "escaped", "code"},
         to : [from : {"page", "top", "outside"}, segs : Seq(Segment \cup {Up})]]
        \cup [syntax : {"wiki"}, to : [from : {"wiki"}, segs : Seq(Segment \cup {Up})]]

ASSUME RewritingAssumption ==
  /\ Up \notin Segment /\ "outside" \notin Segment /\ "aside" \notin Segment
  /\ Path \subseteq Seq(Segment) \ {<<>>} /\ Text \subseteq Seq(Link)

VARIABLES text, at,       \* the text, and the path of its page
          old, new,       \* the paths of the page that is renamed or moved
          title, titled,  \* its titles
          aside,          \* the title of another page that is not moved
          done,           \* the passes that were made
          was             \* observer: the text and the path before

rewritingVars == <<text, at, old, new, title, titled, aside, done, was>>

Parent(p) == SubSeq(p, 1, Len(p) - 1)
Nowhere == <<>>

\* Mutant: the pages below are left.
MovedAlone(p) == IF p = old THEN new ELSE p

\* applyRewriteRules
Moved(p) == IF IsPrefix(old, p) THEN new \o SubSeq(p, Len(old) + 1, Len(p)) ELSE p

\* resolveURLPath: the page is a folder, and the top is above itself.
Into(q, s) == IF s # Up THEN Append(q, s) ELSE IF q = <<>> THEN q ELSE Parent(q)
Resolved(p, d) ==
  LET walk[n \in 0..Len(d.segs)] ==
        IF n = 0 THEN IF d.from = "page" THEN p ELSE <<>> ELSE Into(walk[n - 1], d.segs[n])
  IN walk[Len(d.segs)]

Common(p, q) == CHOOSE n \in 0..Len(p) : /\ n <= Len(q) /\ SubSeq(p, 1, n) = SubSeq(q, 1, n)
                                         /\ n = Len(p) \/ n = Len(q) \/ p[n + 1] # q[n + 1]

\* Mutant: the page is not a folder.
FromFolder(p, q) ==
  [from |-> "page",
   segs |-> [i \in 1..(Len(Parent(p)) - Common(Parent(p), q)) |-> Up] \o SubSeq(q, Common(Parent(p), q) + 1, Len(q))]

\* relativeWikiLinkPath
Relative(p, q) ==
  [from |-> "page", segs |-> [i \in 1..(Len(p) - Common(p, q)) |-> Up] \o SubSeq(q, Common(p, q) + 1, Len(q))]

\* An empty destination is a warning, and the link stays.
Or(d, e) == IF e.segs = <<>> THEN d ELSE e

\* rewriteLinkDestination
RewriteLinkDestination(p, d) ==
  LET q == Resolved(p, d) IN
  IF d.from \notin {"page", "top"} \/ Moved(q) = q THEN d
  ELSE IF d.from = "top" THEN [from |-> "top", segs |-> Moved(q)]
  ELSE Or(d, Relative(Moved(p), Moved(q)))

\* rewriteRelativeLinkForPathChange
RewriteRelativeLink(p, q, d) ==
  IF d.from # "page" THEN d ELSE Or(d, Relative(q, Moved(Resolved(p, d))))

-----------------------------------------------------------------------------
(* What the parser found is matched with what the scanner found, in order. *)

Candidates(links) == {i \in DOMAIN links : links[i].syntax \in {"inline", "reference"}}
Occurrences(links) == {i \in DOMAIN links : links[i].syntax \in {"inline", "escaped"}}

\* buildRewritePlan, buildPathChangeRewritePlan: a candidate takes the next occurrence of
\* its destination, and uses up all before it, or all that are left if there is none.
Match(links, m, i) ==
  LET found == {j \in Occurrences(links) : j >= m.next /\ links[j].to = links[i].to}
      first == CHOOSE j \in found : \A k \in found : j <= k
  IN IF i \notin Candidates(links) THEN m
     ELSE IF found = {} THEN [found |-> m.found, next |-> Len(links) + 1]
     ELSE [found |-> m.found \cup {first}, next |-> first + 1]

Matched(links) ==
  LET m[n \in 0..Len(links)] == IF n = 0 THEN [found |-> {}, next |-> 1] ELSE Match(links, m[n - 1], n)
  IN m[Len(links)].found

Rewritten(links, i, d) == IF i \in Matched(links) THEN [links[i] EXCEPT !.to = d] ELSE links[i]

\* RewriteWikiLinks: the title of a rename, and the path as it was.
RewriteWikiLink(d) ==
  IF d.segs = <<title>> /\ titled # title THEN [d EXCEPT !.segs = <<titled>>]
  ELSE IF d.segs = old THEN [d EXCEPT !.segs = new] ELSE d

InSubtree == IsPrefix(old, at)

\* rewriteAffectedPages
RewriteAffectedPage ==
  /\ done = "nothing" /\ ~InSubtree
  /\ text' = [i \in DOMAIN text |-> IF text[i].syntax = "wiki" THEN [text[i] EXCEPT !.to = RewriteWikiLink(@)]
                                    ELSE Rewritten(text, i, RewriteLinkDestination(at, text[i].to))]
  /\ done' = "all"
  /\ UNCHANGED <<at, old, new, title, titled, aside, was>>

\* rewritePathChangedSubtree, the first pass
RewriteRelative ==
  /\ done = "nothing" /\ InSubtree
  /\ text' = [i \in DOMAIN text |-> Rewritten(text, i, RewriteRelativeLink(at, Moved(at), text[i].to))]
  /\ at' = Moved(at) /\ done' = "relative"
  /\ UNCHANGED <<old, new, title, titled, aside, was>>

\* The second pass, if the old path is somewhere in the text, be it in a link or not
Mentions(d) ==
  LET first == IF d.from = "page" THEN 2 ELSE 1 IN
  d.from # "outside" /\ d.from # "wiki"
    /\ \E i \in first..Len(d.segs) : IsPrefix(old, SubSeq(d.segs, i, Len(d.segs)))

RewriteAbsolute ==
  /\ done = "relative"
  /\ \/ text' = [i \in DOMAIN text |-> Rewritten(text, i, RewriteLinkDestination(at, text[i].to))]
     \/ (\A i \in DOMAIN text : ~Mentions(text[i].to)) /\ text' = text
  /\ done' = "all"
  /\ UNCHANGED <<at, old, new, title, titled, aside, was>>

-----------------------------------------------------------------------------
RewritingInit ==
  /\ text \in Text /\ at \in Path
  /\ old \in Path /\ new \in Path
  /\ \/ Parent(new) = Parent(old) /\ new # old
     \/ Last(new) = Last(old) /\ Parent(new) # Parent(old) /\ ~IsPrefix(old, new)
  /\ ~IsPrefix(new, at)
  /\ title \in Segment /\ titled \in Segment /\ aside \in Segment
  /\ Parent(new) # Parent(old) => titled = title
  /\ done = "nothing" /\ was = [text |-> text, at |-> at]

RewritingNext == RewriteAffectedPage \/ RewriteRelative \/ RewriteAbsolute

RewritingSpec == RewritingInit /\ [][RewritingNext]_rewritingVars

-----------------------------------------------------------------------------
(* Properties *)

\* The page a link leads to from a page at p, when the moved page has this title and path
Leads(p, d, name, path) ==
  IF d.from = "outside" THEN <<"outside">>
  ELSE IF d.from # "wiki" \/ Len(d.segs) > 1 THEN Resolved(p, d)
  ELSE IF d.segs # <<name>> THEN IF d.segs = <<aside>> THEN <<"aside">> ELSE Nowhere
  ELSE IF aside = name THEN Nowhere ELSE path

\* A page that was moved, and the pages below it
Below(p) == Len(p) >= Len(old) /\ \A i \in DOMAIN old : p[i] = old[i]
Followed(p) == IF Below(p) THEN new \o [i \in 1..(Len(p) - Len(old)) |-> p[Len(old) + i]] ELSE p

\* Where the i-th link led before, if that page is followed, and where it leads now
Meant(i) == Followed(Leads(was.at, was.text[i].to, title, old))
Means(i) == Leads(at, text[i].to, titled, new)

LedNowhere(i) == Leads(was.at, was.text[i].to, title, old) = Nowhere

\* A path of one segment cannot be told from a title.
Ambiguous(i) == text[i].syntax = "wiki" /\ (aside = titled \/ <<aside>> = old \/ Len(new) = 1)

\* No relative link of its own page is rewritten, and in the text of a moved page the first pass
\* passes over a relative link that it does not match.
ItsOwn(i) == was.text[i].to.from = "page" /\ Meant(i) = at
PassedOver(i) == was.text[i].to.from = "page" /\ (i \notin Matched(was.text) \/ ItsOwn(i))

\* A link whose text was changed leads to the page it led to, wherever that page is now, a
\* wiki link by title or path excepted where another page has that title, and a relative link
\* that the first pass over a moved page has left to the second.
ChangesAreRight ==
  done = "all" =>
    \A i \in DOMAIN text :
      text[i] # was.text[i] /\ ~LedNowhere(i) /\ ~Ambiguous(i) /\ ~(was.at # at /\ PassedOver(i)) =>
        Means(i) = Meant(i)

\* The parser and the scanner see the same links, and from the top links only go down.
Plain == \A i \in DOMAIN text :
  /\ was.text[i].syntax \notin {"reference", "escaped"}
  /\ was.text[i].to.from = "top" => Up \notin Range(was.text[i].to.segs)

\* Every Markdown link leads to the page it led to, a relative link to its own page excepted.
LinksFollow ==
  done = "all" /\ Plain =>
    \A i \in DOMAIN text : text[i].syntax = "inline" /\ ~ItsOwn(i) => Means(i) = Meant(i)
=============================================================================
