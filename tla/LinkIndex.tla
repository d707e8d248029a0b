------------------------------ MODULE LinkIndex ------------------------------
(***************************************************************************)
(* The index of links between pages, when the instance runs on PostgreSQL. *)
(*                                                                         *)
(* A page mutation commits, and the thread that made it then brings the    *)
(* index up to date by a series of calls of the links service, each one    *)
(* statement or transaction.  Other threads run theirs in between.  A      *)
(* thread is the sequence of the calls it has left; a call that reads and  *)
(* later writes is two entries of that sequence.                           *)
(*                                                                         *)
(* A page links to references: the path of a page, or a title as [[Title]] *)
(* has it.  A path is the sequence of its slugs.  Relative links, anchors  *)
(* and the parsing of Markdown are left out; a stamp stands for the time   *)
(* and the pin in the stored text, by which a page is compared.            *)
(***************************************************************************)
EXTENDS Integers, Sequences, FiniteSets

CONSTANTS Page,       \* page identifiers; none is used twice
          Place,      \* the paths a page can have: sequences of slugs
          Title,
          Content,    \* the sets of references a page can have
          Thread,     \* requests, the rebuild at start and the resync
          NoPage,
          Initial,    \* the pages there are at the start, all indexed
          Operations, \* the operations that are asked for
          MaxStamp,   \* bounds the writes of one page
          MaxCalls    \* bounds the operations

Reference == Place \cup Title

PageRow == [place : Place, title : Title, links : Content, stamp : Nat]
Names == UNION {{place[i] : i \in DOMAIN place} : place \in Place}

\* The unique index on parent and slug, and the foreign key to the parent.
IsTree(md) ==
  /\ \A p, q \in DOMAIN md : md[p].place = md[q].place => p = q
  /\ \A p \in DOMAIN md : Len(md[p].place) > 1 =>
       \E q \in DOMAIN md : md[q].place = SubSeq(md[p].place, 1, Len(md[p].place) - 1)

\* A title is stored with a prefix that no path has.
ASSUME LinkIndexAssumption ==
  /\ NoPage \notin Page /\ DOMAIN Initial \subseteq Page
  /\ Initial \in [DOMAIN Initial -> PageRow] /\ \A p \in DOMAIN Initial : Initial[p].stamp > 0
  /\ IsTree(Initial) /\ Place \subseteq Seq(Names) \ {<<>>} /\ Place \cap Title = {}
  /\ \A c \in Content : c \subseteq Reference
  /\ MaxStamp \in Nat /\ MaxCalls \in Nat

VARIABLES pages,  \* the live pages, by id
          used,   \* the ids that were ever given to a page
          rows,   \* the table links
          calls,  \* what each thread has left to do
          missed, \* observer: pages that nobody will index as they are
          calm,   \* observer: no page changed while another thread had calls left
          count

linkVars == <<pages, used, rows, calls, missed, calm, count>>

LinkRow == [from : Page, to : Reference, target : Page \cup {NoPage}]

Live == DOMAIN pages
Snapshot(p) == [id |-> p, page |-> pages[p]]
AtRest == \A t \in Thread : calls[t] = <<>>
Head1(t) == calls[t][1]
Does(t, what) == calls[t] # <<>> /\ Head1(t).do = what

Under(place, base) ==
  Len(place) >= Len(base) /\ SubSeq(place, 1, Len(base)) = base
Rebased(place, base, new) == new \o SubSeq(place, Len(base) + 1, Len(place))
Subtree(p) == {q \in Live : Under(pages[q].place, pages[p].place)}

\* FindPageByRoutePath and FindPagesByTitle: a title that is not the title of
\* exactly one page resolves to none.
Named(title) == {p \in Live : pages[p].title = title}
Resolve(ref) ==
  LET found == IF ref \in Title THEN Named(ref) ELSE {p \in Live : pages[p].place = ref} IN
  IF Cardinality(found) = 1 THEN CHOOSE p \in found : TRUE ELSE NoPage

\* collectTargetsFromContent.
Targets(links) == [ref \in links |-> Resolve(ref)]

\* CurrentPageMatches: the stored text and the path are what they were.
Current(s) ==
  s.id \in Live /\ pages[s.id].stamp = s.page.stamp /\ pages[s.id].links = s.page.links
                /\ pages[s.id].place = s.page.place

RowsOf(p) == {r.to : r \in {r \in rows : r.from = p}}

-----------------------------------------------------------------------------
(* The statements of the links store *)

Replaced(R, s, targets) ==
  {r \in R : r.from # s.id}
    \cup {[from |-> s.id, to |-> ref, target |-> targets[ref]] : ref \in DOMAIN targets}

Healed(R, ref, p) ==
  {IF r.to = ref /\ r.target = NoPage THEN [r EXCEPT !.target = p] ELSE r : r \in R}

Broken(hit) == (rows \ hit) \cup {[r EXCEPT !.target = NoPage] : r \in hit}

\* ReplaceLinksAndHeal: one transaction; pages that are not current are left out.
Batched(R, U) ==
  LET ok == {u \in U : Current(u.of)}
      ids == {u.of.id : u \in ok}
      kept == {r \in R : r.from \notin ids}
      new == UNION {{[from |-> u.of.id, to |-> ref, target |-> u.targets[ref]] :
                       ref \in DOMAIN u.targets} : u \in ok}
  IN {LET at == {u \in ok : u.of.page.place = r.to} IN
      IF r.target = NoPage /\ at # {} THEN [r EXCEPT !.target = (CHOOSE u \in at : TRUE).of.id]
                                      ELSE r : r \in kept \cup new}

-----------------------------------------------------------------------------
(* Calls *)

Call(do, arg) == [do |-> do, arg |-> arg]
Settle(S) == IF S = {} THEN <<>> ELSE <<Call("settle", S)>>
Goes(t, next) == calls' = [calls EXCEPT ![t] = next \o Tail(@)]
NoPageChange == UNCHANGED <<pages, used, missed, calm, count>>

\* UpdateLinksForPage resolves the targets of the page it was given ...
ResolveTargets(t) ==
  /\ Does(t, "settle") /\ NoPageChange
  /\ \E s \in Head1(t).arg :
       Goes(t, <<Call("write", [of |-> s, targets |-> Targets(s.page.links)]),
                 Call("heal", s), Call("title", s)>> \o Settle(Head1(t).arg \ {s}))
  /\ UNCHANGED rows

\* Mutant: late calls write too.
AddLinksUnchecked(t) ==
  /\ Does(t, "write") /\ NoPageChange
  /\ rows' = Replaced(rows, Head1(t).arg.of, Head1(t).arg.targets)
  /\ Goes(t, <<>>)

\* ... and addLinks writes them, if the page is still what it was.
AddLinks(t) ==
  /\ Does(t, "write") /\ NoPageChange
  /\ LET u == Head1(t).arg IN
     rows' = IF Current(u.of) THEN Replaced(rows, u.of, u.targets) ELSE rows
  /\ Goes(t, <<>>)

HealExactPath(t) ==
  /\ Does(t, "heal") /\ NoPageChange
  /\ LET s == Head1(t).arg IN
     rows' = IF Current(s) THEN Healed(rows, s.page.place, s.id) ELSE rows
  /\ Goes(t, <<>>)

\* HealWikiLinksForPage looks whether the title is the title of one page alone ...
CheckTitle(t) ==
  /\ Does(t, "title") /\ NoPageChange
  /\ LET s == Head1(t).arg IN
     Goes(t, IF Cardinality(Named(s.page.title)) = 1 THEN <<Call("healTitle", s)>> ELSE <<>>)
  /\ UNCHANGED rows

\* ... and heals in a later transaction.
HealTitle(t) ==
  /\ Does(t, "healTitle") /\ NoPageChange
  /\ LET s == Head1(t).arg IN
     rows' = IF Current(s) THEN Healed(rows, s.page.title, s.id) ELSE rows
  /\ Goes(t, <<>>)

\* HealWikiLinksForTitleIfUnambiguous.
FindTitle(t) ==
  /\ Does(t, "oldTitle") /\ NoPageChange
  /\ LET p == Resolve(Head1(t).arg) IN
     Goes(t, IF p = NoPage THEN <<>> ELSE <<Call("healTitle", Snapshot(p))>>)
  /\ UNCHANGED rows

\* MarkLinksBrokenForPrefix, MarkLinksBrokenForPath and MarkIncomingLinksBroken:
\* whatever the pages are by now.
MarkBroken(t) ==
  /\ NoPageChange
  /\ \/ /\ Does(t, "prefix")
        /\ rows' = Broken({r \in rows : r.to \in Place /\ Under(r.to, Head1(t).arg)})
     \/ Does(t, "path") /\ rows' = Broken({r \in rows : r.to = Head1(t).arg})
     \/ Does(t, "incoming") /\ rows' = Broken({r \in rows : r.target = Head1(t).arg})
  /\ Goes(t, <<>>)

DeleteOutgoing(t) ==
  /\ Does(t, "outgoing") /\ NoPageChange
  /\ rows' = {r \in rows : r.from # Head1(t).arg}
  /\ Goes(t, <<>>)

\* The same call for each of a set of pages, in any order.
EachOf(t) ==
  /\ Does(t, "each") /\ NoPageChange
  /\ \E x \in Head1(t).arg.of :
       Goes(t, <<Call(Head1(t).arg.what, x)>>
                 \o (IF Head1(t).arg.of = {x} THEN <<>>
                     ELSE <<Call("each", [Head1(t).arg EXCEPT !.of = @ \ {x}])>>))
  /\ UNCHANGED rows

Each(what, S) == IF S = {} THEN <<>> ELSE <<Call("each", [what |-> what, of |-> S])>>

\* The restore of a revision reads the page back after its commit.
ReadBack(t) ==
  /\ Does(t, "readBack") /\ NoPageChange
  /\ LET p == Head1(t).arg IN
     calls' = [calls EXCEPT ![t] = IF p \in Live THEN Settle({Snapshot(p)}) ELSE <<>>]
  /\ UNCHANGED rows

\* IndexAllPagesContext: clear, list the pages, read those, add the links of each.
ClearLinks(t) ==
  /\ Does(t, "clear") /\ NoPageChange
  /\ rows' = {}
  /\ Goes(t, <<>>)

ListPages(t) ==
  /\ Does(t, "walk") /\ NoPageChange
  /\ Goes(t, <<Call("load", Live)>>)
  /\ UNCHANGED rows

LoadAllPages(t) ==
  /\ Does(t, "load") /\ NoPageChange
  /\ Head1(t).arg \subseteq Live
  /\ Goes(t, Each("index", {Snapshot(p) : p \in Head1(t).arg}))
  /\ UNCHANGED rows

\* A page of the list was deleted meanwhile: the error ends the rebuild at that
\* page, and leaves out those that come after it in the list.
LoadStopsShort(t) ==
  /\ Does(t, "load")
  /\ LET found == Head1(t).arg \cap Live IN
     /\ found # Head1(t).arg
     /\ \E done \in SUBSET found :
          /\ Goes(t, Each("index", {Snapshot(p) : p \in done}))
          /\ missed' = missed \cup (found \ done)
  /\ UNCHANGED <<pages, used, rows, calm, count>>

IndexPage(t) ==
  /\ Does(t, "index") /\ NoPageChange
  /\ LET s == Head1(t).arg IN
     Goes(t, <<Call("write", [of |-> s, targets |-> Targets(s.page.links)])>>)
  /\ UNCHANGED rows

-----------------------------------------------------------------------------
(* Page mutations, each with the calls LinkIndexSideEffect makes after it *)

Asked(t, op) == op \in Operations /\ calls[t] = <<>> /\ count < MaxCalls
Counted == count' = count + 1
Alone(t) == \A u \in Thread \ {t} : calls[u] = <<>>
Changes(t) == calm' = (calm /\ Alone(t))

Create(t, p, place, title, links) ==
  /\ Asked(t, "create") /\ Counted /\ Changes(t)
  /\ p \in Page \ used /\ \A q \in Live : pages[q].place # place
  /\ Len(place) > 1 => \E q \in Live : pages[q].place = SubSeq(place, 1, Len(place) - 1)
  /\ LET page == [place |-> place, title |-> title, links |-> links, stamp |-> 1] IN
     /\ pages' = [q \in Live \cup {p} |-> IF q = p THEN page ELSE pages[q]]
     /\ calls' = [calls EXCEPT ![t] = Settle({[id |-> p, page |-> page]})]
  /\ used' = used \cup {p}
  /\ UNCHANGED <<rows, missed>>

Writable(p) == p \in Live /\ pages[p].stamp < MaxStamp

\* An update that keeps the slug.
Save(t, p, title, links) ==
  /\ Asked(t, "save") /\ Counted /\ Changes(t) /\ Writable(p)
  /\ pages' = [pages EXCEPT ![p].title = title, ![p].links = links, ![p].stamp = @ + 1]
  /\ calls' = [calls EXCEPT ![t] = Settle({[id |-> p, page |-> pages'[p]]})]
  /\ missed' = missed \ {p}
  /\ UNCHANGED <<used, rows>>

RestoreRevision(t, p, title, links) ==
  /\ Asked(t, "restore") /\ Counted /\ Changes(t) /\ Writable(p)
  /\ pages' = [pages EXCEPT ![p].title = title, ![p].links = links, ![p].stamp = @ + 1]
  /\ calls' = [calls EXCEPT ![t] = <<Call("readBack", p)>>]
  /\ missed' = missed \ {p}
  /\ UNCHANGED <<used, rows>>

\* The pages as a new path, and perhaps a new title, of p leave them.
Relocated(p, place, title) ==
  [q \in Live |->
     IF q \notin Subtree(p) THEN pages[q]
     ELSE [pages[q] EXCEPT !.place = Rebased(@, pages[p].place, place),
                           !.title = IF q = p THEN title ELSE @,
                           !.stamp = IF q = p THEN @ + 1 ELSE @]]

Free(p, place) ==
  /\ place # pages[p].place /\ ~Under(place, pages[p].place)
  /\ \A q \in Live : pages[q].place # place
  /\ \A q \in Subtree(p) : Rebased(pages[q].place, pages[p].place, place) \in Place
  /\ Len(place) > 1 => \E q \in Live : pages[q].place = SubSeq(place, 1, Len(place) - 1)

\* Mutant: links to the old path are left as they are.
RelocatesQuietly(p, place, title) ==
  LET new == Relocated(p, place, title) IN
  Settle({[id |-> q, page |-> new[q]] : q \in Subtree(p)})

RelocationCalls(p, place, title) ==
  LET new == Relocated(p, place, title) IN
  <<Call("prefix", pages[p].place)>>
    \o (IF title = pages[p].title THEN <<>>
        ELSE <<Call("incoming", p), Call("oldTitle", pages[p].title)>>)
    \o Settle({[id |-> q, page |-> new[q]] : q \in Subtree(p)})

\* An update that changes the slug, or a move.
Relocate(t, p, place, title) ==
  /\ Asked(t, "relocate") /\ Counted /\ Changes(t) /\ Writable(p) /\ Free(p, place)
  /\ pages' = Relocated(p, place, title)
  /\ calls' = [calls EXCEPT ![t] = RelocationCalls(p, place, title)]
  /\ missed' = missed \ Subtree(p)
  /\ UNCHANGED <<used, rows>>

Delete(t, p) ==
  /\ Asked(t, "delete") /\ Counted /\ Changes(t) /\ p \in Live
  /\ LET gone == Subtree(p) IN
     /\ pages' = [q \in Live \ gone |-> pages[q]]
     /\ missed' = missed \ gone
     /\ calls' = [calls EXCEPT ![t] =
                    Each("outgoing", gone)
                      \o (IF gone # {p}
                          THEN <<Call("prefix", pages[p].place)>> \o Each("incoming", gone)
                          ELSE <<Call("incoming", p), Call("path", pages[p].place)>>)
                      \o Each("oldTitle", {pages[q].title : q \in gone})]
  /\ UNCHANGED <<used, rows>>

\* Pinning writes the stored text and runs no effect.
Pin(t, p) ==
  /\ Asked(t, "pin") /\ Counted /\ Changes(t) /\ Writable(p)
  /\ pages' = [pages EXCEPT ![p].stamp = @ + 1]
  /\ missed' = missed \cup {p}
  /\ UNCHANGED <<used, rows, calls>>

Rebuild(t) ==
  /\ Asked(t, "rebuild") /\ Counted
  /\ calls' = [calls EXCEPT ![t] = <<Call("clear", NoPage), Call("walk", NoPage)>>]
  /\ Changes(t)
  /\ UNCHANGED <<pages, used, rows, missed>>

-----------------------------------------------------------------------------
(* Refactoring: a rename or a move that rewrites the links to the page *)

RewrittenRef(ref, rule) ==
  IF ref = rule.oldTitle THEN rule.newTitle
  ELSE IF ref \in Place /\ Under(ref, rule.old) THEN Rebased(ref, rule.old, rule.new)
  ELSE ref
RewrittenLinks(links, rule) == {RewrittenRef(ref, rule) : ref \in links}

\* buildApplyPlan: pages the index says link to the subtree, or to a title that
\* is about to go and is the title of this page alone.
Affected(p, title) ==
  {r.from : r \in {r \in rows :
     \/ r.to \in Place /\ Under(r.to, pages[p].place)
     \/ r.to = pages[p].title /\ title # r.to /\ Named(r.to) = {p}}} \ Subtree(p)

Refactor(t, p, place, title) ==
  /\ Asked(t, "refactor") /\ Counted /\ Changes(t) /\ Writable(p) /\ Free(p, place)
  /\ LET rule == [old |-> pages[p].place, new |-> place,
                  oldTitle |-> pages[p].title, newTitle |-> title]
         affected == Affected(p, title)
     IN calls' = [calls EXCEPT ![t] =
          <<Call("rewrite", [ids |-> affected, rule |-> rule]),
            Call("target", [of |-> Snapshot(p), rule |-> rule]),
            Call("subtree", [of |-> {Snapshot(q) : q \in Subtree(p)}, rule |-> rule]),
            Call("refresh", affected)>>]
  /\ UNCHANGED <<pages, used, rows, missed>>

\* What the two rewriting steps give to the index has no stored text.
Unstored(u) == [id |-> u.of.id, page |-> [u.of.page EXCEPT !.links = u.links, !.stamp = 0]]

\* rewriteAffectedPages: read, then save each, then update the rows.
LoadAffected(t) ==
  /\ Does(t, "rewrite") /\ NoPageChange
  /\ LET rule == Head1(t).arg.rule
         new == {[of |-> Snapshot(q), links |-> RewrittenLinks(pages[q].links, rule)] :
                   q \in {q \in Head1(t).arg.ids \cap Live :
                            RewrittenLinks(pages[q].links, rule) \in Content \ {pages[q].links}}}
     IN Goes(t, IF new = {} THEN <<>>
                ELSE Each("save", new)
                       \o <<Call("resolveRows", [of |-> {Unstored(u) : u \in new}, rule |-> rule])>>)
  /\ UNCHANGED rows

\* BulkUpdateContent, unchecked.
SaveRewritten(t) ==
  /\ Does(t, "save")
  /\ LET u == Head1(t).arg
         p == u.of.id
     IN IF Writable(p)
        THEN /\ pages' = [pages EXCEPT ![p].links = u.links, ![p].stamp = @ + 1]
             /\ missed' = missed \cup {p}
             /\ Changes(t)
        ELSE UNCHANGED <<pages, missed, calm>>
  /\ Goes(t, <<>>)
  /\ UNCHANGED <<used, rows, count>>

\* UpdateRewrittenLinksAndHealForPages rewrites the paths the index has, ...
ResolveRows(t) ==
  /\ Does(t, "resolveRows") /\ NoPageChange
  /\ LET rule == Head1(t).arg.rule IN
     Goes(t, <<Call("batch",
       {[of |-> s, targets |-> Targets(RewrittenLinks(RowsOf(s.id) \cap Place, rule))] :
          s \in Head1(t).arg.of})>>)
  /\ UNCHANGED rows

\* ... UpdateLinksAndHealForPages resolves the links of the pages it is given, ...
ResolveBatch(t) ==
  /\ Does(t, "resolve") /\ NoPageChange
  /\ Goes(t, <<Call("batch", {[of |-> s, targets |-> Targets(s.page.links)] : s \in Head1(t).arg})>>)
  /\ UNCHANGED rows

\* ... and both replace the rows in one transaction.
ReplaceBatch(t) ==
  /\ Does(t, "batch") /\ NoPageChange
  /\ rows' = Batched(rows, Head1(t).arg)
  /\ Goes(t, <<>>)

\* The rename or the move, with the version of the client; a conflict ends it all.
RelocateTarget(t) ==
  /\ Does(t, "target")
  /\ LET s == Head1(t).arg.of
         rule == Head1(t).arg.rule
         p == s.id
         ok == Writable(p) /\ pages[p].stamp = s.page.stamp
     IN IF ok /\ pages[p].place = rule.old /\ Free(p, rule.new)
        THEN /\ pages' = Relocated(p, rule.new, rule.newTitle)
             /\ Goes(t, RelocationCalls(p, rule.new, rule.newTitle))
             /\ missed' = missed \ Subtree(p)
             /\ Changes(t)
        ELSE /\ calls' = [calls EXCEPT ![t] = <<>>]
             /\ UNCHANGED <<pages, missed, calm>>
  /\ UNCHANGED <<used, rows, count>>

\* rewritePathChangedSubtree: the links of the snapshots, against the pages now.
LoadSubtree(t) ==
  /\ Does(t, "subtree") /\ NoPageChange
  /\ LET rule == [Head1(t).arg.rule EXCEPT !.oldTitle = NoPage]
         new == {[of |-> Snapshot(s.id), links |-> RewrittenLinks(s.page.links, rule)] :
                   s \in {s \in Head1(t).arg.of :
                            s.id \in Live /\ RewrittenLinks(s.page.links, rule)
                                               \in Content \ {pages[s.id].links}}}
     IN Goes(t, IF new = {} THEN <<>>
                ELSE Each("save", new) \o <<Call("resolve", {Unstored(u) : u \in new})>>)
  /\ UNCHANGED rows

\* refreshAffectedPageLinks reads the pages as they are stored.
LoadRefresh(t) ==
  /\ Does(t, "refresh")
  /\ LET now == {Snapshot(q) : q \in Head1(t).arg \cap Live} IN
     /\ Goes(t, IF now = {} THEN <<>> ELSE <<Call("resolve", now)>>)
     /\ missed' = missed \ {s.id : s \in now}
  /\ UNCHANGED <<pages, used, rows, calm, count>>

-----------------------------------------------------------------------------
LinkInit ==
  /\ pages = Initial /\ used = DOMAIN Initial
  /\ rows = UNION {{[from |-> p, to |-> ref, target |-> Resolve(ref)] :
                       ref \in Initial[p].links} : p \in DOMAIN Initial}
  /\ calls = [t \in Thread |-> <<>>]
  /\ missed = {} /\ calm = TRUE /\ count = 0

Mutate(t) ==
  \/ \E p \in Page, place \in Place, title \in Title, links \in Content :
       Create(t, p, place, title, links)
  \/ \E p \in Live :
       \/ Delete(t, p) \/ Pin(t, p)
       \/ \E title \in Title : \/ \E links \in Content : Save(t, p, title, links)
                               \/ \E links \in Content : RestoreRevision(t, p, title, links)
                               \/ \E place \in Place : \/ Relocate(t, p, place, title)
                                                       \/ Refactor(t, p, place, title)
  \/ Rebuild(t)

Proceed(t) ==
  \/ ResolveTargets(t) \/ AddLinks(t) \/ HealExactPath(t) \/ CheckTitle(t) \/ HealTitle(t)
  \/ FindTitle(t) \/ MarkBroken(t) \/ DeleteOutgoing(t) \/ EachOf(t) \/ ReadBack(t)
  \/ ClearLinks(t) \/ ListPages(t) \/ LoadAllPages(t) \/ LoadStopsShort(t) \/ IndexPage(t)
  \/ LoadAffected(t) \/ SaveRewritten(t) \/ ResolveRows(t) \/ ResolveBatch(t)
  \/ ReplaceBatch(t)
  \/ RelocateTarget(t) \/ LoadSubtree(t) \/ LoadRefresh(t)

LinkNext == \E t \in Thread : Mutate(t) \/ Proceed(t)

LinkSpec == LinkInit /\ [][LinkNext]_linkVars

-----------------------------------------------------------------------------
(* Properties *)

\* Once every thread has done its calls, the index has for each page the links of
\* its content, however the calls of different saves, deletes and rebuilds were
\* interleaved, and none for pages that are gone.  Left out are pages whose last
\* write indexes nothing (a pin, and what a refactoring rewrote and did not refresh),
\* and those a rebuild did not come to because a page of its list was deleted.
OutgoingSettles ==
  AtRest => /\ \A p \in Live \ missed : RowsOf(p) = pages[p].links
            /\ \A r \in rows : r.from \in Live

\* When the pages did not change while another thread was at work, what a link to
\* a path resolves to is the page that has this path, and no link resolves to a
\* page that is gone: creating, moving and deleting pages breaks and heals the
\* links of all other pages exactly.
ResolutionSettles ==
  AtRest /\ calm =>
    \A r \in rows : /\ r.to \in Place => r.target = Resolve(r.to)
                    /\ r.target # NoPage => r.target \in Live

\* "LinkIndexSideEffect updates the link index after every page mutation"
\* (wiki/pagesave/link_effect.go:11): once a refactoring has ended, the index has
\* the links of each page as it was rewritten.  What the rewriting of the subtree
\* gives to the index never passes for the current page.
LinksFollowRefactoring == AtRest => \A p \in Live : RowsOf(p) = pages[p].links
=============================================================================
