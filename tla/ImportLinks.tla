---------------------------- MODULE ImportLinks ----------------------------
(***************************************************************************)
(* What an import makes of the links in the files of an archive: links to  *)
(* other files become links to the pages these are imported to, and files  *)
(* that are not Markdown are uploaded as assets of the page.               *)
(*                                                                         *)
(* A text is the series of its links; what is code stays as it is.  A link *)
(* starts at the top of the archive ("top"), says that it starts at its    *)
(* file ("dot"), or leaves it open ("bare"); it goes through its segments  *)
(* and has an extension or none.  A wiki link is [[segments]].  Names are  *)
(* looked up without regard to case, and paths of pages are made of slugs. *)
(* Titles of links and queries are carried along and left out, and so is a *)
(* wiki link of dots alone, [[..]].                                        *)
(***************************************************************************)
EXTENDS Integers, Sequences, FiniteSets, SequencesExt

CONSTANTS Name, Index, Dotted, Up,   \* Dotted: names with a dot
          Fold, Slug,                \* the lower case of a name, and its slug
          Archive,                   \* the archives: their files, texts and assets, and where they go
          MaxUploadFailures, MaxResumes

ASSUME ImportLinksAssumption ==
  /\ Index \in Name /\ Dotted \subseteq Name /\ Up \notin Name
  /\ Fold \in [Name -> Name] /\ Slug \in [Name -> Name]
  /\ Fold[Index] = Index /\ \A n \in Name : Slug[Fold[n]] = Slug[n]

VARIABLES zip,      \* the archive
          item,     \* the file that is imported, or the number of files and one
          pages,    \* the links that have been written, by file
          text,     \* the links of the file that were transformed so far
          uploads,  \* the assets that were uploaded: of which page, and from which file
          cache,    \* those that the transformer remembers, by page and file
          mishaps   \* uploads that failed, and processes that ended

linksVars == <<zip, item, pages, text, uploads, cache, mishaps>>

Above(path) == SubSeq(path, 1, Len(path) - 1)
Folded(path) == [i \in DOMAIN path |-> Fold[path[i]]]
Slugged(path) == [i \in DOMAIN path |-> Slug[path[i]]]
Sole(set) == CHOOSE x \in set : set = {x}
Outside == <<Up>>
Files == Range(zip.files)

\* analyzeEntry: where a file goes.  index.md is the page of its folder.
Target(f) == zip.under \o Slugged(IF Fold[Last(f)] = Index THEN Above(f) ELSE f)

\* path.Join and path.Clean: what leaves the archive does not come back.
Into(path, s) ==
  IF path = Outside \/ (s = Up /\ path = <<>>) THEN Outside
  ELSE IF s = Up THEN Above(path) ELSE Append(path, s)

Base(source, link) ==
  LET start == IF link.from = "top" THEN <<>> ELSE Above(source)
      walk[n \in 0..Len(link.segs)] == IF n = 0 THEN start ELSE Into(walk[n - 1], link.segs[n])
  IN walk[Len(link.segs)]

\* What is after the dot of a name is taken for an extension.
HasExtension(link) ==
  link.ext = "asset" \/ (link.ext = "none" /\ link.segs # <<>> /\ Last(link.segs) \in Dotted)

\* Mutant: a link starts at the page, as in the wiki, and not at its folder.
CandidatesBelow(source, link) ==
  LET base == Base(Append(source, Index), link) IN
  IF base \in {<<>>, Outside} \/ HasExtension(link) THEN <<>> ELSE <<base, Append(base, Index)>>

\* buildSourceCandidates
Candidates(source, link) ==
  LET base == Base(source, link) IN
  IF base \in {<<>>, Outside} \/ HasExtension(link) THEN <<>> ELSE <<base, Append(base, Index)>>

BySource(path) == {Target(f) : f \in {g \in Files : Folded(g) = Folded(path)}}

\* A bare name, and a file that has it anywhere
ByName(link) ==
  IF link.from # "bare" \/ Len(link.segs) # 1 \/ link.ext = "asset" \/ Up \in Range(link.segs) THEN {}
  ELSE {Target(f) : f \in {g \in Files : Fold[Last(g)] = Fold[link.segs[1]] /\ Fold[Last(g)] # Index}}

\* normalizeWikiHrefToRoutePath: "." and ".." have no slug.
RoutePath(link) ==
  IF link.from = "dot" \/ Up \in Range(link.segs) \/ link.segs = <<>> THEN <<>> ELSE Slugged(link.segs)

\* resolveUniqueTargetPathSuffix
BySuffix(link) ==
  IF HasExtension(link) \/ Len(RoutePath(link)) < 2 THEN {}
  ELSE {Target(f) : f \in {g \in Files : IsSuffix(RoutePath(link), Target(g))}}

\* resolvePagePath: the first candidate that is a file, or else the only file of the name or path
PagesFor(source, link) ==
  LET tries == Candidates(source, link)
               \o IF link.from = "bare" THEN Candidates(source, [link EXCEPT !.from = "top"]) ELSE <<>>
      hits == {i \in DOMAIN tries : BySource(tries[i]) # {}}
  IN IF hits # {} THEN BySource(tries[Min(hits)])
     ELSE IF Cardinality(ByName(link)) = 1 THEN ByName(link)
     ELSE IF Cardinality(BySuffix(link)) = 1 THEN BySuffix(link)
     ELSE {}

\* resolveAssetPath: a file of the archive, at exactly this place
AssetAt(source, link) ==
  IF link.ext = "asset" THEN {Base(source, link)} \cap zip.assets ELSE {}

\* fallbackWikiPageHref: where the page would be that a link with an anchor means
Fallback(source, link) ==
  IF HasExtension(link) \/ Cardinality(ByName(link)) > 1 THEN <<>>
  ELSE IF link.from = "bare" THEN RoutePath(link)
  ELSE IF Base(source, link) = Outside THEN <<>> ELSE Slugged(Base(source, link))

-----------------------------------------------------------------------------
(* The rewritten link: "same" is left as it is, "page" is [label](/path), "wiki" is *)
(* [[path]], and "asset" is [label](public path).                                   *)

Out(form, to) == [form |-> form, to |-> to]
Same == Out("same", <<>>)

\* rewriteDestination
MarkdownLink(source, link) ==
  LET found == PagesFor(source, link) IN IF found = {} THEN Same ELSE Out("page", Sole(found))

\* rewriteWikiLinks: with an anchor it becomes a Markdown link.  A title stays, and a path
\* becomes the path of the page.
WikiLink(source, link) ==
  LET found == PagesFor(source, link)
      path == IF found # {} THEN Sole(found)
              ELSE IF link.anchor THEN Fallback(source, link) ELSE RoutePath(link)
      isPath == link.from # "bare" \/ Len(link.segs) > 1
  IN IF path = <<>> THEN Same
     ELSE IF link.anchor THEN Out("page", path)
     ELSE IF isPath THEN Out("wiki", path) ELSE Same

\* TransformContent skips fenced blocks and code spans.
Rewritten(source, link) ==
  IF link.syntax = "code" THEN Same
  ELSE IF link.syntax = "markdown" THEN MarkdownLink(source, link) ELSE WikiLink(source, link)

-----------------------------------------------------------------------------
Source == zip.files[item]
Unwritten == SubSeq(zip.texts[item], Len(text) + 1, Len(zip.texts[item]))
Running == item <= Len(zip.files)

\* Mutant: an asset is uploaded once for all pages.
RememberedForAll(asset) == {c \in cache : c.asset = asset}

Remembered(asset) == {c \in cache : c.asset = asset /\ c.page = Target(Source)}

NeedsAsset(link) ==
  link.syntax # "code" /\ PagesFor(Source, link) = {} /\ AssetAt(Source, link) # {}

TransformLink ==
  /\ Running /\ Unwritten # <<>> /\ ~NeedsAsset(Head(Unwritten))
  /\ text' = Append(text, Rewritten(Source, Head(Unwritten)))
  /\ UNCHANGED <<zip, item, pages, uploads, cache, mishaps>>

\* resolveAndUploadAsset
UploadAsset ==
  /\ Running /\ Unwritten # <<>> /\ NeedsAsset(Head(Unwritten))
  /\ LET asset == Sole(AssetAt(Source, Head(Unwritten)))
         new == [page |-> Target(Source), asset |-> asset, at |-> Len(uploads) + 1]
     IN IF Remembered(asset) # {}
        THEN /\ text' = Append(text, Out("asset", (CHOOSE c \in Remembered(asset) : TRUE).at))
             /\ UNCHANGED <<uploads, cache>>
        ELSE /\ uploads' = Append(uploads, new) /\ cache' = cache \cup {new}
             /\ text' = Append(text, Out("asset", new.at))
  /\ UNCHANGED <<zip, item, pages, mishaps>>

\* An item that cannot be transformed is skipped; its page stays as EnsurePath made it.
UploadFails ==
  /\ Running /\ Unwritten # <<>> /\ NeedsAsset(Head(Unwritten)) /\ mishaps.failures < MaxUploadFailures
  /\ mishaps' = [mishaps EXCEPT !.failures = @ + 1]
  /\ item' = item + 1 /\ text' = <<>>
  /\ UNCHANGED <<zip, pages, uploads, cache>>

\* The page is written, with the path of the file: two files may go to one page.
UpdatePage ==
  /\ Running /\ Unwritten = <<>>
  /\ pages' = [pages EXCEPT ![item] = text] /\ item' = item + 1 /\ text' = <<>>
  /\ UNCHANGED <<zip, uploads, cache, mishaps>>

\* A new process, and a new transformer, goes on with the item that was interrupted.
Resume ==
  /\ Running /\ mishaps.resumes < MaxResumes
  /\ mishaps' = [mishaps EXCEPT !.resumes = @ + 1]
  /\ text' = <<>> /\ cache' = {}
  /\ UNCHANGED <<zip, item, pages, uploads>>

\* What FindMarkdownEntries and the splitting of a text can give.  EnsurePath makes no page
\* for the empty path, and a link that has no segment says where it starts.
Link == [syntax : {"markdown", "wiki", "code"}, anchor : BOOLEAN, from : {"top", "dot", "bare"},
         segs : Seq(Name \cup {Up}), ext : {"none", "md", "asset"}]

ASSUME ArchiveAssumption ==
  \A z \in Archive :
    /\ z \in [files : Seq(Seq(Name) \ {<<>>}), texts : Seq(Seq(Link)), assets : SUBSET Seq(Name), under : Seq(Name)]
    /\ Len(z.texts) = Len(z.files)
    /\ \A i \in DOMAIN z.files : Len(z.files[i]) = 1 /\ Fold[z.files[i][1]] = Index => z.under # <<>>
    /\ \A i \in DOMAIN z.texts : \A k \in DOMAIN z.texts[i] :
         z.texts[i][k].from = "bare" => z.texts[i][k].segs # <<>>

LinksInit ==
  /\ zip \in Archive /\ item = 1 /\ text = <<>>
  /\ pages = [i \in DOMAIN zip.files |-> <<>>]
  /\ uploads = <<>> /\ cache = {} /\ mishaps = [failures |-> 0, resumes |-> 0]

LinksNext == TransformLink \/ UploadAsset \/ UploadFails \/ UpdatePage \/ Resume

LinksSpec == LinksInit /\ [][LinksNext]_linksVars

-----------------------------------------------------------------------------
(* Properties *)

\* The files a link names in the archive as it was on disk: at its place below the folder
\* of its file, or below the top when it leaves that open and there is none.  The code has no
\* page for the top itself, and leaves a link to it as it is.
NamedAt(source, link) ==
  LET place == Folded(Base(source, link)) IN
  IF Base(source, link) \in {<<>>, Outside} THEN {}
  ELSE {f \in Files : Folded(f) = place \/ Folded(f) = Append(place, Index)}
NamedFiles(source, link) ==
  IF HasExtension(link) THEN {}
  ELSE IF NamedAt(source, link) = {} /\ link.from = "bare" THEN NamedAt(source, [link EXCEPT !.from = "top"])
  ELSE NamedAt(source, link)

\* A link of an imported page leads to the page of the file that it named in the archive, and
\* to the page's own copy of an asset, whatever was uploaded before, for another page, or by a
\* process that was interrupted.  [[Title]] and [[path]] of a page at the top are left to the
\* titles of the pages.  A link is never led to a page of another name.
ImportedLinksLand ==
  \A i \in DOMAIN pages : \A k \in DOMAIN pages[i] :
    LET source == zip.files[i]
        link == zip.texts[i][k]
        out == pages[i][k]
        targets == {Target(f) : f \in NamedFiles(source, link)}
        byTitle == link.syntax = "wiki" /\ ~link.anchor
                   /\ \/ link.from = "bare" /\ Len(link.segs) = 1
                      \/ \E t \in targets : Len(t) = 1
    IN /\ link.syntax = "code" => out = Same
       /\ link.syntax # "code" /\ ~byTitle /\ targets # {} => out.form # "same" /\ out.to \in targets
       /\ link.syntax # "code" /\ AssetAt(source, link) # {} =>
            /\ out.form = "asset" /\ uploads[out.to].page = Target(source)
            /\ uploads[out.to].asset = Base(source, link)
       /\ (out.form \in {"page", "wiki"} /\ link.segs # <<>> /\ Last(link.segs) # Up
             /\ Fold[Last(link.segs)] # Index) => Last(out.to) = Slug[Last(link.segs)]
=============================================================================
