---------------------------- MODULE TreeMigration ----------------------------
(***************************************************************************)
(* The start of a file adapter on the data of an older release, in which   *)
(* the tree was a snapshot (tree.json): ids, titles, kinds and order are   *)
(* moved into the files, version by version, before the tree is built from *)
(* the files alone and the snapshot is removed.                            *)
(*                                                                         *)
(* The steps of a version change files one at a time; then the snapshot    *)
(* and the number of the version are saved.  Any step may fail, which ends *)
(* the start, and the process may stop between two; the next start resumes *)
(* with the version that was saved.                                        *)
(*                                                                         *)
(* Pages 1 and 2 are at the top, 3 is below 1, and the order of the top is *)
(* not that of the names.  A page has a file, or it is a directory with or *)
(* without index.md, or older releases left it with both, or with none.    *)
(***************************************************************************)
EXTENDS Integers, Sequences, FiniteSets, SequencesExt

CONSTANTS MaxStops

ASSUME TreeMigrationAssumption == MaxStops \in Nat

Page == 1..3
TreeTop == 0
Above(n) == IF n = 3 THEN 1 ELSE TreeTop
SortedAs(n) == IF n = TreeTop THEN <<2, 1>> ELSE IF n = 1 THEN <<3>> ELSE <<>>
Walk == <<2, 1, 3>>
Current == 5                   \* CurrentSchemaVersion

VARIABLES snapshot, \* kind and time of creation of the pages in tree.json
          text,     \* the Markdown files: id, title and creation in the front matter, and their age
          folder,   \* the pages that are directories
          sorted,   \* the child orders that are saved
          schema,   \* the version that is saved; -1 when the file is cut
          work,     \* the steps of the start that are left
          mem,      \* the tree that is migrated
          served,   \* the tree it serves
          state,    \* "down", "starting", "up", or "refused"
          stops,
          had       \* observer: the files and directories that there were at first

migrationVars == <<snapshot, text, folder, sorted, schema, work, mem, served, state, stops, had>>

File(id, title, created, age) == [id |-> id, title |-> title, created |-> created, age |-> age]
Put(f, x, v) == [y \in DOMAIN f \cup {x} |-> IF y = x THEN v ELSE f[y]]
Place(n, kind) == <<n, IF kind = "section" THEN "index" ELSE "file">>
Written(p) == p \in DOMAIN text
Own(n) == Place(n, mem[n].kind)
Fresh(n) == n + 10             \* a new id

Fits(n) == Above(n) = TreeTop \/ Above(n) \in folder
Collides == \E n \in folder : Fits(n) /\ Written(<<n, "file">>)

-----------------------------------------------------------------------------
(* The versions *)

Do(do, n) == [do |-> do, node |-> n]
ForAll(do) == [i \in DOMAIN Walk |-> Do(do, Walk[i])]

Migration(v) ==
  CASE v = 1 -> <<Do("times", TreeTop)>>
    [] v = 2 -> <<Do("kinds", TreeTop)>> \o ForAll("front")
    [] v = 3 -> ForAll("meta")
    [] v = 4 -> ForAll("index")
    [] v = 5 -> <<Do("order", TreeTop)>> \o ForAll("order")

\* Mutant: the tree is not saved with the version that changed it.
TreeNotSaved(v) == Migration(v) \o <<Do("schema", v)>>
Saved(v) == Migration(v) \o <<Do("tree", TreeTop), Do("schema", v)>>

\* Run goes from version to version; then the tree is built from the files.
After(v) == IF v < Current THEN Saved(v + 1) ELSE <<Do("rebuild", TreeTop), Do("remove", TreeTop)>>

Start ==
  /\ state = "down"
  /\ IF schema = -1 THEN state' = "refused" /\ UNCHANGED <<work, mem>>
     ELSE /\ state' = "starting"
          /\ work' = IF schema = Current THEN <<Do("rebuild", TreeTop)>> ELSE After(schema)
          /\ mem' = IF schema = Current THEN mem ELSE snapshot
  /\ UNCHANGED <<snapshot, text, folder, sorted, schema, served, stops, had>>

-----------------------------------------------------------------------------
(* The steps *)

Has(do) == state = "starting" /\ work # <<>> /\ Head(work).do = do
It == Head(work).node
Done == work' = Tail(work) /\ UNCHANGED <<served, state, stops, had>>
InFiles == Done /\ UNCHANGED <<snapshot, sorted, schema, mem>>
InTree == Done /\ UNCHANGED <<snapshot, text, folder, sorted, schema>>

\* resolveNode: a file before a directory
Resolved(n) ==
  IF Written(<<n, "file">>) THEN "page" ELSE IF n \in folder THEN "section" ELSE "none"

\* backfillMetadata: not below a page that has its times, or that is not found.
Dated(n) == mem[n].created # "zero"
Reached(n) == Resolved(n) # "none" /\ (Above(n) # TreeTop => Resolved(Above(n)) # "none" /\ ~Dated(Above(n)))
Age(n) == IF Written(Place(n, Resolved(n))) THEN text[Place(n, Resolved(n))].age ELSE "old"

BackfillMetadata ==
  /\ Has("times")
  /\ mem' = [n \in Page |-> IF ~Dated(n) /\ Reached(n) THEN [mem[n] EXCEPT !.created = Age(n)] ELSE mem[n]]
  /\ InTree

BackfillKind ==
  /\ Has("kinds")
  /\ mem' = [n \in Page |->
       IF mem[n].kind # "" THEN mem[n]
       ELSE [mem[n] EXCEPT !.kind = IF Resolved(n) # "none" THEN Resolved(n)
                                    ELSE IF SortedAs(n) # <<>> THEN "section" ELSE "page"]]
  /\ InTree

\* What the file of a page says, or will say
Contents(n) == IF Written(Own(n)) THEN text[Own(n)] ELSE File(0, FALSE, "zero", "now")
Ancestors(n) == {m \in {n, Above(n)} : m # TreeTop}

\* ReadPageRaw: a section may have no file, a page may not.
Drifted(n) == mem[n].kind = "page" /\ ~Written(Own(n))

\* addFrontmatter: a section gets a file.
AddFrontmatter ==
  /\ Has("front") /\ ~Drifted(It)
  /\ text' = IF Contents(It).id # 0 /\ Contents(It).title THEN text
             ELSE Put(text, Own(It), [Contents(It) EXCEPT !.id = IF @ = 0 THEN It ELSE @,
                                                        !.title = TRUE, !.age = "now"])
  /\ folder' = IF mem[It].kind = "section" THEN folder \cup Ancestors(It) ELSE folder
  /\ InFiles

\* The DriftError is none of the errors that are passed over as missing content: it ends this
\* start, and each one after it.
RefuseDrift ==
  /\ Has("front") /\ Drifted(It)
  /\ state' = "refused" /\ work' = <<>>
  /\ UNCHANGED <<snapshot, text, folder, sorted, schema, mem, served, stops, had>>

BackfillMetadataFrontmatter ==
  /\ Has("meta")
  /\ text' = IF Written(Own(It))
             THEN [text EXCEPT ![Own(It)] = [@ EXCEPT !.created = mem[It].created, !.age = "now"]] ELSE text
  /\ InFiles /\ UNCHANGED folder

\* ensureSectionIndex
MaterializeSectionIndex ==
  /\ Has("index")
  /\ IF mem[It].kind # "section" THEN UNCHANGED <<text, folder>>
     ELSE /\ text' = Put(text, Own(It), File(It, TRUE, mem[It].created, "now"))
          /\ folder' = folder \cup Ancestors(It)
  /\ InFiles

\* A page with children becomes a section, in the tree.
BackfillChildOrder ==
  /\ Has("order")
  /\ IF SortedAs(It) = <<>> THEN UNCHANGED <<sorted, folder, mem>>
     ELSE /\ sorted' = Put(sorted, It, SortedAs(It))
          /\ folder' = folder \cup {m \in {It} : m # TreeTop}
          /\ mem' = IF It = TreeTop THEN mem ELSE [mem EXCEPT ![It].kind = "section"]
  /\ Done /\ UNCHANGED <<snapshot, text, schema>>

SaveTree ==
  /\ Has("tree") /\ snapshot' = mem
  /\ Done /\ UNCHANGED <<text, folder, sorted, schema, mem>>

SaveSchema ==
  /\ Has("schema") /\ schema' = It /\ work' = After(It)
  /\ UNCHANGED <<snapshot, text, folder, sorted, mem, served, state, stops, had>>

\* ReconstructTreeFromFS: a directory without index.md gets one, and a front matter that
\* lacks something is completed.
Found == {n \in Page : Fits(n) /\ (n \in folder \/ Written(<<n, "file">>))}
Read(n) ==
  LET p == Place(n, IF n \in folder THEN "section" ELSE "page")
      f == IF Written(p) THEN text[p] ELSE File(0, FALSE, "zero", "now")
  IN [at |-> p, id |-> IF f.id = 0 THEN Fresh(n) ELSE f.id, title |-> f.title,
      created |-> IF f.created = "zero" THEN f.age ELSE f.created, age |-> f.age]

\* applyChildOrder, at the top
Rank(n) ==
  LET order == IF TreeTop \in DOMAIN sorted THEN sorted[TreeTop] ELSE <<>>
  IN IF Contains(order, Read(n).id) THEN CHOOSE i \in DOMAIN order : order[i] = Read(n).id ELSE Len(order) + n
TopOrder ==
  CHOOSE order \in SetToSeqs({n \in Found : Above(n) = TreeTop}) :
    \A i, j \in DOMAIN order : i < j => Rank(order[i]) < Rank(order[j])

Rebuild ==
  /\ Has("rebuild")
  /\ IF Collides
     THEN state' = "refused" /\ work' = <<>> /\ UNCHANGED <<text, served>>
     ELSE /\ text' = [p \in DOMAIN text \cup {Read(n).at : n \in Found} |->
                        IF \E n \in Found : Read(n).at = p
                        THEN LET r == Read(p[1]) IN File(r.id, IF Written(p) THEN r.title ELSE FALSE, r.created, r.age)
                        ELSE text[p]]
          /\ served' = [page |-> [n \in Found |-> [id |-> Read(n).id, title |-> Read(n).title, created |-> Read(n).created]],
                        top |-> TopOrder]
          /\ work' = Tail(work)
          /\ state' = IF Tail(work) = <<>> THEN "up" ELSE state
  /\ UNCHANGED <<snapshot, folder, sorted, schema, mem, stops, had>>

RemoveSnapshot ==
  /\ Has("remove")
  /\ snapshot' \in {snapshot, [n \in {} |-> 0]}
  /\ state' = "up" /\ work' = <<>>
  /\ UNCHANGED <<text, folder, sorted, schema, mem, served, stops, had>>

-----------------------------------------------------------------------------
(* Stops: a step fails, the process stops, or it is stopped in good order.  Only the number  *)
(* of the version is not written in one piece.                                              *)

MayStop == stops < MaxStops /\ stops' = stops + 1 /\ state' = "down" /\ work' = <<>>

Stop ==
  /\ state \in {"starting", "up"} /\ MayStop
  /\ schema' \in {schema} \cup (IF Has("schema") THEN {-1} ELSE {})
  /\ UNCHANGED <<snapshot, text, folder, sorted, mem, served, had>>

-----------------------------------------------------------------------------
Shapes == SUBSET {<<1, "file">>, <<1, "index">>, <<2, "file">>, <<3, "file">>}

MigrationInit ==
  \E shape \in Shapes, bare, kinds \in BOOLEAN :
    /\ folder = IF bare \/ <<1, "index">> \in shape \/ <<3, "file">> \in shape THEN {1} ELSE {}
    /\ text = [p \in shape |-> File(0, FALSE, "zero", "old")]
    /\ snapshot = [n \in Page |-> [kind |-> IF kinds /\ Resolved(n) # "none" THEN Resolved(n) ELSE "",
                                   created |-> "zero"]]
    /\ had = shape \cup {<<n, "folder">> : n \in folder}
    /\ mem = snapshot /\ sorted = [n \in {} |-> <<>>] /\ schema = 0 /\ work = <<>>
    /\ served = [page |-> [n \in {} |-> 0], top |-> <<>>] /\ state = "down" /\ stops = 0

MigrationNext ==
  \/ Start \/ BackfillMetadata \/ BackfillKind \/ AddFrontmatter \/ RefuseDrift
  \/ BackfillMetadataFrontmatter \/ MaterializeSectionIndex \/ BackfillChildOrder \/ SaveTree \/ SaveSchema \/ Rebuild
  \/ RemoveSnapshot \/ Stop

MigrationSpec == MigrationInit /\ [][MigrationNext]_migrationVars

-----------------------------------------------------------------------------
(* Properties *)

Fileless == \E n \in Page : SortedAs(n) = <<>> /\ <<n, "file">> \notin had

\* However often the migration was cut, the instance that starts in the end serves every page
\* that had a file or a directory, with the id and title of the snapshot, its age from before
\* the migration, and the order of the snapshot.  It refuses to start only when the number of
\* the version is cut; when a page without children has no file (ReadPageRaw); or when a page
\* with children in the snapshot is a file: with the directory it had or was given for them, it
\* has two places (ensureUniqueReconstructedSlug).
MigrationKeeps ==
  LET pages == {p[1] : p \in had} IN
  /\ state = "up" =>
       /\ \A n \in pages :
            n \in DOMAIN served.page /\ served.page[n] = [id |-> n, title |-> TRUE, created |-> "old"]
       /\ {1, 2} \subseteq pages => served.top = <<2, 1>>
  /\ state = "refused" => schema = -1 \/ <<1, "file">> \in had \/ Fileless

\* What backfillChildOrder (runner.go:214-217) says of a page with children that is a file: the
\* kind it gives to the page is replaced by the right one when the tree is built from the
\* files, after the last version.
KindIsDerived == schema = Current => state # "refused"
=============================================================================
