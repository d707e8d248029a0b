------------------------------ MODULE FileTree ------------------------------
(***************************************************************************)
(* The page tree of the adapter that keeps pages as files: the tree in the *)
(* memory of the process, and the directories, Markdown files and child    *)
(* orders on the disk that it is read from at the next start.              *)
(*                                                                         *)
(* The mutex of the tree makes operations exclude each other; an operation *)
(* is the list of the file system calls and assignments it has still to    *)
(* make.  Any call may fail, and the process may stop between two of them. *)
(* Contents and metadata are left out: a file is the id in its front       *)
(* matter.  Slugs differ in more than their case, and nothing is ignored.  *)
(***************************************************************************)
EXTENDS Integers, FiniteSets, Sequences, SequencesExt, Functions

CONSTANTS MaxPages, Slugs, MaxFailures, MaxCrashes

ASSUME FileTreeAssumption == {MaxPages, MaxFailures, MaxCrashes} \subseteq Nat /\ Slugs \subseteq Nat

Top == 0                       \* the id of the root
Nowhere == -1

VARIABLES nodes,     \* memory: parent, slug and kind of the nodes
          kids,      \* memory: the children of each node, in their order
          files,     \* disk: the id in the page file of a path
          dirs,      \* disk: the id in index.md (or Nowhere) and the child order of a directory
          todo,      \* the steps left of the operation that has the mutex
          instance,   \* "up", "down", or "refused" when it cannot start
          made, failed, crashes,
          torn,      \* observer: what a failure or a crash has cut in two
          kept       \* observer: the pages that were created, and whose deletion has not begun

treeFileVars == <<nodes, kids, files, dirs, todo, instance, made, failed, crashes, torn, kept>>

Parted(p) == SubSeq(p, 1, Len(p) - 1)
Without(f, gone) == [x \in DOMAIN f \ gone |-> f[x]]
With(f, x, v) == [y \in DOMAIN f \cup {x} |-> IF y = x THEN v ELSE f[y]]
Beneath(p, q) == IsStrictPrefix(p, q)
Bare == [index |-> Nowhere, order |-> <<>>]

\* dirPathForNode
Path(n) ==
  LET at[m \in DOMAIN nodes] == IF m = Top THEN <<>> ELSE Append(at[nodes[m].parent], nodes[m].slug)
  IN at[n]

Children(n) == {m \in DOMAIN nodes \ {Top} : nodes[m].parent = n}
Under(n) == {m \in DOMAIN nodes : m = n \/ Beneath(Path(n), Path(m))}

-----------------------------------------------------------------------------
(* Steps.  What is left to do when one fails is part of it. *)

Call(do, n, p, with) == [do |-> do, node |-> n, path |-> p, with |-> with, otherwise |-> <<>>]

OrElse(step, undo) == [step EXCEPT !.otherwise = undo]

\* Steps that stop at the first error, and then.
AllOr(steps, then) == [i \in DOMAIN steps |-> OrElse(steps[i], then)] \o then

\* Mutant: index.md is written first, and the file is removed after it.
WrittenBefore(n, p) ==
  <<Call("write", n, p, "section"), Call("kind", n, p, "section")>>
  \o (IF p \in DOMAIN files THEN <<Call("rmfile", n, p, 0)>> ELSE <<>>)

\* ConvertNode to a section keeps the content as index.md.
ToSection(n, p) ==
  <<Call("mkdir", n, p, 0)>>
  \o (IF p \in DOMAIN files THEN <<Call("file to index", n, p, 0)>> ELSE <<>>)
  \o <<Call("kind", n, p, "section"), Call("write", n, p, "section")>>

\* ConvertNode to a page
ToPage(n, p, index) ==
  <<Call("only index", n, p, 0),
    IF index THEN Call("index to file", n, p, 0) ELSE Call("write", n, p, "page"),
    Call("remove order", n, p, 0), Call("rmdir", n, p, 0), Call("kind", n, p, "page")>>

Converts(n) == n # Top /\ nodes[n].kind = "page"

\* DeleteSection, DeletePage
Erase(n, p, kind) == Call(IF kind = "section" THEN "rmtree" ELSE "rmfile", n, p, 0)

Joins(n, parent, slug, kind, at) ==
  Call("join", n, <<>>, [parent |-> parent, slug |-> slug, kind |-> kind, at |-> at])

\* Mutant: the page stays.
UndoCreateKeepsPage(n, parent, p, kind, converts) ==
  <<Call("leave", n, p, 0)>>
  \o (IF converts THEN <<Call("remove order", parent, Parted(p), 0)>> \o ToPage(parent, Parted(p), TRUE)
                  ELSE <<>>)

\* rollbackCreatedNodeLocked
UndoCreate(n, parent, p, kind, converts) ==
  <<Call("leave", n, p, 0), Erase(n, p, kind)>>
  \o (IF converts THEN <<Call("remove order", parent, Parted(p), 0)>> \o ToPage(parent, Parted(p), TRUE)
                  ELSE <<>>)

\* createNodeLocked
Creating(n, parent, p, slug, kind, converts) ==
  (IF converts THEN ToSection(parent, Parted(p)) ELSE <<>>)
  \o <<Call("mkdir", n, Parted(p), 0), Call("absent", n, p, 0)>>
  \o (IF kind = "section" THEN <<Call("mkdir", n, p, 0)>> ELSE <<>>)
  \o <<Call("write", n, p, kind), Joins(n, parent, slug, kind, MaxPages),
       OrElse(Call("order", parent, Parted(p), 0), UndoCreate(n, parent, p, kind, converts)),
       Call("created", n, p, 0)>>

\* rollbackMovedNodeLocked: an error does not stop it.
UndoMove(n, old, new, converts) ==
  LET pn == Path(new)
      q == Append(pn, nodes[n].slug)
      fromOld == <<Call("order", old, Path(old), 0)>>
      fromBoth == AllOr(fromOld, <<Call("order", new, pn, 0)>>)
      back == Call("back", n, <<>>, [parent |-> old, from |-> new, kids |-> <<kids[old], kids[new]>>])
      rest == IF converts /\ kids[new] = <<>>
              THEN LET fold == AllOr(ToPage(new, pn, TRUE), fromBoth)
                   IN <<OrElse(Call("remove order", new, pn, 0), SubSeq(fold, 1, 5) \o fromOld)>>
                      \o SubSeq(fold, 1, 5) \o fromOld
              ELSE fromBoth
  IN <<OrElse(Call("rename", n, q, Path(n)), <<back>> \o rest), back>> \o rest

-----------------------------------------------------------------------------
(* Operations *)

Locks(steps) ==
  /\ instance = "up" /\ todo = <<>> /\ todo' = steps
  /\ UNCHANGED <<nodes, kids, files, dirs, instance, failed, crashes, torn>>

Taken(parent, slug) == \E m \in Children(parent) : nodes[m].slug = slug

CreateNode(parent, slug, kind) ==
  /\ made < MaxPages /\ ~Taken(parent, slug)
  /\ Locks(Creating(made + 1, parent, Append(Path(parent), slug), slug, kind, Converts(parent)))
  /\ made' = made + 1 /\ UNCHANGED kept

\* A missing section and the page below it
EnsurePagePath(parent, slug, last, kind) ==
  /\ made + 1 < MaxPages /\ ~Taken(parent, slug)
  /\ LET p == Append(Path(parent), slug) IN
     Locks(Creating(made + 1, parent, p, slug, "section", Converts(parent))
           \o Creating(made + 2, made + 1, Append(p, last), last, kind, FALSE))
  /\ made' = made + 2 /\ UNCHANGED kept

DeleteNode(n, recursive) ==
  /\ recursive \/ kids[n] = <<>>
  /\ Locks(<<Erase(n, Path(n), nodes[n].kind), Call("leave", n, Path(n), 0),
             Call("order", nodes[n].parent, Parted(Path(n)), 0)>>)
  /\ kept' = kept \ Under(n) /\ UNCHANGED made

\* A body is written before the rename, under the old name.
UpdateNode(n, slug, body) ==
  LET p == Path(n)
      q == Append(Parted(p), slug)
  IN /\ q # p => ~Taken(nodes[n].parent, slug)
     /\ Locks((IF body THEN <<Call("write", n, p, nodes[n].kind)>> ELSE <<>>)
              \o (IF q = p THEN <<>> ELSE <<Call("rename", n, p, q), Call("slug", n, q, slug)>>)
              \o <<Call("sync", n, q, nodes[n].kind)>>)
     /\ UNCHANGED <<made, kept>>

ConvertNode(n, kind) ==
  LET p == Path(n) IN
  /\ nodes[n].kind # kind /\ (kind = "page" => kids[n] = <<>>)
  /\ Locks((IF kind = "section" THEN ToSection(n, p)
            ELSE IF p \in DOMAIN dirs THEN ToPage(n, p, dirs[p].index # Nowhere)
            ELSE <<Call("kind", n, p, "page")>>)
           \o <<Call("sync", n, p, kind)>>)
  /\ UNCHANGED <<made, kept>>

\* MoveNodeToPosition; within one parent the new path collides with the page itself.
MoveNode(n, new, at) ==
  LET p == Path(n)
      pn == Path(new)
      q == Append(pn, nodes[n].slug)
      old == nodes[n].parent
      undo == UndoMove(n, old, new, Converts(new))
  IN /\ new \notin Under(n) /\ \A m \in Children(new) : nodes[m].slug = nodes[n].slug => m = n
     /\ Locks((IF Converts(new) THEN ToSection(new, pn) ELSE <<>>)
              \o <<Call("mkdir", n, pn, 0), Call("rename", n, p, q),
                   Joins(n, new, nodes[n].slug, nodes[n].kind, at),
                   OrElse(Call("order", old, Path(old), 0), undo),
                   OrElse(Call("order", new, pn, 0), undo),
                   OrElse(Call("sync", n, q, nodes[n].kind), undo)>>)
     /\ UNCHANGED <<made, kept>>

SortPages(parent, order) ==
  /\ Locks(<<Call("sort", parent, <<>>, order),
             OrElse(Call("order", parent, Path(parent), 0), <<Call("sort", parent, <<>>, kids[parent])>>)>>)
  /\ UNCHANGED <<made, kept>>

-----------------------------------------------------------------------------
(* The steps that are taken *)

This == Head(todo)
Doing(do) == instance = "up" /\ todo # <<>> /\ This.do = do
Proceeds == todo' = Tail(todo) /\ UNCHANGED <<instance, made, failed, crashes>>
DiskOnly == Proceeds /\ UNCHANGED <<nodes, kids, torn, kept>>
MemoryOnly == Proceeds /\ UNCHANGED <<files, dirs, torn>>

\* MkdirAll
WithDirs(p) ==
  [q \in DOMAIN dirs \cup {SubSeq(p, 1, i) : i \in 0..Len(p)} |->
     IF q \in DOMAIN dirs THEN dirs[q] ELSE Bare]

Mkdir == Doing("mkdir") /\ dirs' = WithDirs(This.path) /\ DiskOnly /\ UNCHANGED files

WritePage ==
  /\ Doing("write") \/ (Doing("sync") /\ This.path \in DOMAIN files)
  /\ This.with = "page" /\ Parted(This.path) \in DOMAIN dirs
  /\ files' = With(files, This.path, This.node)
  /\ DiskOnly /\ UNCHANGED dirs

\* A section whose index.md is missing is left alone by a sync.
WriteIndex ==
  /\ Doing("write") \/ Doing("sync")
  /\ This.with = "section"
  /\ dirs' = IF This.do = "write" THEN [WithDirs(This.path) EXCEPT ![This.path].index = This.node]
             ELSE IF This.path \in DOMAIN dirs /\ dirs[This.path].index # Nowhere
             THEN [dirs EXCEPT ![This.path].index = This.node] ELSE dirs
  /\ DiskOnly /\ UNCHANGED files

FileToIndex ==
  /\ Doing("file to index")
  /\ dirs' = [dirs EXCEPT ![This.path].index = files[This.path]]
  /\ files' = Without(files, {This.path})
  /\ DiskOnly

IndexToFile ==
  /\ Doing("index to file")
  /\ files' = With(files, This.path, dirs[This.path].index)
  /\ dirs' = [dirs EXCEPT ![This.path].index = Nowhere]
  /\ DiskOnly

RemoveOrder ==
  /\ Doing("remove order")
  /\ dirs' = [dirs EXCEPT ![This.path].order = <<>>]
  /\ DiskOnly /\ UNCHANGED files

Rmdir == Doing("rmdir") /\ dirs' = Without(dirs, {This.path}) /\ DiskOnly /\ UNCHANGED files

RemovePageFile ==
  /\ Doing("rmfile") /\ This.path \in DOMAIN files
  /\ files' = Without(files, {This.path})
  /\ DiskOnly /\ UNCHANGED dirs

FilesIn(p) == {q \in DOMAIN files : Beneath(p, q)}
DirsIn(p) == {q \in DOMAIN dirs : q = p \/ Beneath(p, q)}

\* RemoveAll goes entry by entry, and may end in the middle.
RemoveSome ==
  /\ Doing("rmtree") /\ This.path \in DOMAIN dirs
  /\ \/ \E q \in FilesIn(This.path) : files' = Without(files, {q}) /\ UNCHANGED dirs
     \/ \E q \in DirsIn(This.path) : dirs[q] # Bare /\ dirs' = [dirs EXCEPT ![q] = Bare] /\ UNCHANGED files
  /\ UNCHANGED <<todo, nodes, kids, instance, made, failed, crashes, torn, kept>>

RemoveAll ==
  /\ Doing("rmtree") /\ This.path \in DOMAIN dirs
  /\ FilesIn(This.path) = {} /\ \A q \in DirsIn(This.path) : dirs[q] = Bare
  /\ dirs' = Without(dirs, DirsIn(This.path))
  /\ DiskOnly /\ UNCHANGED files

Exists(p) == p \in DOMAIN files \/ p \in DOMAIN dirs
IsThere(n, p) == IF nodes[n].kind = "section" THEN p \in DOMAIN dirs ELSE p \in DOMAIN files

\* The content of f at p and below, at q
Moved(f, from, p, q) ==
  LET to(r) == IF r \in from THEN q \o SubSeq(r, Len(p) + 1, Len(r)) ELSE r
  IN [s \in {to(r) : r \in DOMAIN f} |-> f[CHOOSE r \in DOMAIN f : to(r) = s]]

\* os.Rename of MoveNode and RenameNode
Rename ==
  /\ Doing("rename") /\ ~Exists(This.with) /\ IsThere(This.node, This.path)
  /\ IF nodes[This.node].kind = "section"
     THEN /\ files' = Moved(files, FilesIn(This.path), This.path, This.with)
          /\ dirs' = Moved(dirs, DirsIn(This.path), This.path, This.with)
     ELSE files' = Moved(files, {This.path}, This.path, This.with) /\ UNCHANGED dirs
  /\ DiskOnly

SaveChildOrder ==
  /\ Doing("order") /\ nodes[This.node].kind = "section"
  /\ dirs' = [WithDirs(This.path) EXCEPT ![This.path].order = kids[This.node]]
  /\ DiskOnly /\ UNCHANGED files

\* The call finds what it must not, or does not find what it must.
Refused ==
  \/ Doing("absent") /\ Exists(This.path)
  \/ Doing("rename") /\ (Exists(This.with) \/ ~IsThere(This.node, This.path))
  \/ Doing("rmfile") /\ This.path \notin DOMAIN files
  \/ Doing("rmtree") /\ This.path \notin DOMAIN dirs
  \/ Doing("only index") /\ FilesIn(This.path) \cup (DirsIn(This.path) \ {This.path}) # {}
  \/ Doing("write") /\ This.with = "page" /\ Parted(This.path) \notin DOMAIN dirs
  \/ Doing("sync") /\ This.with = "page" /\ This.path \notin DOMAIN files
  \/ Doing("order") /\ nodes[This.node].kind # "section"

Refuse ==
  /\ Refused /\ todo' = This.otherwise
  /\ UNCHANGED <<nodes, kids, files, dirs, instance, made, failed, crashes, torn, kept>>

Check == (Doing("absent") \/ Doing("only index")) /\ ~Refused /\ DiskOnly /\ UNCHANGED <<files, dirs>>

\* The assignments between the calls
Left(n) == [m \in DOMAIN kids |-> SelectSeq(kids[m], LAMBDA k : k # n)]

Join ==
  /\ Doing("join")
  /\ LET new == This.with
         there == Left(This.node)
         at == IF new.at <= Len(there[new.parent]) THEN new.at ELSE Len(there[new.parent])
     IN /\ kids' = [With(there, This.node, IF This.node \in DOMAIN kids THEN kids[This.node] ELSE <<>>)
                      EXCEPT ![new.parent] = InsertAt(@, at + 1, This.node)]
        /\ nodes' = With(nodes, This.node, [parent |-> new.parent, slug |-> new.slug, kind |-> new.kind])
  /\ MemoryOnly /\ UNCHANGED kept

Leave ==
  /\ Doing("leave")
  /\ nodes' = Without(nodes, Under(This.node)) /\ kids' = Without(Left(This.node), Under(This.node))
  /\ MemoryOnly /\ UNCHANGED kept

\* restoreChildSnapshot, twice
GoBack ==
  /\ Doing("back")
  /\ nodes' = [nodes EXCEPT ![This.node].parent = This.with.parent]
  /\ kids' = [kids EXCEPT ![This.with.parent] = This.with.kids[1], ![This.with.from] = This.with.kids[2]]
  /\ MemoryOnly /\ UNCHANGED kept

SetKind == Doing("kind") /\ nodes' = [nodes EXCEPT ![This.node].kind = This.with] /\ MemoryOnly /\ UNCHANGED <<kids, kept>>
SetSlug == Doing("slug") /\ nodes' = [nodes EXCEPT ![This.node].slug = This.with] /\ MemoryOnly /\ UNCHANGED <<kids, kept>>
SetOrder == Doing("sort") /\ kids' = [kids EXCEPT ![This.node] = This.with] /\ MemoryOnly /\ UNCHANGED <<nodes, kept>>
Created == Doing("created") /\ kept' = kept \cup {This.node} /\ MemoryOnly /\ UNCHANGED <<nodes, kids>>

-----------------------------------------------------------------------------
(* Failures and restarts *)

\* What is cut in two when the next call fails or is never made
Cut ==
  IF This.do \in {"file to index", "rmdir"} \/ (This.do = "remove order" /\ This.path \in DOMAIN files)
  THEN {"conversion"}
  ELSE IF This.do = "write" /\ This.with = "section" THEN {"section"}
  ELSE IF This.do = "rmtree" THEN {"deletion"} ELSE {}

MayFail == This.do \notin {"absent", "only index", "join", "leave", "back", "kind", "slug", "sort", "created"}

\* The call fails, and the operation goes on as its error handling says.
FailCall ==
  /\ instance = "up" /\ todo # <<>> /\ MayFail /\ failed < MaxFailures
  /\ todo' = This.otherwise /\ failed' = failed + 1
  /\ torn' = torn \cup Cut
  /\ UNCHANGED <<nodes, kids, files, dirs, instance, made, crashes, kept>>

NoNodes == [n \in {Top} |-> [parent |-> Nowhere, slug |-> 0, kind |-> "section"]]
NoKids == [n \in {Top} |-> <<>>]

CrashInstance ==
  /\ instance = "up" /\ crashes < MaxCrashes
  /\ instance' = "down" /\ todo' = <<>> /\ nodes' = NoNodes /\ kids' = NoKids
  /\ crashes' = crashes + 1
  /\ torn' = IF todo = <<>> THEN torn ELSE torn \cup Cut
  /\ UNCHANGED <<files, dirs, made, failed, kept>>

\* ensureUniqueReconstructedSlug
SharedName == DOMAIN files \cap (DOMAIN dirs \ {<<>>})

\* reconstructTreeRecursive: directories without index.md get one, with a new id.
Unnamed == {p \in DOMAIN dirs \ {<<>>} : dirs[p].index = Nowhere}

Materialized ==
  LET new == SetToSeq(Unnamed) IN
  [p \in DOMAIN dirs |->
     IF p \in Unnamed THEN [dirs[p] EXCEPT !.index = made + CHOOSE i \in DOMAIN new : new[i] = p]
     ELSE dirs[p]]

IdAt(disk, kind, p) == IF p = <<>> THEN Top ELSE IF kind = "page" THEN files[p] ELSE disk[p].index

LoadedNodes(disk) ==
  LET found == {<<"page", p>> : p \in DOMAIN files} \cup {<<"section", p>> : p \in DOMAIN disk}
      place(n) == CHOOSE f \in found : IdAt(disk, f[1], f[2]) = n
  IN [n \in {IdAt(disk, f[1], f[2]) : f \in found} |->
        IF n = Top THEN NoNodes[Top]
        ELSE LET p == place(n)[2] IN
             [parent |-> IdAt(disk, "section", Parted(p)), slug |-> Last(p), kind |-> place(n)[1]]]

\* applyChildOrder: the children the file names, and then the others by name.
LoadedKids(disk, loaded) ==
  LET order(n) == disk[CHOOSE p \in DOMAIN disk : IdAt(disk, "section", p) = n].order
      rank(n, k) == IF Contains(order(n), k) THEN IndexFirstSubSeq(<<k>>, order(n)) ELSE 100 + loaded[k].slug
  IN [n \in DOMAIN loaded |->
        IF loaded[n].kind = "page" THEN <<>>
        ELSE SetToSortSeq({k \in DOMAIN loaded \ {Top} : loaded[k].parent = n},
                          LAMBDA j, k : rank(n, j) < rank(n, k))]

\* inspectPages of a stopped instance: what it would import, when it finds no name twice,
\* no section without a stored id and no id twice.
Sources == {<<"page", p>> : p \in DOMAIN files} \cup {<<"section", p>> : p \in DOMAIN dirs \ {<<>>}}

Importable ==
  /\ SharedName = {} /\ Unnamed = {}
  /\ IsInjective([s \in Sources |-> IdAt(dirs, s[1], s[2])])

Imported ==
  [n \in {IdAt(dirs, s[1], s[2]) : s \in Sources} |->
     LET s == CHOOSE t \in Sources : IdAt(dirs, t[1], t[2]) = n IN
     [parent |-> IdAt(dirs, "section", Parted(s[2])), slug |-> Last(s[2]), kind |-> s[1]]]

\* LoadTree
Boot ==
  /\ instance = "down"
  /\ IF SharedName # {} THEN instance' = "refused" /\ UNCHANGED <<nodes, kids, dirs, made, torn>>
     ELSE /\ instance' = "up" /\ torn' = torn \cap {"conversion"}
          /\ dirs' = Materialized
          /\ made' = made + Cardinality(Unnamed)
          /\ nodes' = LoadedNodes(Materialized)
          /\ kids' = LoadedKids(Materialized, nodes')
  /\ UNCHANGED <<files, todo, failed, crashes, kept>>

-----------------------------------------------------------------------------
FileTreeInit ==
  /\ nodes = NoNodes /\ kids = NoKids
  /\ files = [p \in {} |-> 0] /\ dirs = [p \in {<<>>} |-> Bare]
  /\ todo = <<>> /\ instance = "up"
  /\ made = 0 /\ failed = 0 /\ crashes = 0
  /\ torn = {} /\ kept = {}

Kinds == {"page", "section"}
Pages == DOMAIN nodes \ {Top}

Operations ==
  \/ \E parent \in DOMAIN nodes, slug \in Slugs, kind \in Kinds : CreateNode(parent, slug, kind)
  \/ \E parent \in DOMAIN nodes, slug, last \in Slugs, kind \in Kinds : EnsurePagePath(parent, slug, last, kind)
  \/ \E n \in Pages, recursive \in BOOLEAN : DeleteNode(n, recursive)
  \/ \E n \in Pages, slug \in Slugs, body \in BOOLEAN : UpdateNode(n, slug, body)
  \/ \E n \in Pages, kind \in Kinds : ConvertNode(n, kind)
  \/ \E n \in Pages, new \in DOMAIN nodes, at \in 0..MaxPages : MoveNode(n, new, at)
  \/ \E parent \in DOMAIN nodes : \E order \in SetToSeqs(Children(parent)) : SortPages(parent, order)

Calls ==
  \/ Mkdir \/ WritePage \/ WriteIndex \/ FileToIndex \/ IndexToFile \/ RemoveOrder \/ Rmdir
  \/ RemovePageFile \/ RemoveSome \/ RemoveAll \/ Rename \/ SaveChildOrder \/ Refuse \/ Check

Assignments == Join \/ Leave \/ GoBack \/ SetKind \/ SetSlug \/ SetOrder \/ Created

FileTreeNext == Operations \/ Calls \/ Assignments \/ FailCall \/ CrashInstance \/ Boot

FileTreeSpec == FileTreeInit /\ [][FileTreeNext]_treeFileVars

-----------------------------------------------------------------------------
(* Properties *)

\* Between two operations the disk is what the memory says, with one exception that is
\* named: a conversion, the creation of a section or a deletion that was cut in two.  Any
\* other failure is without effect or rolled back, and until a crash the orders agree too.
\* An instance that is stopped there can be imported, and it is this tree that is imported.
TreeFollowsDisk ==
  instance = "up" /\ todo = <<>> /\ torn = {} /\ failed <= 1 =>
    /\ nodes = LoadedNodes(dirs)
    /\ Importable /\ Imported = Without(nodes, {Top})
    /\ crashes = 0 => kids = LoadedKids(dirs, nodes)

\* A page that was created, and that nobody began to delete, has its file on the disk through
\* a failure and every crash of any operation, and the process can start on what these leave.
\* A conversion that is cut in two is excepted: it leaves a page and a directory of one name.
PagesKept ==
  "conversion" \notin torn =>
    /\ instance # "refused"
    /\ failed <= 1 => kept \subseteq {files[p] : p \in DOMAIN files} \cup {dirs[p].index : p \in DOMAIN dirs}
=============================================================================
