# A verification of Komachi's server

Komachi is a wiki server in Go. Pages form a tree; the tree, the pages, their
history and everything derived from them are kept in PostgreSQL, and attachments
in a data directory. Adapters that keep all of it in files remain for older
workspaces, for commands that work on a stopped instance, and as the second
implementation of the storage contracts. This directory has TLA+ models of the
parts of the server where several goroutines, transactions or processes meet or
where an operation of many steps can be cut short, TLC runs that check them on
small instances, and TLAPS proofs that hold for instances of any size.

Source paths below are relative to `src/backend/internal`.

## The system

| component | state | operations | what is hard | what makes it correct |
|---|---|---|---|---|
| write gate (`restore/writegate.go`, maintenance middleware) | mutex, engaged flag, in-flight counter | admit and release a request, Freeze, release | admission races the freeze; a drain can time out | a returned Freeze means no gated handler runs; every Freeze returns and leaves nothing behind |
| snapshots (`snapshot/`, `transfer/backup.go`) | channel of triggers, one running flag, archives | tick, manual trigger, backup, pruning | database and files are copied at different times | an archive is a cut; a trigger is not lost |
| restore (`restore/`, `transfer/restore.go`) | job, journal, data directory, database | trigger, stage, swap, load, rebuild, self-restart | a failure or a crash between any two steps; a second administrator | a mixed directory is journaled and not written to; a job ends |
| restore without PostgreSQL (`restore/swap.go`, `restore/offline.go`) | items beside their originals, open stores | suspend, swap, reopen, roll back, commit | each item is two renames; WAL files; late requests | all of the snapshot or all of the original |
| page tree (`core/tree/`) | table `pages`: parent, slug, kind, position | create, ensure path, copy, delete, rename, move, sort, convert | long sequences of operations; positions and stable sorts | a tree, unique paths, an order that shows every child |
| page tree in files (`core/tree/node_store.go`, `core/treemigration/`) | tree in memory; directories, files, orders | the same, and reconstruction and migration at start | each operation is several file operations | memory is what a restart reads; no page is lost |
| page use cases and effects (`wiki/pages/`, `wiki/pagesave/`) | deferred callbacks of a request | one transaction, then the effects, outside it | callbacks overtake one another | a derived index ends at the current page |
| full-text search (`search/`, `storage/postgres/derived.go`) | table `search_pages` | index a batch, remove, clear, rebuild | callbacks next to rebuilds, row locks | no row goes back in time, none outlives its page |
| tags and properties (`tags/`, `properties/`) | three tables | replace, delete, clear, bootstrap, resync | as search; two tables rebuilt one after the other | as search |
| links (`links/`) | table `links` | replace, break, heal, rebuild | callbacks of different pages change one row | the rows are the page's links; a link is broken exactly when its target is absent |
| link refactoring (`wiki/pages/refactor.go`, `links/link_refactor.go`) | none of its own | rename or move a page and rewrite the links to it | reads and writes in many transactions; text surgery | no text is lost; every link means what it meant |
| revisions (`core/revision/`) | revisions, contents, attachments' blobs | record, coalesce, restore, prune | coalescing replaces what it follows; files change outside the transaction | the latest revision is the page; every revision opens; no text leaves early |
| importer (`importer/`) | one stored plan, a workspace | plan, start, progress, cancel, resume, clear | a goroutine that outlives its request and its process | every item has one outcome; a stale plan writes nothing; links lead where they led |
| accounts and sessions (`core/auth/`) | users, tokens, sessions, second factors | create, invite, reset, log in, refresh, revoke | read first, write later; refresh next to revocation | limits hold; a token or code counts once |
| schema (`storage/postgres/migrate.go`, `transfer/`) | objects, history of migrations | migrate, check, back up, restore | processes of several releases | what was checked is what is used |
| import of a legacy workspace (`transfer/import.go`) | journal, database, directory, report | inspect, load, commit, publish | the workspace changes; the outcome of a commit is unknown | all of one version, or a report of the failure |
| assets, settings, favorites | rows and files | set and read | little | |

**Interactions.** HTTP handlers pass the write gate and call use cases. A use
case runs in one transaction that begins by locking the row of the root
(`core/tree/postgres.go`), so mutations of the tree are serial; the revision is
recorded in it, and the effects it defers run on the same goroutine after the
commit, each in transactions of its own. The snapshot scheduler and the restore
job are goroutines that close the gate with Freeze. The import goroutine, the
rebuild at start and a requested resync are goroutines that do not pass the gate.
Commands (migrate, backup, restore, import) are processes of their own.

`PROJECT.json` lists every component with what is and is not modelled
("components") and every place where this code is hard to test ("hazards").

## Modules

| module | models | extends |
|---|---|---|
| `ExclusiveWindow` | abstract: a window that is open while nobody is active, until the process ends | |
| `WriteGate` | the gate and the middleware | |
| `Maintenance` | scheduler, backup, restore job, restore, crashes, start-up | `WriteGate` |
| `PageTree` | the structural operations on the table `pages` | |
| `OrderedTree` | abstract: the tree as a reader sees it, a list of children for each page | |
| `PageOrder` | the mapping from the table to the lists | `PageTree` |
| `PageHistory` | contents, revisions, attachments, restores, refactoring | |
| `SearchIndex` | page mutations, deferred effects and rebuilds on `search_pages` | |
| `MetadataIndex` | the same for the tables of tags, excerpts and properties | |
| `LinkIndex` | the rows of links, and the calls that replace, break and heal them | |
| `LinkRewriting` | the text that a refactoring writes | |
| `ImportPlan` | the stored plan and its execution | |
| `ImportLinks` | what becomes of the links and assets of an archive | |
| `Accounts`, `Sessions` | users, invitations and tokens; log-ins and second factors | |
| `SchemaMigrations` | releases that migrate, serve, back up and restore one database | |
| `FileTree`, `FileHistory` | the adapters that keep the tree and the revisions as files | |
| `TreeMigration` | the start of the file adapter on the data of an older release | |
| `LegacyImport` | the import of a workspace of files into the database | |
| `LegacyRestore` | the restore into a directory that holds everything | |
| `*Proofs` | theorems about the module they are named after | |
| `MC*` | instances for TLC | |

Some runs hold several modules that share no state. The MC module then has a
variable (`part`, `half`) that is chosen at the start: a behaviour takes the steps
of one of them and leaves the others alone, so that each is checked as on its own.

### WriteGate

One action for each call that takes the gate's mutex or touches the counter:
`TryEnter`, `Leave`, `BypassGate` for a request; `TryLock`, `CheckEngaged`,
`Engage`, `Drained`, `GiveUp`, `Release`, `Unlock` for a caller of Freeze.
`GiveUp` is both the timer and the cancelled context, and may happen although the
last request has left since the last poll. A refusal (503, or an error of Freeze
that changes nothing) is no step.

### Maintenance

Composes the gate with its two callers and adds what is durable: the journal
(`pending`), which files are the archive's (`swapped`) and whether the database is
(`loaded`). A document has a file and a row, and the model only remembers whether
either changed since it was captured (`dirtyFiles`, `dirtyRows`); the two
observers are reset where `pg_dump`, the inventory and the journal fix what they
captured. `FailClean` and `FailStuck` are every error return of the restore,
before and after the journal; a `pg_restore` that failed or whose server died may
have committed. `Stop` is the end of the process at any point. The gate is
imported by EXTENDS, so that its actions appear unchanged in those of the
scheduler and the restore.

### PageTree, OrderedTree, PageOrder

`page` is the table without the row of the root. An action is a whole transaction:
the serial order of transactions comes from the lock of the root row, and an error
rolls everything back. `Below` is what `IsChildOf` visits and what the foreign key
cascades to, as a least fixed point, so that the proofs can use it without
recursion. `InsertionKey`, `Reindexed` and `Renumbered` follow the slices of
`MoveNodeToPosition`: the moved page is inserted in the slice, and then the slice
is sorted stably by the positions its members still have from before.
`OrderedTree` says what this should come to, on lists, and `PageOrder` maps one to
the other: the list of a page's children has the child with n siblings before it at
index n.

### PageHistory

A body is the text a user saved, by its number, and whether its links still name
the old path of the page that is refactored. A page is written and its revision
recorded in one transaction under the lock of the root row, which is one action
(`UpdatePage`, `MovePage`, `ConvertPage`); `ContentRecorded`, `AssetsRecorded`,
`StructureRecorded` and `RestoreRecorded` follow the service, with coalescing in
the window and pruning to the limit. Three things are several steps: an attachment
changes on disk (`FileChanged`) and is recorded later or fails to be; a restore
(`RestoreClears`, `RestoreCopies`, `RestoreCommits` and its three ways to fail)
changes files while its transaction holds the root row; a refactoring
(`PlanRefactor` to `RefactorEnds`) writes in each transaction what it read in an
earlier one. `saves` is an observer: for each saved text, its page and author, how
many revisions followed, and whether the author wrote the page again.

### SearchIndex, MetadataIndex

`pages` has for each live page its text, a stamp that every rewriting of the stored
Markdown increments, its pin and its path. A mutation is one action; its effects
are the steps of the thread that made it: `Look` is the `SELECT ... FOR UPDATE` of
`CurrentPageMatches`, `Upsert` the `INSERT ... ON CONFLICT` that follows a match,
`Write` the commit; `DeleteRow` and `RemovePages` are the statements and the commit
of a deletion's callback. A rebuild is `Clear` (the `DELETE FROM search_pages` begins,
takes row after row with `DeleteRow`, and ends with `Cleared`), `WalkNodes`, `GetPages`
and then one transaction for each page. A transaction keeps the locks of the pages it
has compared (`held`) and of the rows it has written or deleted (`latched`) until it
ends, and one that waits in a circle may be aborted (`MayFail`). Which pages lie below a page is left to `PageTree`: a
move takes the page and *any* set of others along, which is more than the code can
do. `missed` is an observer: the pages whose last change runs no effect, or whose
effect has failed. `MetadataIndex` has one call for each table, and a page whose
tags, properties, excerpt and managed fields change on their own.

### LinkIndex, LinkRewriting

A thread of `LinkIndex` is the sequence of the calls of the links service it has
left. A call that reads and later writes is two entries: resolving targets
(`addLinks`) comes before the guarded transaction that writes them. A reference is
a path or a title, as `[[Title]]` has it. A rebuild clears the table (`ClearLinks`),
lists the pages (`ListPages`) and reads those in a second transaction (`LoadAllPages`);
when one of them was deleted in between it ends at that page (`LoadStopsShort`). Two
observers say what may be late: `missed`, the pages whose last write no call will index
and those a rebuild that was cut short did not come to, and `calm`, that no page changed
while another thread had calls left.

`LinkRewriting` takes one text through the passes of a refactoring: that of an
affected page (`RewriteAffectedPage`), or those of a page of the moved subtree
(`RewriteRelative`, `RewriteAbsolute`), each with the links the parser offers
matched to those the scanner finds (`Matched`). `ChangesAreRight` compares what a
link that was changed means with what it meant before the move, `LinksFollow` does it
for every link of a text that parser and scanner see alike. What a destination
resolves to and which links are matched are recursive functions over the segments and
the links, so that both can be proved about.

### ImportPlan, ImportLinks

`ImportPlan` has the plan in memory, on disk and in the eyes of the execution; each
call of the store is a step, and so is every step of the execution between two of
them. The version of the tree stands for its hash. A restart loads the plan and
resumes it. `ImportLinks` is the content transformer: the index of the archive,
the lookup of a link by its path and by its unique name, the upload of assets, and
the text that is written, with uploads that fail and an execution that is resumed.

### Accounts, Sessions

A transaction on the users holds the lock of the table: it is the step that gets
the lock and reads, and the step that writes what follows. What a use case reads
before its transaction is a step of its own (`Ask` and its uses). In `Sessions` a
log-in reads the user, verifies, and issues later; the challenge, the counter of
attempts, the sessions and the second factor are each where the code keeps them.

### SchemaMigrations

`db.applied` is the history of migrations and `db.objects` what is there; a
process that has an open transaction has both as it changed them (`private`). A
process is of a release, with the scripts embedded in it. A migration takes the
advisory lock, reads and applies; a server only checks; a backup reads version,
dump and fingerprint one after the other; a restore compares the three with the
database and loads.

### FileTree, FileHistory, TreeMigration

An operation on files is the list of the calls it has still to make, each with what
is done when it fails (`otherwise`); a crash drops the list, and the next start
reconstructs the tree from the disk (`FileTree`), reads the index of the revisions
(`FileHistory`) or resumes the migration with the version that was saved
(`TreeMigration`). In the server as built, `wiki/wiki.go:102` always opens
PostgreSQL; the file adapters are used by the import, by the storage contracts'
tests and by older workspaces.

### LegacyImport, LegacyRestore

`LegacyImport` is the command `import-legacy` with its journal, transaction,
publication of files and report, next to edits of the workspace, a second importer
and the start of a server. `LegacyRestore` has the live restore (`restore/swap.go`)
and the offline command (`restore/offline.go`), each rename a step, next to
requests that are still writing and the SQLite stores with their WAL. What is left of a
restore is a set of steps with a fixed order (`StepOrder`, then the items in turn): a
failure replaces the set by that of the roll-back.

## Runs

| run | shows | size |
|---|---|---|
| `maintenance` | the gate's safety (`FrozenMeansQuiet`), that Freeze returns, and that the gate implements `ExclusiveWindow`, on its own and in its place; backups are cuts, the journal covers every mixed directory and nobody writes to one, no upload is lost to the swap, a restore and a trigger come to an end | the gate on its own: 3 gated requests, 1 exempt, 2 operations; in its place: 2 requests, 1 gated and 1 imported document, 2 administrators |
| `stuck_restore` | finding 1 | as above |
| `page_tree` | the table is a tree with unique paths and sections above the leaves, a move lands where it was sent, and the table implements `OrderedTree` | 4 pages, 4 slugs |
| `search_index` | no callback undoes a later one, the index settles on the current page, and every circle of waiting transactions has a clearing in it | 2 threads; a page with everything, a page with two rebuilds, or two pages with batches |
| `page_history` | the latest revision is the page, every revision opens, saved texts stay, files and revisions agree at rest; the rows of tags and properties settle on the current page | 2 users; two pages and a refactoring, or one page with files and restores; or 1 page, 2 threads and the tables |
| `link_index` | rows settle on the links of their page, break and heal exactly; a refactoring's text keeps every meaning | 2 threads, 3 pages, 5 paths; texts of 2 links, paths of 1 or 2 segments |
| `refactor_links` | finding 2 | as above, a refactoring |
| `import_plan` | outcomes are complete, a plan that is stale when it starts writes nothing and nothing is written twice, an import ends; imported links lead where they led | 2 files, 1 request; archives of 2 files |
| `accounts` | limits of roles, tokens and factors that count once, passwords that never come back; releases that agree on the schema | 2 clients, 3 users; 2 log-ins; 4 releases |
| `file_store` | the tree follows the disk and keeps pages, histories can be imported, migrations keep content, imports are whole and reported truly, restores are whole and keep originals | the five modules of files, each with failures and stops |
| `offline_restore` | finding 3 | 4 items, 2 troubles |
| `coerced_kinds` | finding 4 | one start on each of the shapes of an old tree |

**Why these bounds are enough.** Two callers of Freeze are all there are; the gate
treats requests alike, and three show an entry, a stay and an exit at once. A
restore is decided by the first and the last file it swaps, so two documents
suffice, one for each kind of writer. Two administrators are needed for the race
of two triggers and no property depends on a third. Four pages give a cycle of
three next to a sibling, and a move into the middle of a list from either side;
the theorems cover the safety of larger trees.

In the indexes, rows of different pages meet only in a batch's locks and in a
rebuild's clearing: one page with two threads next to the first rebuild and with
effects that fail (`MaxStamp` 3), the same next to a resync or a restart besides
(`MaxStamp` 2), and two pages for the batches and the deadlocks (`MaxStamp` 2). A
callback is overtaken by one later change, so three versions show it twice. The
tables of tags and properties have one page with two threads, two rebuilds and two
stamps: their rows depend on no other page, and pinning changes the page without a
new stamp. The
links need three pages (one that moves, one below it, one that links), and two
calls under way of one thread while the other interferes. A text of two links shows
a match that takes the wrong one; destinations have up to four segments, so that the
two passes over a page on the second level can see one link differently.

The history keeps two revisions and has two saves for two pages, or three saves and
two uploads for one: a limit of two is reached, and one more pruned. A refactoring
meets one save before and one after what it read. An import has two files and one
request beside the execution, and spends from one of three budgets of uploads,
edits and faults: one more of each only repeats what a second upload or fault has
shown. Archives have two files at places of one or two segments with one link of
every kind, or two links to assets, so that "the same name at two places" and "the
same asset twice" both occur.

Accounts have the smallest limit that can be overstepped by two (2 of 3 users),
sessions one person with two secrets and three sessions. The four releases are one
that is ahead of another, one ahead of both, and a fork. The file tree has one
failure and one crash: a second failure during a rollback can lose a page, which no
code could prevent without a journal, and is left out by the bound. A restore has
two troubles, which is a failure and a failure of its rollback; the instance was
also checked with two restores one after the other.

Constraints: `NotOvertaken` does not follow a restore that a migration came into;
`Untorn` follows only the next start of a conversion that was cut in two;
`NotRaced` does not follow a page that was deleted while its history was in use.
What happens then is described under "Other observations".

**Deadlock** is checked in `maintenance`, which has no bound but its constants. The
other runs end where their bounds do, with every text saved or every failure spent.

**Fairness.** In the gate, a goroutine inside Freeze keeps running and its timer
fires; nothing forces a request to leave. In `Maintenance`, the goroutine of the
scheduler and that of the restore keep running, because every call they make
returns; a stopped server is started again by its supervisor; and a manual trigger
is taken in the end, since Go's select picks at random among ready channels
(strong fairness). In `ImportPlan` the goroutine of an execution keeps running.
Administrators and requests have no obligations. The other specifications state
safety only: what they say of rest ("settles") is an invariant about states in
which nothing is left to do.

## Proofs

`tlapm` checks every theorem below for all values of the constants, under the
named assumptions of the modules (finitely many requests and documents, the two
operations distinct, the root no page, and so on).

- **Gate** (`MaintenanceProofs`). The invariant `GateInv` ties the three variables of
  the gate together: the holder of the mutex is the only operation inside Freeze,
  the flag is set exactly in its draining and frozen states, and the counter is
  the number of gated requests inside. None of the properties is inductive without
  it. From it: types, `FrozenMeansQuiet`, and that every step is a step of
  `ExclusiveWindow` or a stutter.
- **Maintenance** (there, too). `MaintInv` adds what each state of the
  scheduler and the restore knows: which of them holds the frozen gate, that the
  journal exists from the first swap to the last step, and what has been swapped
  and loaded in between. From it: `BackupIsCut`, `MixIsGuarded`, `NoLostUpload`.
- **Page tree** (`PageTreeProofs`). The shape of a table is one predicate `Good`,
  a conjunction of the properties and of connectedness in a form that an induction
  can use; each way to write the table has a lemma that it preserves `Good`, and
  each operation is a composition of them. From it: `TreeShape`. The second half proves
  the order. `Numbered` says that the children of every page have the positions 0, 1, 2
  and so on; it needs `TreeInv`, since a deletion must not tear a hole into a list above.
  A numbered finite set has one enumeration, which is the list `PageOrder` shows; closing
  a gap in the numbers is `RemoveAt` on the list, making one is `InsertAt`, and the
  sort in `MoveNodeToPosition` is shown to do both. From it: `MovesLand`, and the
  refinement `ImplementsOrder`, with one lemma for each operation.
- **The migration of an old tree** (at the end of `PageTreeProofs`). A stop leaves some
  files of a version rewritten, the snapshot of the version before and its number; the
  next start applies the version again. `MigrationInv` says for each version number what
  it promises: the tree saved under it has the times (1) and the kinds (2), every file
  names its page (2) and its time of creation (3), the order of the top is saved (5), and
  for a start at step i of a version, that what steps 1 to i - 1 bring about is there. It
  is inductive because each step, done on a page that has already had it, leaves what it
  promises: `BackfillMetadata` keeps a time that is there, and does not take the new age
  of a file that version 2 has rewritten, since version 1 was saved before. A page with
  children that is a file has two places when the tree is built, and then all that is
  claimed is that the start refuses; so does a start on a page without children that has
  no file, which version 2 does not get past. From it: `MigrationKeeps`, for any number of stops.
  The three pages are fixed: they are the least tree with a page below another, an order
  at the top, and every shape of a page on disk (20 combinations of files and directory,
  each with and without kinds in the snapshot).
- **Search index** (`SearchIndexProofs`). `IndexInv` says that what an open
  transaction will write is locked by it alone and its text is current, that the rows
  a callback removes are those of deleted pages, which nobody else removes, and that
  every page is missed by its last change, or followed by a worker that has
  yet to read it, holds its current snapshot or removes its row, or settled. From it:
  `IndexSettles` and `IndexAdvances`. `OnlyClearsCloseCircles` follows because only a
  clearing ever waits, or is waited for, on a row; and of those that wait for pages the
  batch that holds the greatest id waits for none, since it locks in the order of the
  ids and a finite set of locks has a greatest.
- **Tags and properties** (at the end of `PageHistoryProofs`). `MetadataInv` says of each page and
  table that the row is what the Markdown says, or that it is missed for good, or that a
  call is left which will put it right: one with the Markdown as it is, one that reads the
  page first, a deletion's, or the walk of a resync once the table was cleared. A call that
  was overtaken is none of these and writes nothing, so that the order of the calls does
  not matter. From it: `MetadataSettles`.
- **Links** (`LinkIndexProofs`). `LinkInv` says of each page that its rows are the links
  of its text, or that its last change runs no call, or that a rebuild cut short by a
  deletion left it out, or that a thread has a call left that will write them: one with the
  page as it is, one that reads it first, the walk of a rebuild, or its reading of a list
  that has the page. Beside that it says what keeps such a call from being lost: the calls that end a
  series come last in it, a refactoring that is refused drops only calls that no page needs,
  a rebuild that clears has its walk left, and what has no stored text is never current.
  From it: `OutgoingSettles`.
- **What links lead to** (the last sections of `LinkIndexProofs`). As long as no page changed
  beside a thread at work, `ResolutionInv` says of each row that it leads to the page that
  has its path and to no page that is gone, or that the one thread at work has a call left
  that will see to it: a page that has got a path is settled or healed later, links to a
  path that lost its page meet a later prefix or path, and links to a page that is gone a
  later call for its incoming ones. What makes it inductive is what is left of a series:
  no call breaks a path that a page has, or heals a path by a title; the links to a page
  that is there are broken only as long as its healing is still to come; targets that were
  resolved and not yet written are still right; and once a refactoring writes texts,
  everything is healed. The pages are a tree throughout, so that where a page moves to
  nothing is found below, and nothing is left below where it was. From it:
  `ResolutionSettles`. `LinkIndexAssumption` says that the first pages are a tree, as the
  unique index on parent and slug and the foreign key to the parent have it, and that no
  path is a title (a title is stored as `wikilink:Title`, `links/helpers.go:20`).
- **Texts of links** (at the end of `LinkIndexProofs`), for texts, paths and destinations
  of any length. `RewritingInv` says what the text is after each pass: every link its own
  rewrite, if the pass matched it. The rest is about the operators: a relative destination
  resolves to the page it was computed for, by induction over its segments; a pass rewrites
  only what the scanner saw, and every inline link if the parser sees the same, by
  induction over the links; a path that was followed is not followed again, which is why
  the second pass leaves what the first has written. From it: `ChangesAreRight` and
  `LinksFollow`. `RewritingAssumption` says that `..` is no segment, that no page has the
  empty path, and that the model's "outside" and "aside" are no names of pages.
- **Restore without PostgreSQL** (at the end of `MaintenanceProofs`). `RestoreInv` says that
  the steps left are the end of one of four scripts, and what each of them tells: an item
  that is still to be moved aside is as it was, one that is still to be committed has its
  original beside it, one that was put back is as it was unless the roll-back says
  otherwise, and a store that is still to be opened is closed, so that no late request
  writes to it. An item that was replaced is of this restore and its original is older,
  which keeps a write to the new one from passing for one to the old. From it:
  `RestoreIsWhole` and `OriginalsAreKept`, for any number of restores and failures.
- **Page history** (`PageHistoryProofs`). `HistoryInv` says what each save, restore and
  refactoring under way still knows of its page: the texts and the revision it has
  read are those that are there, or the check of the version will turn it away; the
  newest revision is the page; every revision names a stored text; and a text that was
  saved is listed, or merged into what its author wrote next, or older than the limit.
  From it: `HistoryCurrent`, `HistoryReadable`, `SavesKept`, `AssetsSettled`.
- **Accounts and sessions** (`AccountsProofs`). `AccountsInv`: what the holder of the
  lock of the table has read is the table as it is. From it: `RolesWithinLimits`,
  `TokensRedeemedOnce`, `PasswordsAdvance`. `FactorsUsedOnce` holds because whoever
  completes a challenge revokes it in the transaction that makes the session: no session
  was made of a challenge that is still active, and a
  recovery code that was accepted is no longer stored. Codes of the authenticator are
  accepted for every challenge while they are valid, and no property speaks of them.
- **Import** (`ImportProofs`). `ImportInv` has two halves. While the state of the plan
  can be stored, at most one execution of the stored plan is alive, and its position is
  the number of outcomes that are recorded, or one more. Whatever becomes of the store,
  every write changes the hash of the tree, so that what was looked up or written
  without a record shows when an execution begins again. From it: `OutcomesComplete` and
  the action property `WritesAreFresh`.
- **Links of an import** (there, too), for archives, names and links of any length.
  `LinksInv`: of the file at hand and of each file before it, a link that was made is
  either rewritten or leads to an upload of the asset it named to the page of this very
  file, whatever failed and was resumed, and what the transformer remembers of its uploads
  is so. The rest is about the look-up of a page: every candidate is a file the link
  names, a path belongs to one page, and a page that is found by its place or its slugs
  has the name the link ends in. From it: `ImportedLinksLand`. `ArchiveAssumption` says
  that no file of an archive has the empty path as its target (a root `index.md` without
  a base), which `EnsurePath` rejects (`wiki/pages/ensure_path.go:62`).
- **History in files** (at the end of `SchemaMigrationsProofs`). `FileHistoryInv` lists
  what the thread that holds the lock of the page may have left to do, and for each such
  list what directory, index and blobs have in common; all of it is bound to the case that
  nothing failed, was cut or interfered. The strengthening that it needs is about readers:
  one that is about to write back the index it loaded lacks the newest revision, so that
  its write counts as an interference and never passes for agreement. From it:
  `HistoryImports`, for any number of threads, contents and faults and any limit.
- **Schema and legacy import** (`SchemaMigrationsProofs`). `SchemaInv`: the history names
  exactly the objects that are there, and only grows until a restore is overtaken, so
  that what a backup reads later includes what it read before; when the first and the
  last agree, so does all in between. From it: `SchemasAgree`. `LegacyInv` uses the same
  argument for the workspace that an importer reads: whatever it takes lies in time
  between its first inventory and its last. It adds who owns the tables and the
  directory at each step, and that nobody owns either once an import has committed. From
  it: `ImportIsWhole`, `ReportsAreTrue`.

Recursion over segments and links is unfolded by hand: the function on 0..n exists for
every n, and what holds of each of its values holds since it would fail at a least one. The
least number comes from the well-foundedness of < on the naturals.

Only model-checked: the liveness properties (the prover does not do fairness), and
`TreeFollowsDisk` and `PagesKept` of `FileTree`. A path there is a walk up the tree, and
reconstructing, deleting and moving are walks down it, over a disk in which any step may
have failed: an invariant about it needs an induction over the depth of the tree for each
operation and each of its roll-backs.

## Findings

Each is a run that violates one property that the source states.

1. `stuck_restore`: `TriggerRestore` checks for a stuck restore and starts a job in
   two critical sections; a second administrator between them clears the flag, and
   the gate stays shut with self-restart refused.
2. `refactor_links`: the refactoring calls the guarded update of the link index with
   pages that lack their raw content, so that the guard skips each of them and the
   rows of the rewritten links stay what they were.
3. `offline_restore`: the command removes the write-ahead logs before it swaps; a
   swap that fails is rolled back to databases without what only their logs held,
   and the message says that the data directory is untouched.
4. `coerced_kinds`: the last version of the migration takes a page with children that is
   a file for a section, and its comment says that the kind is derived from the files
   afterwards; the reconstruction refuses the directory and the file of one name, and
   the instance does not start.

## Other observations

What the models show besides the findings. Each is either how the code is meant to
be (no document says otherwise) or is kept out of a property by an observer or a
constraint that the module names.

**Snapshots and restores.** An import writes into a data directory that a restore
swaps, since its goroutine does not pass the gate. A server whose restore stopped
behind the journal refuses every start until the directory is repaired by hand.
Without PostgreSQL (`main.go` takes this path only without a database): a rollback
after public access failed to reload does not reload the branding, although
`rollbackOrIntervene` says the live data is as before; a pause whose reopening
fails asks for intervention with the gate open; a request that outlasts the drain's
10 seconds writes to an item while it is swapped, or makes the directory again and
blocks the rename; a crash in the middle leaves originals beside mixed items, which
nothing recovers; `UpdateBranding` changes the memory before a save that fails.

**Indexes.** A batch keeps the locks of the rows of `search_pages` it has written while
it goes on to the next page (`search/postgres_index.go:30-54`); the `DELETE FROM
search_pages` of a rebuild (line 23) locks the same rows in the order of the table, and
so do the deletions of a subtree in the order of its list. A batch or a deletion next to
a resync can therefore deadlock: PostgreSQL aborts one of the two, which is
logged (or ends the resync) and not tried again, and the pages keep their old rows
until the next rebuild. The model has it (`WaitsFor`, `MayFail`). A refactoring leaves old paths in the full-text index and old excerpts,
because it runs without these effects. A pin or a conversion between a save's
commit and its callback makes the callback skip the page, and so does a move before
the call for tags or properties, until the next save or resync. A bootstrap that
clears the tags and fails to clear the properties leaves the tags empty. A rebuild of
the links that lists a page which is deleted before it reads the pages ends there
(`links/link_service.go:56-58`): the table was cleared before, so every page that comes
later in the list has no rows until its next save or the next rebuild, and a resync only
logs a warning. `addLinks`
resolves targets before its guarded transaction, and a call that breaks the links below an
old path breaks those to a page that has come there since. A title that changes alone, or a
second page of one title, leaves `[[Title]]` resolved as it was.

**History.** The snapshots of a refactoring's subtree overwrite concurrent saves of
the current content; the history keeps them. A refactoring by the author of a save
within the window can be coalesced with it. A restore clears files without the
mutex of the attachments, and when its commit fails they stay as restored. When it fails
earlier it puts the old files back, and when that fails too it only logs it
(`core/revision/service.go:740-742, 762-764`): the page and its history are as they were,
and the directory has some of each (`PutBackFails`).

**Texts of links.** A relative link of a page to itself keeps its old text when the
page is renamed. A link in reference style, which the parser offers and the scanner
does not find, uses up a later occurrence of its destination, and an escaped link of
the same destination is rewritten in place of the real one. A comment says that relative
links "were already corrected in the first pass and will not match the old-path rules"
(`wiki/pages/refactor.go:669`); the proof attempt showed that this is so of those the first
pass matched. An escaped `\[a](../x/y/x)` before the real link leaves the real one to the
second pass, which resolves it from the new place of its page and can rewrite it to
another page. `[[a/b]]` of a page that
moves to the top becomes `[[b]]`, which is only looked up as a title; `[[x]]` that
was meant as the title of another page is rewritten when `x` is the old path.
Wiki links to descendants and those inside the moved subtree are not rewritten, nor
are absolute links with dot segments or doubled slashes.

**Import.** A plan that was found not to be running can be started before its
workspace is removed; a plan that failed or was canceled can be started although
its workspace is gone. Pages that users create while an import runs are
overwritten. A stale resume drops the partial result, and a resume after the first
item failed fails for want of a hash. Of two files with one target the second
overwrites the first, and both are reported as created. A wiki link with a path to a
page at the top becomes `[[note]]`, which is looked up as a title; a plain `[[note]]`
is ambiguous with two files of that name; a link to the top of the archive itself has no
candidates and stays as it is (again what the proof attempt showed); `v1.2` without `.md` is taken to have an
extension. An unmatched backtick leaves the rest of a text as it is, and a span can
be closed inside a longer run of backticks. The fallback of an anchor that is not
resolved ignores the base path of the target. An item that was interrupted uploads
its assets again under new names, and those of one that failed stay.

**Accounts and sessions.** An update of one's own profile writes back the role that
was read before its transaction. `StartTOTPSetup` checks first and then sets the
pending secret without a condition. Confirming or removing a second factor keeps
only the session named by the refresh cookie. A log-in or refresh that read before a
reset issues its session after it; two refreshes of one token both succeed.
`CleanupExpiredSessions` deletes at `expires_at <= now` while `IsActive` accepts
equality. `UserResolver.Reload` can store an older list over a newer one.

**Schema.** A migration between the check and the load of a restore leaves objects
that the history does not name, since `pg_restore --clean` drops only what the
archive has; one between load and verification leaves the restore behind its
journal; one during a backup makes an archive that every restore refuses. A server
that runs keeps running on a schema that was migrated under it, and `migrate` does
not look at the transfer journal.

**Files.** A page of an old tree that has no file ends version 2 of the migration, and so
every start: `addFrontmatter` would pass over content that is missing, but `ReadPageRaw`
reports it as drift (`core/tree/node_store.go:1149-1151`), which
`IsMissingContentErr` does not know. A conversion that was cut in two leaves a page's file and a directory of
one name, which the next start refuses; a torn `schema.json` blocks it too. Moving a
node to the parent it has always collides with itself. Renaming a child that the
order file does not list changes its default place at the next start. A prune cut
between removing files and saving the index leaves an entry that nothing removes,
and `import-legacy` refuses such a workspace, as it does one with a temporary file
among the revisions or the revisions of a page that was deleted while they were
used. A save cut before its index is healed only by opening the revision; opening
can also write back an index that is stale. A failed rebuild after the commit of an
import, or a kill after its journal, keeps the server from starting until the
journal is removed by hand; a server that starts between the check for one and its
creation is only excluded by the documented stop.

## Not modelled, and why

Settings (branding, public access, favorites, preferences), Markdown and front
matter, and the web client are single statements or sequential code with unit
tests. HTTP routing, cookies, rate limits, metrics and logging do not change the
state the properties speak of. The queries of search, tags, properties and links
only read. API keys, the caching of names and the copying of a page's assets have
one writer each. Retention and download of archives are local to the scheduler's
goroutine.

The order of a shutdown (an import that fails on a pool that was closed under it),
a clock that goes backwards, and the loss of a COMMIT of a page mutation are outside
every model; `LegacyImport` has the last for its own transaction. The row locks that
a page transaction takes on siblings, against those of an index batch, are outside
`SearchIndex`: it has the locks of the index's own transactions, on pages and on rows of
`search_pages`, and the page row that a mutation waits for. Titles, contents and versions are outside `PageTree`. An
upload that races the deletion of its page is outside `PageHistory`. In `FileTree`
names differ in more than case, nothing is ignored, ids are not reused by the
restoring of nodes, and the resync that swaps the tree without the mutex is left
out; in `TreeMigration`, the start without a snapshot.

## Plan

1. The row locks of page transactions (`postgres_store.go:206`) composed with the
   batches of `SearchIndex`, for the deadlock that PostgreSQL would break.
2. Proofs about `FileTree`: an invariant that relates each path on disk to the pages in
   memory while the calls of an operation, or those of its roll-back, are left.
3. `LinkIndex` as an implementation of an abstract index that is a function of the
   pages.
4. Shutdown: the order in which goroutines, pool and gate are closed.
5. Settings and API keys, if they get a second writer.
