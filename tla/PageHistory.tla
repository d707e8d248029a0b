----------------------------- MODULE PageHistory -----------------------------
(***************************************************************************)
(* The contents of pages, their attachments and their revisions, when the  *)
(* instance runs on PostgreSQL.                                            *)
(*                                                                         *)
(* A page is written and its revision recorded in one transaction that     *)
(* locks the root row, so these are single actions.  Two things are not:   *)
(* attachments are files, changed under a mutex of their own and recorded  *)
(* in a later transaction, and a link refactoring is a sequence of such    *)
(* transactions that writes what it read in earlier ones.  Restoring a     *)
(* revision replaces files in the middle of a transaction.                 *)
(*                                                                         *)
(* A body is the text a user saved, by number, and whether its links still *)
(* name the old path of the page that is refactored; rewriting changes the *)
(* latter alone.  Slugs and places are left to PageTree: Below is the tree. *)
(***************************************************************************)
EXTENDS Integers, Sequences, FiniteSets

CONSTANTS Page,         \* page identifiers; none is used twice
          Below,        \* for each page, the page and the pages under it
          Initial,      \* the pages there are at the start
          User,
          Name, Data,   \* names and contents of attachments
          Target,       \* the pages a user refactors
          Deletable,    \* the pages a user deletes
          Restorable,   \* the pages a user restores revisions of
          NoOne,
          LinksOld,     \* whether a text that is saved names the old path: a subset of BOOLEAN
          MaxRevisions, \* --max-revision-history
          MaxSaves,     \* bounds the texts that are saved
          MaxTouches,   \* bounds the writes of a text that save none
          MaxUploads    \* bounds the changes of attachments

ASSUME PageHistoryAssumption ==
  /\ Below \in [Page -> SUBSET Page] /\ \A p \in Page : p \in Below[p]
  /\ Initial \subseteq Page /\ Target \subseteq Page
  /\ Deletable \subseteq Page /\ Restorable \subseteq Page
  /\ NoOne \notin User \cup Page /\ LinksOld \subseteq BOOLEAN
  /\ MaxRevisions \in Nat \ {0}
  /\ MaxSaves \in Nat /\ MaxTouches \in Nat /\ MaxUploads \in Nat

VARIABLES bodies,     \* the body of each live page
          used,       \* the ids that were ever given to a page
          history,    \* the revisions of each live page
          files,      \* the attachments on disk
          blobs,      \* attachment contents in the revision store
          seen,       \* the pages whose current version a user has in the editor
          unrecorded, \* changed attachments whose revision is to be recorded
          reaped,     \* deleted pages whose files are still to be removed
          restore,    \* the restore of a revision that is under way
          job,        \* the refactoring that is under way
          saves,      \* observer: the texts that were saved, by number
          strayed,    \* observer: pages whose last file change was not recorded, or not undone
          touches, uploads

pageVars == <<bodies, used, history, seen>>
fileVars == <<files, blobs, unrecorded, reaped, strayed, uploads>>
historyVars == <<bodies, used, history, files, blobs, seen, unrecorded, reaped, restore,
                 job, saves, strayed, touches, uploads>>

Body == [save : 0 .. MaxSaves, old : BOOLEAN]
Asset == [name : Name, data : Data]
RevisionType == {"content", "structure", "asset", "restore"}
Revision == [type : RevisionType, author : User \cup {NoOne},
             body : Body, manifest : SUBSET Asset]

Live == DOMAIN bodies
Saved == DOMAIN saves
Latest(h) == h.revs[Len(h.revs)]
Listed(h) == {h.revs[i] : i \in 1 .. Len(h.revs)}
Kept(A) == {a.data : a \in A}
Rewrite(body) == [body EXCEPT !.old = FALSE]

-----------------------------------------------------------------------------
(* The revision service.  The record of a page has its revisions, oldest      *)
(* first, whether the latest is an update of the content within the window     *)
(* for coalescing, and the bodies kept in revision_contents.                  *)

Pruned(h) ==
  LET n == Len(h.revs) IN
  IF n <= MaxRevisions THEN h
  ELSE [h EXCEPT !.revs = SubSeq(@, n - MaxRevisions + 1, n)]

Appended(h, type, u, body, manifest) ==
  [revs |-> Append(h.revs, [type |-> type, author |-> u, body |-> body, manifest |-> manifest]),
   recent |-> type = "content",
   stored |-> h.stored \cup {body}]

ResolvedManifest(h, live) == IF h.revs = <<>> THEN live ELSE Latest(h).manifest

\* Mutant: the author of the last revision is not compared.
CoalescesAnyAuthor(h, u) == h.recent

ShouldCoalesce(h, u) ==
  h.recent /\ Latest(h).author = u

\* UpdateRevision, then DeleteContentBlobIfUnreferenced of the body it had.
Coalesced(h, u, body) ==
  LET before == Latest(h).body
      revs == [h.revs EXCEPT ![Len(h.revs)].body = body]
  IN [h EXCEPT !.revs = revs,
               !.stored = {b \in @ \cup {body} :
                             b # before \/ \E i \in DOMAIN revs : revs[i].body = b}]

ContentRecorded(h, u, body, live) ==
  IF h.revs # <<>> /\ Latest(h).body = body THEN h
  ELSE IF ShouldCoalesce(h, u) THEN Coalesced(h, u, body)
  ELSE Pruned(Appended(h, "content", u, body, ResolvedManifest(h, live)))

StructureRecorded(h, u, body, live) ==
  Pruned(Appended(h, "structure", u, body, ResolvedManifest(h, live)))

AssetsRecorded(h, u, body, live) ==
  IF h.revs # <<>> /\ Latest(h).body = body /\ Latest(h).manifest = live THEN h
  ELSE Pruned(Appended(h, "asset", u, body, live))

\* The restore is recorded without pruning.
RestoreRecorded(h, u, body, live) == Appended(h, "restore", u, body, live)

-----------------------------------------------------------------------------
(* Writing pages *)

Unrestored == restore.phase = "none"

\* The rows of the pages of W changed; u, when it is a user, has the new version of p.
Versions(W, u, p) ==
  seen' = [v \in User |-> IF v = u THEN (seen[v] \ W) \cup {p} ELSE seen[v] \ W]

Fresh(W) == job.fresh /\ job.target \notin W

\* Observers: u wrote the text of p, and each page of W got at most one revision.
Noted(u, p, W) ==
  [n \in Saved |->
     IF saves[n].page \notin W THEN saves[n]
     ELSE [saves[n] EXCEPT
             !.again = @ \/ (saves[n].page = p /\ saves[n].author = u),
             !.after = IF @ < MaxRevisions THEN @ + 1 ELSE @]]

NewSave(u, p) == <<[page |-> p, author |-> u, again |-> FALSE, after |-> 0]>>
SavedBodies == {[save |-> Len(saves) + 1, old |-> old] : old \in LinksOld}
\* What an editor sends: the text of the page, one it had before, or a new one.
Sent(p) == {bodies[p]} \cup SavedBodies \cup {r.body : r \in Listed(history[p])}
CanSave == Len(saves) < MaxSaves
CanTouch == touches < MaxTouches

\* Mutant: a page whose slug and content change together gets no revision.
SkipsMovedContent(u, p, body, moves, titled) ==
  [q \in Live |->
     IF q = p /\ body # bodies[p] /\ ~moves THEN ContentRecorded(history[q], u, body, files[q])
     ELSE IF q \in Below[p] \ {p} /\ moves THEN StructureRecorded(history[q], u, bodies[q], files[q])
     ELSE history[q]]

\* RevisionSideEffect.Apply for an update or a move of p that gives it this body.
Effected(u, p, body, moves, titled) ==
  [q \in Live |->
     IF q = p /\ body # bodies[p] THEN ContentRecorded(history[q], u, body, files[q])
     ELSE IF q \in Below[p] /\ moves THEN StructureRecorded(history[q], u, bodies[q], files[q])
     ELSE IF q = p /\ titled THEN StructureRecorded(history[q], u, bodies[q], files[q])
     ELSE history[q]]

\* An update by u of p, in place or with everything below it.
Updated(u, p, body, moves, titled) ==
  /\ bodies' = [bodies EXCEPT ![p] = body]
  /\ history' = Effected(u, p, body, moves, titled)
  /\ Versions({p}, u, p)
  /\ LET noted == Noted(u, p, IF moves THEN Below[p] ELSE {p}) IN
     IF body \in SavedBodies THEN CanSave /\ saves' = noted \o NewSave(u, p) /\ UNCHANGED touches
     ELSE CanTouch /\ touches' = touches + 1 /\ saves' = noted

LoadPage(u, p) ==
  /\ p \in Live \ seen[u]
  /\ seen' = [seen EXCEPT ![u] = @ \cup {p}]
  /\ UNCHANGED <<bodies, used, history, restore, job, saves, touches, fileVars>>

CreatePage(u, p) ==
  /\ Unrestored /\ p \in Page \ used /\ CanSave
  /\ \E body \in SavedBodies :
       LET none == [revs |-> <<>>, recent |-> FALSE, stored |-> {}]
           h == ContentRecorded(none, u, body, files[p])
       IN /\ bodies' = [q \in Live \cup {p} |-> IF q = p THEN body ELSE bodies[q]]
          /\ history' = [q \in Live \cup {p} |-> IF q = p THEN h ELSE history[q]]
  /\ blobs' = blobs \cup Kept(files[p])
  /\ used' = used \cup {p}
  /\ seen' = [seen EXCEPT ![u] = @ \cup {p}]
  /\ saves' = saves \o NewSave(u, p)
  /\ UNCHANGED <<files, unrecorded, reaped, restore, job, strayed, touches, uploads>>

\* The version of the client must be current; the slug, the title and the
\* content change or stay.
UpdatePage(u, p, body, moves, titled) ==
  /\ Unrestored /\ p \in Live \cap seen[u]
  /\ body \in Sent(p)
  /\ Updated(u, p, body, moves, titled)
  /\ job' = [job EXCEPT !.fresh = Fresh({p})]
  /\ UNCHANGED <<used, restore, fileVars>>

MovePage(u, p) ==
  /\ Unrestored /\ p \in Live \cap seen[u]
  /\ Updated(u, p, bodies[p], TRUE, FALSE)
  /\ job' = [job EXCEPT !.fresh = Fresh({p})]
  /\ UNCHANGED <<used, restore, fileVars>>

ConvertPage(u, p) ==
  /\ Unrestored /\ p \in Live \cap seen[u]
  /\ Updated(u, p, bodies[p], FALSE, TRUE)
  /\ job' = [job EXCEPT !.fresh = Fresh({p})]
  /\ UNCHANGED <<used, restore, fileVars>>

\* Mutant: the revisions of a deleted page stay.
DeleteKeepsHistory(u, p) ==
  /\ Unrestored /\ p \in Live \cap seen[u] \cap Deletable
  /\ bodies' = [q \in Live \ Below[p] |-> bodies[q]]
  /\ seen' = [v \in User |-> seen[v] \ Below[p]]
  /\ job' = [job EXCEPT !.fresh = Fresh(Below[p])]
  /\ reaped' = reaped \cup (Below[p] \cap Live)
  /\ UNCHANGED <<used, history, files, blobs, unrecorded, restore, saves, strayed, touches, uploads>>

\* A recursive delete: the rows go with the transaction, the files after it.
DeletePage(u, p) ==
  /\ Unrestored /\ p \in Live \cap seen[u] \cap Deletable
  /\ LET gone == Below[p] IN
     /\ bodies' = [q \in Live \ gone |-> bodies[q]]
     /\ history' = [q \in Live \ gone |-> history[q]]
     /\ seen' = [v \in User |-> seen[v] \ gone]
     /\ job' = [job EXCEPT !.fresh = Fresh(gone)]
     /\ reaped' = reaped \cup (gone \cap Live)
  /\ UNCHANGED <<used, files, blobs, unrecorded, restore, saves, strayed, touches, uploads>>

WindowPasses(p) ==
  /\ p \in Live /\ history[p].recent
  /\ history' = [history EXCEPT ![p].recent = FALSE]
  /\ UNCHANGED <<bodies, used, seen, restore, job, saves, touches, fileVars>>

-----------------------------------------------------------------------------
(* Attachments.  The file changes first; its revision is a transaction of its *)
(* own whose failure is logged.                                               *)

FileChanged(u, p, F) ==
  /\ p \in Live /\ unrecorded[u] = NoOne /\ uploads < MaxUploads
  /\ files' = [files EXCEPT ![p] = F]
  /\ unrecorded' = [unrecorded EXCEPT ![u] = p]
  /\ uploads' = uploads + 1
  /\ UNCHANGED <<bodies, used, history, blobs, seen, reaped, restore, job, saves, strayed, touches>>

Names(p) == {a.name : a \in files[p]}

UploadAsset(u, p, a) == a.name \notin Names(p) /\ FileChanged(u, p, files[p] \cup {a})

DeleteAsset(u, p, a) == a \in files[p] /\ FileChanged(u, p, files[p] \ {a})

RenameAsset(u, p, a, name) ==
  /\ a \in files[p] /\ name \notin Names(p)
  /\ FileChanged(u, p, (files[p] \ {a}) \cup {[a EXCEPT !.name = name]})

RecordAssetChange(u) ==
  /\ Unrestored /\ unrecorded[u] # NoOne
  /\ LET p == unrecorded[u] IN
     IF p \notin Live THEN UNCHANGED <<history, blobs, strayed, saves>>
     ELSE /\ history' = [history EXCEPT ![p] = AssetsRecorded(@, u, bodies[p], files[p])]
          /\ blobs' = blobs \cup Kept(files[p])
          /\ strayed' = strayed \ {p}
          /\ saves' = Noted(NoOne, p, {p})
  /\ unrecorded' = [unrecorded EXCEPT ![u] = NoOne]
  /\ UNCHANGED <<bodies, used, files, seen, reaped, restore, job, touches, uploads>>

RecordAssetChangeFails(u) ==
  /\ unrecorded[u] # NoOne
  /\ strayed' = strayed \cup {unrecorded[u]}
  /\ unrecorded' = [unrecorded EXCEPT ![u] = NoOne]
  /\ UNCHANGED <<pageVars, files, blobs, reaped, restore, job, saves, touches, uploads>>

\* DeleteAllAssetsForPage, called after the commit of the delete.
DeleteFiles(p) ==
  /\ p \in reaped
  /\ files' = [files EXCEPT ![p] = {}]
  /\ reaped' = reaped \ {p}
  /\ UNCHANGED <<pageVars, blobs, unrecorded, restore, job, saves, strayed, touches, uploads>>

-----------------------------------------------------------------------------
(* Restoring a revision: one transaction, which holds the root row from its   *)
(* start, and files that change under it without the mutex of the attachments. *)

NoRestore == [phase |-> "none"]

RestoreStarts(u, p, i) ==
  /\ Unrestored /\ p \in Live \cap Restorable /\ i \in DOMAIN history[p].revs /\ CanTouch
  /\ LET rev == history[p].revs[i] IN
     /\ rev.body \in history[p].stored
     /\ restore' = [phase |-> "clear", user |-> u, page |-> p, rev |-> rev, before |-> files[p]]
  /\ touches' = touches + 1
  /\ UNCHANGED <<pageVars, fileVars, job, saves>>

RestoreClears ==
  /\ restore.phase = "clear"
  /\ files' = [files EXCEPT ![restore.page] = {}]
  /\ restore' = [restore EXCEPT !.phase = "copy"]
  /\ UNCHANGED <<pageVars, blobs, unrecorded, reaped, job, saves, strayed, touches, uploads>>

RestoreCopies ==
  /\ restore.phase = "copy" /\ Kept(restore.rev.manifest) \subseteq blobs
  /\ LET named == {a.name : a \in restore.rev.manifest} IN
     files' = [files EXCEPT ![restore.page] =
                 {a \in @ : a.name \notin named} \cup restore.rev.manifest]
  /\ restore' = [restore EXCEPT !.phase = "record"]
  /\ UNCHANGED <<pageVars, blobs, unrecorded, reaped, job, saves, strayed, touches, uploads>>

RestoreCommits ==
  /\ restore.phase = "record"
  /\ LET p == restore.page
         u == restore.user
     IN /\ bodies' = [bodies EXCEPT ![p] = restore.rev.body]
        /\ history' = [history EXCEPT
                         ![p] = RestoreRecorded(@, u, restore.rev.body, files[p])]
        /\ blobs' = blobs \cup Kept(files[p])
        /\ strayed' = strayed \ {p}
        /\ Versions({p}, NoOne, p)
        /\ job' = [job EXCEPT !.fresh = Fresh({p})]
        /\ saves' = Noted(u, p, {p})
  /\ restore' = NoRestore
  /\ UNCHANGED <<used, files, unrecorded, reaped, touches, uploads>>

\* Mutant: the transaction is rolled back and the files are not put back.
RollBackLeavesFiles ==
  /\ restore.phase \in {"copy", "record"}
  /\ restore' = NoRestore
  /\ UNCHANGED <<pageVars, fileVars, job, saves, touches>>

\* An error after the files changed: they are put back by hand, as far as the
\* store has them, and the transaction is rolled back.
RestoreRollsBack ==
  /\ restore.phase \in {"copy", "record"}
  /\ \E F \in SUBSET {a \in restore.before : a.data \in blobs} :
       /\ Kept(restore.before) \subseteq blobs => F = restore.before
       /\ files' = [files EXCEPT ![restore.page] = F]
  /\ restore' = NoRestore
  /\ UNCHANGED <<pageVars, blobs, unrecorded, reaped, job, saves, strayed, touches, uploads>>

\* Putting them back fails in its turn, which is only logged: some of the files that are
\* there stay, or not all of those that were there come back.
PutBackFails ==
  /\ ~Unrestored
  /\ \E F \in (SUBSET files[restore.page]) \cup (SUBSET {a \in restore.before : a.data \in blobs}) :
       files' = [files EXCEPT ![restore.page] = F]
  /\ strayed' = strayed \cup {restore.page}
  /\ restore' = NoRestore
  /\ UNCHANGED <<pageVars, blobs, unrecorded, reaped, job, saves, touches, uploads>>

\* The commit fails: nothing puts the files back.
RestoreIsLost ==
  /\ restore.phase = "record"
  /\ strayed' = strayed \cup {restore.page}
  /\ restore' = NoRestore
  /\ UNCHANGED <<pageVars, files, blobs, unrecorded, reaped, job, saves, touches, uploads>>

-----------------------------------------------------------------------------
(* Refactoring: apply a rename or a move and rewrite the links that named it. *)

None == [q \in {} |-> 0]
NoJob == [phase |-> "none", user |-> NoOne, target |-> NoOne, fresh |-> FALSE,
          affected |-> {}, snap |-> None, todo |-> None]

\* buildApplyPlan: the affected pages are those the link index has, which may be late.
PlanRefactor(u, p, A) ==
  /\ job.phase = "none" /\ p \in Live \cap Target /\ A \subseteq Live \ Below[p] /\ CanTouch
  /\ job' = [NoJob EXCEPT !.phase = "snapshot", !.user = u, !.target = p,
                          !.fresh = p \in seen[u], !.affected = A,
                          !.snap = [q \in Below[p] \cap Live |-> bodies[q]]]
  /\ touches' = touches + 1
  /\ UNCHANGED <<pageVars, fileVars, restore, saves>>

CaptureSnapshots ==
  /\ job.phase = "snapshot" /\ DOMAIN job.snap \subseteq Live
  /\ job' = [job EXCEPT !.phase = "load", !.snap = [q \in DOMAIN @ |-> bodies[q]]]
  /\ UNCHANGED <<pageVars, fileVars, restore, saves, touches>>

\* rewriteAffectedPages reads the pages in one transaction ...
LoadAffected ==
  /\ job.phase = "load"
  /\ job' = [job EXCEPT !.phase = "affected",
                        !.todo = [q \in {q \in job.affected \cap Live : bodies[q].old} |->
                                    Rewrite(bodies[q])]]
  /\ UNCHANGED <<pageVars, fileVars, restore, saves, touches>>

\* ... and updateContentWithHistory writes each in its own, unchecked.
WriteRewritten(q) ==
  /\ Unrestored /\ q \in DOMAIN job.todo
  /\ IF q \notin Live THEN UNCHANGED <<bodies, history, seen, saves>>
     ELSE /\ bodies' = [bodies EXCEPT ![q] = job.todo[q]]
          /\ history' = [history EXCEPT
                           ![q] = ContentRecorded(@, job.user, job.todo[q], files[q])]
          /\ Versions({q}, NoOne, q)
          /\ saves' = Noted(job.user, q, {q})
  /\ job' = [job EXCEPT !.todo = [r \in DOMAIN @ \ {q} |-> @[r]], !.fresh = Fresh({q})]
  /\ UNCHANGED <<used, restore, touches, fileVars>>

\* UpdatePageUseCase or MovePageUseCase, with the version of the client.
RelocateTarget(body, moves) ==
  /\ job.phase = "affected" /\ job.todo = None /\ Unrestored
  /\ job.target \in Live /\ job.fresh
  /\ body \in Sent(job.target)
  /\ Updated(job.user, job.target, body, moves, ~moves)
  /\ job' = [job EXCEPT !.phase = "relocated", !.fresh = FALSE,
                        !.snap[job.target] = IF body = bodies[job.target] THEN @ ELSE body]
  /\ UNCHANGED <<used, restore, fileVars>>

\* rewritePathChangedSubtree compares the snapshots with the pages as they are.
LoadSubtree ==
  /\ job.phase = "relocated"
  /\ job' = [job EXCEPT !.phase = "subtree",
                        !.todo = [q \in {q \in DOMAIN job.snap \cap Live :
                                           Rewrite(job.snap[q]) # bodies[q]} |->
                                    Rewrite(job.snap[q])]]
  /\ UNCHANGED <<pageVars, fileVars, restore, saves, touches>>

\* It is done, or a page it needs is gone, or the version is not the client's.
RefactorEnds ==
  /\ \/ job.phase = "subtree" /\ job.todo = None
     \/ job.phase = "snapshot" /\ ~(DOMAIN job.snap \subseteq Live)
     \/ job.phase = "affected" /\ job.todo = None /\ ~(job.target \in Live /\ job.fresh)
  /\ job' = NoJob
  /\ UNCHANGED <<pageVars, fileVars, restore, saves, touches>>

\* Requests die with the process; what the database did not commit is undone.
Crash ==
  /\ restore.phase # "none" \/ job.phase # "none" \/ \E u \in User : unrecorded[u] # NoOne
  /\ strayed' = strayed \cup {unrecorded[u] : u \in {v \in User : unrecorded[v] # NoOne}}
                        \cup (IF Unrestored THEN {} ELSE {restore.page})
  /\ unrecorded' = [u \in User |-> NoOne]
  /\ reaped' = {} /\ restore' = NoRestore /\ job' = NoJob
  /\ UNCHANGED <<pageVars, files, blobs, saves, touches, uploads>>

-----------------------------------------------------------------------------
HistoryInit ==
  /\ bodies = [p \in Initial |-> [save |-> 0, old |-> TRUE]]
  /\ used = Initial
  /\ history = [p \in Initial |->
                  [revs |-> <<[type |-> "content", author |-> NoOne,
                               body |-> [save |-> 0, old |-> TRUE], manifest |-> {}]>>,
                   recent |-> FALSE, stored |-> {[save |-> 0, old |-> TRUE]}]]
  /\ files = [p \in Page |-> {}] /\ blobs = {}
  /\ seen = [u \in User |-> Initial]
  /\ unrecorded = [u \in User |-> NoOne] /\ reaped = {}
  /\ restore = NoRestore /\ job = NoJob
  /\ saves = <<>> /\ strayed = {} /\ touches = 0 /\ uploads = 0

PageStep ==
  \E u \in User, p \in Page :
    \/ LoadPage(u, p) \/ CreatePage(u, p) \/ MovePage(u, p) \/ ConvertPage(u, p)
    \/ DeletePage(u, p) \/ WindowPasses(p)
    \/ p \in Live /\ \E body \in Sent(p), moves, titled \in BOOLEAN :
         UpdatePage(u, p, body, moves, titled)

AssetStep ==
  \/ \E u \in User :
       \/ RecordAssetChange(u) \/ RecordAssetChangeFails(u)
       \/ \E p \in Page, a \in Asset :
            UploadAsset(u, p, a) \/ DeleteAsset(u, p, a) \/ \E n \in Name : RenameAsset(u, p, a, n)
  \/ \E p \in Page : DeleteFiles(p)

RestoreStep ==
  \/ \E u \in User, p \in Live : \E i \in DOMAIN history[p].revs : RestoreStarts(u, p, i)
  \/ RestoreClears \/ RestoreCopies \/ RestoreCommits \/ RestoreRollsBack
  \/ PutBackFails \/ RestoreIsLost

RefactorStep ==
  \/ \E u \in User, p \in Target, A \in SUBSET Page : PlanRefactor(u, p, A)
  \/ CaptureSnapshots \/ LoadAffected \/ LoadSubtree \/ RefactorEnds
  \/ \E q \in Page : WriteRewritten(q)
  \/ job.target \in Live /\ \E body \in Sent(job.target), moves \in BOOLEAN :
       RelocateTarget(body, moves)

HistoryNext == PageStep \/ AssetStep \/ RestoreStep \/ RefactorStep \/ Crash

HistorySpec == HistoryInit /\ [][HistoryNext]_historyVars

-----------------------------------------------------------------------------
(* Properties *)

\* Whatever wrote a page last, an editor, a refactoring or a restore, and whether
\* its revision was added, merged into the last one or found to be there: the
\* latest revision of the page has the content of the page.
HistoryCurrent ==
  \A p \in Live : history[p].revs # <<>> /\ Latest(history[p]).body = bodies[p]

\* Every page has a history, and a deleted one leaves none behind.  Every revision
\* can be opened and restored: its content is kept, although coalescing deletes
\* contents, and so are its attachments, although they are recorded after they
\* changed on disk.
HistoryReadable ==
  /\ DOMAIN history = Live
  /\ \A p \in Live : \A r \in Listed(history[p]) :
       r.body \in history[p].stored /\ Kept(r.manifest) \subseteq blobs

\* A text that was saved stays in the history of its page as long as fewer than
\* MaxRevisions revisions were made since and its author has not written the page
\* again: no other user, no refactoring that writes back what it read before the
\* save, and no restore can take it away.
SavesKept ==
  \A n \in Saved :
    LET s == saves[n] IN
    s.page \in Live /\ ~s.again /\ s.after < MaxRevisions =>
      \E r \in Listed(history[s.page]) : r.body.save = n

\* When no change of an attachment waits to be recorded, the latest revision lists the files
\* that are there: also after a restore that failed half way and put back what was there
\* before.  Except for a page whose last recording failed or was cut, or whose restore was
\* cut, lost its commit or could not put the files back, until its files are recorded again.
AssetsSettled ==
  \A p \in Live \ strayed :
    (\A u \in User : unrecorded[u] # p) /\ (Unrestored \/ restore.page # p)
      => Latest(history[p]).manifest = files[p]
=============================================================================
