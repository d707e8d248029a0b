---------------------------- MODULE SearchIndex -----------------------------
(***************************************************************************)
(* The full-text index of an instance that runs on PostgreSQL.             *)
(*                                                                         *)
(* A mutation of a page commits first; the thread that made it then writes *)
(* the rows of the index in a transaction of its own, from the pages as    *)
(* they were at its commit.  Several threads do so at once, next to the    *)
(* rebuilds that run after a start and on request, so a row may be written *)
(* out of order: CurrentPageMatches locks the page and writes nothing that *)
(* is no longer current.  Pinning, converting and the link refactoring     *)
(* change pages and never touch this index.                                *)
(*                                                                         *)
(* A transaction of the index keeps the lock of each page it has compared  *)
(* and of each row it has written or deleted, until it ends.  PostgreSQL   *)
(* aborts a transaction that waits in a circle, and nothing retries it.    *)
(*                                                                         *)
(* A page mutation is one transaction (module PageTree) and one action.    *)
(* Which pages are below which is left to that module: a move takes a page *)
(* and any set of others to a new place.  Text stands for title and body.  *)
(***************************************************************************)
EXTENDS Integers, FiniteSets

CONSTANTS Page,        \* identifiers, ordered as strings are; none is used twice
          Place,       \* the paths a page can have
          Thread,      \* requests that mutate pages
          Startup,     \* the goroutine that initSearch starts
          Resync,      \* the goroutine of a requested resync
          MaxStamp,    \* bounds the raw writes of one page
          MaxRebuilds, \* bounds the restarts and resyncs
          EffectsFail, \* whether writing the index may fail
          Bare         \* which of the mutations that run no effect on the index are made

Indexer == {Startup, Resync}
Worker == Thread \cup Indexer

ASSUME SearchIndexAssumption ==
  /\ Page \subseteq Int
  /\ Thread \cap Indexer = {}
  /\ Startup # Resync
  /\ MaxStamp \in Nat /\ MaxRebuilds \in Nat
  /\ EffectsFail \in BOOLEAN
  /\ Bare \subseteq {"pin", "convert", "refactor"}

VARIABLES pages,   \* the live pages, by id
          used,    \* the ids that were ever given to a page
          rows,    \* the rows of search_pages
          phase,   \* what each worker does
          ids,     \* the pages it is about to read, or whose rows it has yet to delete
          todo,    \* the pages it read and has not compared yet
          found,   \* the pages its open transaction writes
          held,    \* the page rows its open transaction has locked
          latched, \* the rows of search_pages it has written or deleted, and locked
          missed,  \* observer: pages whose last change nobody will index
          rebuilds

pageVars == <<pages, used>>
lockVars == <<held, latched>>
workVars == <<phase, ids, todo, found, lockVars>>
indexVars == <<pages, used, rows, phase, ids, todo, found, held, latched, missed, rebuilds>>

\* The stored Markdown of a page is its text and the managed frontmatter, which
\* has the time of the last update and the pin.
PageRow == [text : Nat, stamp : Nat, pin : BOOLEAN, place : Place]
Snapshot == [id : Page, page : PageRow]
SearchRow == [id : Page, text : Nat, place : Place]

Raw(row) == <<row.text, row.stamp, row.pin>>
Live == DOMAIN pages
Read(P) == {[id |-> p, page |-> pages[p]] : p \in P}
Held == UNION {held[w] : w \in Worker}
Latched == UNION {latched[w] : w \in Worker}
Idle(w) == phase[w] = "idle"

IndexInit ==
  /\ pages = [p \in {} |-> {}] /\ used = {} /\ rows = {}
  /\ phase = [w \in Worker |-> IF w = Startup THEN "clear" ELSE "idle"]
  /\ ids = [w \in Worker |-> {}] /\ todo = [w \in Worker |-> {}]
  /\ found = [w \in Worker |-> {}] /\ held = [w \in Worker |-> {}]
  /\ latched = [w \in Worker |-> {}] /\ missed = {} /\ rebuilds = 0

-----------------------------------------------------------------------------
(* Page mutations *)

\* The transaction rewrites the stored Markdown of p, and moves the pages of S.
Rewritten(p, retext, S, place) ==
  [q \in Live |->
     LET stamp == pages[q].stamp + 1 IN
     [pages[q] EXCEPT
       !.text = IF q = p /\ retext THEN stamp ELSE @,
       !.stamp = IF q = p THEN stamp ELSE @,
       !.place = IF q \in S THEN place ELSE @]]

Writable(p) == p \in Live \ Held /\ pages[p].stamp < MaxStamp

\* Transact: the pages as the transaction leaves them, then the deferred effects.
Indexed(t, P) ==
  /\ phase' = [phase EXCEPT ![t] = "batch"]
  /\ todo' = [todo EXCEPT ![t] = {[id |-> p, page |-> pages'[p]] : p \in P}]
  /\ missed' = missed \ P
  /\ UNCHANGED <<rows, ids, found, lockVars, rebuilds>>

Unindexed(P) ==
  /\ missed' = missed \cup P
  /\ UNCHANGED <<rows, workVars, rebuilds>>

\* Create, copy and each page of an ensured path.
Create(t, p, place) ==
  /\ Idle(t) /\ p \in Page \ used /\ MaxStamp > 0
  /\ pages' = [q \in Live \cup {p} |->
                 IF q = p THEN [text |-> 1, stamp |-> 1, pin |-> FALSE, place |-> place]
                          ELSE pages[q]]
  /\ used' = used \cup {p}
  /\ Indexed(t, {p})

\* An update that keeps the slug.
Save(t, p) ==
  /\ Idle(t) /\ Writable(p)
  /\ pages' = Rewritten(p, TRUE, {}, pages[p].place)
  /\ Indexed(t, {p})
  /\ UNCHANGED used

\* An update that changes the slug, or a move; S is the page and what is below.
Relocate(t, p, retext, S, place) ==
  /\ Idle(t) /\ Writable(p) /\ p \in S /\ S \subseteq Live /\ place # pages[p].place
  /\ pages' = Rewritten(p, retext, S, place)
  /\ Indexed(t, S)
  /\ UNCHANGED used

\* A revision is restored in one transaction and the page read back in another.
RestoreRevision(t, p) ==
  /\ Idle(t) /\ Writable(p)
  /\ pages' = Rewritten(p, TRUE, {}, pages[p].place)
  /\ phase' = [phase EXCEPT ![t] = "read"]
  /\ ids' = [ids EXCEPT ![t] = {p}]
  /\ missed' = missed \ {p}
  /\ UNCHANGED <<used, rows, todo, found, lockVars, rebuilds>>

Delete(t, S) ==
  /\ Idle(t) /\ S # {} /\ S \subseteq Live \ Held
  /\ pages' = [q \in Live \ S |-> pages[q]]
  /\ phase' = [phase EXCEPT ![t] = "remove"]
  /\ ids' = [ids EXCEPT ![t] = S]
  /\ missed' = missed \ S
  /\ UNCHANGED <<used, rows, todo, found, lockVars, rebuilds>>

\* SetPinned writes the frontmatter, and runs no side effect.
Pin(p) ==
  /\ "pin" \in Bare /\ p \in Live \ Held
  /\ pages' = [pages EXCEPT ![p].pin = ~@]
  /\ Unindexed({p})
  /\ UNCHANGED used

\* ConvertNode: a new kind and a new time, and no side effect.
Convert(p) ==
  /\ "convert" \in Bare /\ Writable(p)
  /\ pages' = Rewritten(p, FALSE, {}, pages[p].place)
  /\ Unindexed({p})
  /\ UNCHANGED used

\* A page whose links a refactoring rewrites.
RewriteLinks(p) ==
  /\ "refactor" \in Bare /\ Writable(p)
  /\ pages' = Rewritten(p, TRUE, {}, pages[p].place)
  /\ Unindexed({p})
  /\ UNCHANGED used

\* The page a refactoring renames or moves: its orchestrator has the effects on
\* links and revisions only.
Refactor(p, retext, S, place) ==
  /\ "refactor" \in Bare /\ Writable(p) /\ p \in S /\ S \subseteq Live
  /\ pages' = Rewritten(p, retext, S, place)
  /\ Unindexed(S)
  /\ UNCHANGED used

-----------------------------------------------------------------------------
(* Writing the index *)

MatchesPlace(s) == s.page.place = pages[s.id].place

\* CurrentPageMatches
Matches(s) ==
  /\ Raw(s.page) = Raw(pages[s.id])
  /\ s.page.place = pages[s.id].place

\* Mutant: a batch is locked in the order the affected pages were listed in.
MayLookAnyOrder(w, s) == phase[w] = "each" => held[w] = {}

\* IndexPages sorts a batch by id; a rebuild has one page in each transaction.
MayLook(w, s) ==
  IF phase[w] = "each" THEN held[w] = {} ELSE \A r \in todo[w] : s.id <= r.id

\* The rows that are compared and not written yet
Unwritten(w) == {s.id : s \in found[w]} \ latched[w]

\* The query has read the row: a match is to be written, and a deleted page has no row.
Looked(w, s, locks) ==
  /\ phase[w] \in {"batch", "each"} /\ s \in todo[w] /\ MayLook(w, s) /\ Unwritten(w) = {}
  /\ todo' = [todo EXCEPT ![w] = @ \ {s}]
  /\ held' = [held EXCEPT ![w] = @ \cup locks]
  /\ found' = [found EXCEPT ![w] = IF s.id \in Live /\ Matches(s) THEN @ \cup {s} ELSE @]
  /\ UNCHANGED <<pageVars, rows, phase, ids, latched, missed, rebuilds>>

LookUnlocked(w, s) == s.id \notin Held /\ Looked(w, s, {})

\* SELECT ... FOR UPDATE waits for the lock, and keeps it.
Look(w, s) == s.id \notin Held /\ Looked(w, s, {s.id} \cap Live)

\* INSERT ... ON CONFLICT, which waits for whoever has written or deleted the row
Upsert(w) ==
  /\ phase[w] \in {"batch", "each"} /\ Unwritten(w) # {} /\ Unwritten(w) \cap Latched = {}
  /\ latched' = [latched EXCEPT ![w] = @ \cup Unwritten(w)]
  /\ UNCHANGED <<pageVars, rows, phase, ids, todo, found, held, missed, rebuilds>>

InTransaction(w) ==
  \/ phase[w] = "batch"
  \/ phase[w] = "each" /\ (held[w] # {} \/ todo[w] = {})

\* What a committed or rolled back transaction leaves to do.
EndTransaction(w, left) ==
  /\ phase' = [phase EXCEPT ![w] = IF left = {} THEN "idle" ELSE @]
  /\ todo' = [todo EXCEPT ![w] = left]
  /\ found' = [found EXCEPT ![w] = {}] /\ held' = [held EXCEPT ![w] = {}]
  /\ latched' = [latched EXCEPT ![w] = {}]
  /\ UNCHANGED <<pageVars, ids, rebuilds>>

Upserted(S) ==
  {r \in rows : \A s \in S : s.id # r.id}
    \cup {[id |-> s.id, text |-> s.page.text, place |-> s.page.place] : s \in S}

\* The commit of IndexPages
Write(w) ==
  /\ InTransaction(w) /\ (phase[w] = "batch" => todo[w] = {}) /\ Unwritten(w) = {}
  /\ rows' = Upserted(found[w])
  /\ EndTransaction(w, todo[w])
  /\ UNCHANGED missed

\* IndexAllPagesContext clears the index, lists the pages, reads them in one
\* snapshot, and writes them one by one.  The statement that clears it deletes the
\* rows that were there when it began.
Clear(w) ==
  /\ phase[w] = "clear"
  /\ phase' = [phase EXCEPT ![w] = "wipe"]
  /\ ids' = [ids EXCEPT ![w] = {r.id : r \in rows}]
  /\ UNCHANGED <<pageVars, rows, todo, found, lockVars, missed, rebuilds>>

\* A row is deleted, in the order of the list or of the table, unless it is gone.
DeleteRow(w, p) ==
  /\ phase[w] \in {"remove", "wipe"} /\ p \in ids[w] \ Latched
  /\ ids' = [ids EXCEPT ![w] = @ \ {p}]
  /\ latched' = [latched EXCEPT ![w] = @ \cup ({p} \cap {r.id : r \in rows})]
  /\ UNCHANGED <<pageVars, rows, phase, todo, found, held, missed, rebuilds>>

\* The commit of RemovePages or Clear: another Clear passes over the rows that it
\* finds gone, and what it left of missed pages that were deleted is gone too.
RowsDeleted(w, next) ==
  /\ ids[w] = {}
  /\ rows' = {r \in rows : r.id \notin latched[w]}
  /\ ids' = [v \in Worker |-> IF phase[v] = "wipe" THEN ids[v] \ latched[w] ELSE ids[v]]
  /\ latched' = [latched EXCEPT ![w] = {}]
  /\ phase' = [phase EXCEPT ![w] = next]
  /\ missed' = {p \in missed : p \in Live \/ \E r \in rows' : r.id = p}
  /\ UNCHANGED <<pageVars, todo, found, held, rebuilds>>

RemovePages(w) == phase[w] = "remove" /\ RowsDeleted(w, "idle")
Cleared(w) == phase[w] = "wipe" /\ RowsDeleted(w, "walk")

WalkNodes(w) ==
  /\ phase[w] = "walk"
  /\ phase' = [phase EXCEPT ![w] = "read"]
  /\ ids' = [ids EXCEPT ![w] = Live]
  /\ UNCHANGED <<pageVars, rows, todo, found, lockVars, missed, rebuilds>>

GetPages(w) ==
  /\ phase[w] = "read"
  /\ phase' = [phase EXCEPT ![w] = IF w \in Indexer THEN "each" ELSE "batch"]
  /\ todo' = [todo EXCEPT ![w] = Read(ids[w] \cap Live)]
  /\ ids' = [ids EXCEPT ![w] = {}]
  /\ missed' = missed \ (ids[w] \cap Live)
  /\ UNCHANGED <<pageVars, rows, found, lockVars, rebuilds>>

-----------------------------------------------------------------------------
(* Failures *)

\* The locks that w may be asking for are among those of v.
WaitsForPage(w, v) ==
  /\ phase[w] \in {"batch", "each"} /\ Unwritten(w) = {}
  /\ \E s \in todo[w] : MayLook(w, s) /\ s.id \in held[v]
WaitsForRow(w, v) ==
  \/ Unwritten(w) \cap latched[v] # {}
  \/ phase[w] \in {"remove", "wipe"} /\ ids[w] \cap latched[v] # {}
WaitsFor(w, v) == v # w /\ (WaitsForPage(w, v) \/ WaitsForRow(w, v))

Circle(C) == C # {} /\ \A w \in C : \E v \in C : WaitsFor(w, v)

\* A statement fails, or it is the one that PostgreSQL aborts because it waits in a circle.
MayFail(w) == EffectsFail \/ \E C \in SUBSET Worker : w \in C /\ Circle(C)

\* The pages that w alone may still see to
Owed(w) ==
  IF phase[w] = "walk" THEN Live
  ELSE IF phase[w] \in {"clear", "wipe"} THEN {}
  ELSE ids[w] \cup latched[w] \cup {s.id : s \in todo[w] \cup found[w]}

\* A failure is logged, and the pages of the transaction keep their old rows.
WriteFails(w) ==
  /\ InTransaction(w) /\ MayFail(w)
  /\ LET lost == found[w] \cup (IF phase[w] = "batch" THEN todo[w] ELSE {}) IN
     /\ missed' = missed \cup {s.id : s \in lost}
     /\ EndTransaction(w, todo[w] \ lost)
  /\ UNCHANGED rows

\* Any other step of a worker fails: it gives up, and what it deleted is rolled back.
StepFails(w) ==
  /\ phase[w] \in {"remove", "read", "walk", "clear", "wipe"} /\ MayFail(w)
  /\ missed' = missed \cup Owed(w)
  /\ phase' = [phase EXCEPT ![w] = "idle"]
  /\ ids' = [ids EXCEPT ![w] = {}] /\ latched' = [latched EXCEPT ![w] = {}]
  /\ UNCHANGED <<pageVars, rows, todo, found, held, rebuilds>>

\* ResyncJob.Start
StartResync ==
  /\ Idle(Resync) /\ rebuilds < MaxRebuilds
  /\ rebuilds' = rebuilds + 1
  /\ phase' = [phase EXCEPT ![Resync] = "clear"]
  /\ UNCHANGED <<pageVars, rows, ids, todo, found, lockVars, missed>>

\* The process ends, open transactions roll back, and a new one rebuilds.
Restart ==
  /\ rebuilds < MaxRebuilds
  /\ rebuilds' = rebuilds + 1
  /\ phase' = [w \in Worker |-> IF w = Startup THEN "clear" ELSE "idle"]
  /\ ids' = [w \in Worker |-> {}] /\ todo' = [w \in Worker |-> {}]
  /\ found' = [w \in Worker |-> {}] /\ held' = [w \in Worker |-> {}]
  /\ latched' = [w \in Worker |-> {}]
  /\ missed' = missed \cup UNION {Owed(w) : w \in Worker}
  /\ UNCHANGED <<pageVars, rows>>

-----------------------------------------------------------------------------
(* Specification *)

Mutation ==
  \/ \E t \in Thread, p \in Page, place \in Place : Create(t, p, place)
  \/ \E t \in Thread, p \in Live : Save(t, p) \/ RestoreRevision(t, p)
  \/ \E t \in Thread, p \in Live, retext \in BOOLEAN, S \in SUBSET Live, place \in Place :
       Relocate(t, p, retext, S, place)
  \/ \E t \in Thread, S \in SUBSET Live : Delete(t, S)
  \/ \E p \in Live : Pin(p) \/ Convert(p) \/ RewriteLinks(p)
  \/ \E p \in Live, retext \in BOOLEAN, S \in SUBSET Live, place \in Place :
       Refactor(p, retext, S, place)

LookStep(w) == \E s \in todo[w] : Look(w, s)
RowStep(w) == Upsert(w) \/ \E p \in ids[w] : DeleteRow(w, p)
WorkStep(w) == Write(w) \/ RemovePages(w) \/ Clear(w) \/ Cleared(w) \/ WalkNodes(w) \/ GetPages(w)
FailStep(w) == WriteFails(w) \/ StepFails(w)

IndexNext ==
  \/ Mutation \/ StartResync \/ Restart
  \/ \E w \in Worker : LookStep(w) \/ RowStep(w) \/ WorkStep(w) \/ FailStep(w)

IndexSpec == IndexInit /\ [][IndexNext]_indexVars

-----------------------------------------------------------------------------
(* Properties *)

RowsOf(p) == {r \in rows : r.id = p}
Current(p) ==
  IF p \in Live THEN {[id |-> p, text |-> pages[p].text, place |-> pages[p].place]} ELSE {}

\* However the callbacks of concurrent saves, moves, deletions, restored
\* revisions and rebuilds are reordered, once no worker is busy with a page the
\* index has exactly its current text and path, and nothing of it if it is
\* deleted - unless its last change is one that runs no effect, or the effect failed
\* or was aborted, and no rebuild has read the page since.
IndexSettles ==
  \A p \in Page :
    p \notin missed /\ (\A w \in Worker : p \notin Owed(w)) => RowsOf(p) = Current(p)

\* "An old post-commit callback must not replace an index built from a newer page
\* nor resurrect an index after deletion" (derived.go): the text of a row never goes
\* back, and what is in the index for a deleted page was there before.
IndexAdvances ==
  [][\A q \in rows' : /\ \A r \in rows : r.id = q.id => q.text >= r.text
                      /\ q.id \in used \ Live => q \in rows]_indexVars

\* Effects of mutations do not wait for one another in a circle, on pages or on rows of
\* the index: whenever transactions do, one of them is clearing the index for a rebuild,
\* whose order is that of the table.
OnlyClearsCloseCircles ==
  \A C \in SUBSET Worker : Circle(C) => \E w \in C : phase[w] = "wipe"
=============================================================================
