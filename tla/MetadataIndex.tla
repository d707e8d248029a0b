--------------------------- MODULE MetadataIndex ----------------------------
(***************************************************************************)
(* The tables of tags, excerpts and properties of an instance that runs on *)
(* PostgreSQL.                                                             *)
(*                                                                         *)
(* A mutation of a page commits first; the thread that made it then makes  *)
(* one call for each table, with the Markdown as it was at its commit.     *)
(* Each call is a transaction that locks the page and writes nothing that  *)
(* is no longer current.  A resync clears the tables and makes the same    *)
(* calls for every page.  Moving, pinning and converting a page and the    *)
(* link refactoring change its Markdown and never touch these tables.      *)
(*                                                                         *)
(* The Markdown of a page is its frontmatter, which has the tags and the   *)
(* properties, its text, which has the excerpt, and what is managed: the   *)
(* time of the last update and the pin.                                    *)
(***************************************************************************)
EXTENDS Integers, Sequences, FiniteSets, SequencesExt

CONSTANTS Id,         \* identifiers; none is used twice
          Thread,       \* requests that mutate pages
          Resync,       \* the goroutine of a requested resync, not in Thread
          MaxStamp,     \* bounds the writes of one page
          MaxRebuilds,  \* bounds the resyncs and restarts
          MaxFailures   \* bounds the calls that fail

Worker == Thread \cup {Resync}

VARIABLES markdown, \* of the live pages, by id
          given,     \* the ids that were ever given to a page
          rows,     \* of each table, by page
          calls,    \* that each worker has still to make
          missed,   \* observer: pages whose rows nobody will bring up to date, by table
          rebuilds, failures

metadataVars == <<markdown, given, rows, calls, missed, rebuilds, failures>>

Table == {"tags", "properties"}
Dropping == [table \in Table |-> IF table = "tags" THEN "drop tags" ELSE "drop properties"]
Clearing == [table \in Table |-> IF table = "tags" THEN "clear tags" ELSE "clear properties"]
Existing == DOMAIN markdown
Unseen == [front |-> 0, text |-> 0, stamp |-> 0, pin |-> FALSE]
Call(do, pages, seen) == [do |-> do, pages |-> pages, seen |-> seen]
Each(do, P) == LET s == SetToSeq(P) IN [i \in 1..Cardinality(P) |-> Call(do, {s[i]}, Unseen)]

\* ExtractTagsFromContent, ExtractExcerptFromContent, ExtractPropertiesFromContent
Extracted(table, m) == IF table = "tags" THEN <<m.front, m.text>> ELSE m.front

MetadataInit ==
  /\ markdown = [p \in {} |-> 0] /\ given = {}
  /\ rows = [table \in Table |-> [p \in {} |-> 0]]
  /\ calls = [w \in Worker |-> <<>>]
  /\ missed = [table \in Table |-> {}] /\ rebuilds = 0 /\ failures = 0

-----------------------------------------------------------------------------
(* Page mutations *)

Idle(w) == calls[w] = <<>>
Makes(w, series) == calls' = [calls EXCEPT ![w] = series]
Observed == UNCHANGED <<rows, missed, rebuilds, failures>>

\* TagsSideEffect, then PropertiesSideEffect
Indexing(p, m) == <<Call("tags", {p}, m), Call("properties", {p}, m)>>

\* The two calls for each page in turn
IndexingEach(P) ==
  LET s == SetToSeq(P) IN
  [k \in 1..(2 * Cardinality(P)) |->
     LET p == s[(k + 1) \div 2] IN Indexing(p, markdown[p])[2 - (k % 2)]]

Create(t, p) ==
  /\ Idle(t) /\ p \in Id \ given
  /\ given' = given \cup {p}
  /\ markdown' = [q \in Existing \cup {p} |->
                    IF q = p THEN [front |-> 0, text |-> 1, stamp |-> 1, pin |-> FALSE] ELSE markdown[q]]
  /\ Makes(t, Indexing(p, markdown'[p]))
  /\ Observed

Rewritten(p, refront, retext) ==
  LET stamp == markdown[p].stamp + 1 IN
  [markdown EXCEPT ![p].stamp = stamp,
                   ![p].front = IF refront THEN stamp ELSE @,
                   ![p].text = IF retext THEN stamp ELSE @]

Writable(p) == p \in Existing /\ markdown[p].stamp < MaxStamp

\* An update, with or without the fields of the frontmatter.
Save(t, p, refront, retext) ==
  /\ Idle(t) /\ Writable(p)
  /\ markdown' = Rewritten(p, refront, retext)
  /\ Makes(t, Indexing(p, markdown'[p]))
  /\ Observed /\ UNCHANGED given

\* A revision is restored, with its extra frontmatter, in one transaction and the page read
\* back in another.
RestoreRevision(t, p, refront) ==
  /\ Idle(t) /\ Writable(p)
  /\ markdown' = Rewritten(p, refront, TRUE)
  /\ Makes(t, <<Call("read", {p}, Unseen)>>)
  /\ Observed /\ UNCHANGED given

Delete(t, P) ==
  /\ Idle(t) /\ P # {} /\ P \subseteq Existing
  /\ markdown' = [q \in Existing \ P |-> markdown[q]]
  /\ Makes(t, <<Call("drop tags", P, Unseen)>> \o Each("drop properties", P))
  /\ Observed /\ UNCHANGED given

\* The call that would have written the rows of p finds the Markdown changed.
Overtaken(table, p) ==
  \E w \in Worker : \E i \in DOMAIN calls[w] : calls[w][i] = Call(table, {p}, markdown[p])

\* No effect on these tables: the rows are behind if the text is new, or if they were
\* still to be written.
Unindexed(p, retext) ==
  /\ missed' = [table \in Table |->
                  IF Overtaken(table, p) \/ (retext /\ table = "tags") THEN missed[table] \cup {p} ELSE missed[table]]
  /\ UNCHANGED <<given, rows, calls, rebuilds, failures>>

\* Moves, and conversions of the kind
Touch(p) == Writable(p) /\ markdown' = Rewritten(p, FALSE, FALSE) /\ Unindexed(p, FALSE)

\* A page of a refactoring
RewriteLinks(p) == Writable(p) /\ markdown' = Rewritten(p, FALSE, TRUE) /\ Unindexed(p, TRUE)

Pin(p) == p \in Existing /\ markdown' = [markdown EXCEPT ![p].pin = ~@] /\ Unindexed(p, FALSE)

-----------------------------------------------------------------------------
(* The calls *)

Now(w) == Head(calls[w])
Does(w, do) == calls[w] # <<>> /\ Now(w).do = do
Then(w, series) == Makes(w, series \o Tail(calls[w])) /\ UNCHANGED <<markdown, given, rebuilds, failures>>

\* Mutant: what is there is not compared.
MatchesAny(c) == c.pages \subseteq Existing

\* CurrentPageMatches
Matches(c) == \A p \in c.pages : p \in Existing /\ markdown[p] = c.seen

\* setPageIndex, setPropertiesForPage
Set(w) ==
  \E table \in Table :
    /\ Does(w, table)
    /\ LET p == CHOOSE p \in Now(w).pages : TRUE
           row == Extracted(table, Now(w).seen)
       IN IF Matches(Now(w))
          THEN /\ rows' = [rows EXCEPT ![table] = [q \in DOMAIN @ \cup {p} |-> IF q = p THEN row ELSE @[q]]]
               /\ missed' = [missed EXCEPT ![table] = @ \ {p}]
          ELSE UNCHANGED <<rows, missed>>
    /\ Then(w, <<>>)

Dropped(table, P) == rows' = [rows EXCEPT ![table] = [q \in DOMAIN @ \ P |-> @[q]]]

\* DeletePageIndexes in one transaction, DeletePropertiesForPage for each page
Drop(w) ==
  \E table \in Table :
    /\ Does(w, Dropping[table]) /\ Dropped(table, Now(w).pages)
    /\ Then(w, <<>>) /\ UNCHANGED missed

ReadBack(w) ==
  /\ Does(w, "read")
  /\ Then(w, IndexingEach(Now(w).pages \cap Existing))
  /\ UNCHANGED <<rows, missed>>

\* bootstrapTagsAndProperties
StartResync ==
  /\ Idle(Resync) /\ rebuilds < MaxRebuilds /\ rebuilds' = rebuilds + 1
  /\ Makes(Resync, <<Call("clear tags", {}, Unseen), Call("clear properties", {}, Unseen), Call("walk", {}, Unseen)>>)
  /\ UNCHANGED <<markdown, given, rows, missed, failures>>

Clear ==
  \E table \in Table :
    /\ Does(Resync, Clearing[table]) /\ Dropped(table, Id)
    /\ Then(Resync, <<>>) /\ UNCHANGED missed

Walk == Does(Resync, "walk") /\ Then(Resync, <<Call("read", Existing, Unseen)>>) /\ UNCHANGED <<rows, missed>>

\* The bootstrap of the next process, before it serves requests
Restart ==
  /\ rebuilds < MaxRebuilds /\ rebuilds' = rebuilds + 1
  /\ calls' = [w \in Worker |-> <<>>]
  /\ rows' = [table \in Table |-> [p \in Existing |-> Extracted(table, markdown[p])]]
  /\ missed' = [table \in Table |-> {}]
  /\ UNCHANGED <<markdown, given, failures>>

\* What is behind for good when the next call fails
Behind(w, table) ==
  LET c == Now(w) IN
  CASE c.do = table -> IF Matches(c) THEN c.pages ELSE {}
    [] c.do = Dropping[table] -> c.pages
    [] c.do = "clear properties" -> IF table = "tags" THEN Existing ELSE {}
    [] c.do = "walk" -> Existing
    [] c.do = "read" -> c.pages
    [] OTHER -> {}

\* A failure is logged.  A resync that cannot clear a table or list the pages gives up.
Fail(w) ==
  /\ calls[w] # <<>> /\ failures < MaxFailures /\ failures' = failures + 1
  /\ missed' = [table \in Table |-> missed[table] \cup Behind(w, table)]
  /\ Makes(w, IF Now(w).do \in {"clear tags", "clear properties"} THEN <<>> ELSE Tail(calls[w]))
  /\ UNCHANGED <<markdown, given, rows, rebuilds>>

-----------------------------------------------------------------------------
Mutation ==
  \/ \E t \in Thread, p \in Id : Create(t, p)
  \/ \E t \in Thread, p \in Id, refront, retext \in BOOLEAN :
       Save(t, p, refront, retext) \/ RestoreRevision(t, p, refront)
  \/ \E t \in Thread, P \in SUBSET Existing : Delete(t, P)
  \/ \E p \in Id : Touch(p) \/ RewriteLinks(p) \/ Pin(p)

Step(w) == Set(w) \/ Drop(w) \/ ReadBack(w) \/ Fail(w)

MetadataNext == Mutation \/ StartResync \/ Clear \/ Walk \/ Restart \/ \E w \in Worker : Step(w)

MetadataSpec == MetadataInit /\ [][MetadataNext]_metadataVars

-----------------------------------------------------------------------------
(* Properties *)

Pending(table, p) ==
  \E w \in Worker : \E i \in DOMAIN calls[w] :
    LET c == calls[w][i] IN
    c.do \in {"clear tags", "clear properties", "walk"}
      \/ (p \in c.pages /\ c.do \in {table, "read", Dropping[table]})

\* However the calls of concurrent saves, deletions, restored revisions and a resync are
\* reordered, once none is left for a page its rows are what its current Markdown says,
\* and nothing of it is left if it is deleted: an old call neither replaces what a newer
\* one wrote nor brings a deleted page back.  Left out is a page whose call failed, or was
\* overtaken by a change that makes none.
MetadataSettles ==
  \A table \in Table, p \in Id :
    p \notin missed[table] /\ ~Pending(table, p) =>
      IF p \in Existing THEN p \in DOMAIN rows[table] /\ rows[table][p] = Extracted(table, markdown[p])
      ELSE p \notin DOMAIN rows[table]
=============================================================================
