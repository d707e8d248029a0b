----------------------------- MODULE FileHistory -----------------------------
(***************************************************************************)
(* The revisions of one page in the adapter that keeps them as files: a    *)
(* file for each revision, an index from ids to file names, and the blobs  *)
(* of the contents, which revisions of one content share.                  *)
(*                                                                         *)
(* A lock for each page makes the recording of revisions exclusive.  Two   *)
(* calls do not take it: opening a revision, which adds to the index what  *)
(* is missing there, and deleting the page.  A file is replaced at once,   *)
(* but a save replaces several; any of its steps may fail, and the process *)
(* may stop between two of them or while it writes a file.                 *)
(*                                                                         *)
(* Revisions are numbered in the order of their file names, which start    *)
(* with the time.  Manifests and attachments are left to PageHistory.      *)
(***************************************************************************)
EXTENDS Integers, Sequences, FiniteSets

CONSTANTS Thread, Content, MaxHistory, MaxMade, MaxFaults, NoThread

ASSUME FileHistoryAssumption ==
  /\ MaxHistory \in Nat \ {0} /\ {MaxMade, MaxFaults} \subseteq Nat
  /\ NoThread \notin Thread

VARIABLES revs,     \* the revision files: content, and whether it is an update of the content
          index,    \* the revisions that the index names
          blobs,    \* the contents there are blobs of
          live,     \* whether the page exists
          calls,    \* the steps each thread has still to make
          holder,   \* of the lock of the page
          copy,     \* the index as a thread has loaded it
          total,    \* revisions that were ever numbered
          faults,
          stray,    \* whether a temporary file was left behind
          cut,      \* observer: a step failed, or the process stopped before one
          raced     \* observer: the page was deleted while a revision was recorded or read,
                    \* or a reader wrote back an index that had changed since it was loaded

fileHistoryVars == <<revs, index, blobs, live, calls, holder, copy, total, faults, stray, cut, raced>>

Names == DOMAIN revs
Step(do, n, c) == [do |-> do, rev |-> n, content |-> c]
Unlock == <<Step("unlock", 0, 0)>>
Removal(old) == IF old = {} THEN <<>> ELSE <<Step("remove", old, 0)>>
Idle(t) == calls[t] = <<>>
Now(t) == Head(calls[t])
Does(t, do) == ~Idle(t) /\ Now(t).do = do
Makes(t, steps) == calls' = [calls EXCEPT ![t] = steps]
Goes(t) == Makes(t, Tail(calls[t]))
Loads(t) == copy' = [copy EXCEPT ![t] = index]

-----------------------------------------------------------------------------
(* Calls *)

\* DeletePageData, after the page was deleted
DeletePageData(t) ==
  /\ live /\ Idle(t)
  /\ live' = FALSE /\ raced' = (raced \/ holder # NoThread \/ \E u \in Thread : Does(u, "heal"))
  /\ Makes(t, <<Step("rmtree", 0, 0)>>)
  /\ UNCHANGED <<revs, index, blobs, holder, copy, total, faults, stray, cut>>

\* GetRevision of one that the index does not name: the others are only read.
GetRevision(t, n) ==
  /\ Idle(t) /\ n \in Names \ index
  /\ Loads(t) /\ raced' = (raced \/ ~live)
  /\ Makes(t, <<Step("heal", n, 0)>>)
  /\ UNCHANGED <<revs, index, blobs, live, holder, total, faults, stray, cut>>

-----------------------------------------------------------------------------
(* Recording a revision *)

\* UpdateRevision, then DeleteContentBlobIfUnreferenced
Coalesced(n, c) ==
  <<Step("blob", n, c), Step("find", n, c), Step("replace", n, c), Step("collect", n, revs[n].content)>>

\* SaveContentBlob, SaveRevision, PruneRevisions
Appended(n, c, update) ==
  <<Step("blob", n, c), Step(IF update THEN "update" ELSE "change", n, c),
    Step("load", n, c), Step("add", n, c), Step("prune", n, c)>>

\* RecordContentUpdate and RecordStructureChange, after a page was saved with this content
\* or moved.  Whether the last revision is recent and by the same author is left open.
Begin(t, do, c) ==
  /\ live /\ Idle(t) /\ holder = NoThread
  /\ LET latest == {n \in Names : Names \subseteq 1..n}
         changed == \A n \in latest : revs[n].content # c
     IN \/ /\ do = "content" /\ changed
           /\ \E n \in latest : revs[n].update /\ Makes(t, Coalesced(n, c) \o Unlock)
           /\ UNCHANGED total
        \/ /\ do = "content" => changed
           /\ total < MaxMade /\ total' = total + 1
           /\ Makes(t, Appended(total + 1, c, do = "content") \o Unlock)
  /\ holder' = t
  /\ UNCHANGED <<revs, index, blobs, live, copy, faults, stray, cut, raced>>

OnDisk(t) == Goes(t) /\ UNCHANGED <<live, holder, total, faults, stray, cut, raced>>

SaveContentBlob(t) ==
  /\ Does(t, "blob") /\ blobs' = blobs \cup {Now(t).content}
  /\ OnDisk(t) /\ UNCHANGED <<revs, index, copy>>

SaveRevision(t) ==
  /\ Does(t, "update") \/ Does(t, "change")
  /\ revs' = [n \in Names \cup {Now(t).rev} |->
                IF n = Now(t).rev THEN [content |-> Now(t).content, update |-> Now(t).do = "update"] ELSE revs[n]]
  /\ OnDisk(t) /\ UNCHANGED <<index, blobs, copy>>

LoadIndex(t) == Does(t, "load") /\ Loads(t) /\ OnDisk(t) /\ UNCHANGED <<revs, index, blobs>>

AddToIndex(t) ==
  /\ Does(t, "add") /\ index' = copy[t] \cup {Now(t).rev}
  /\ OnDisk(t) /\ UNCHANGED <<revs, blobs, copy>>

\* A revision that is not in the index is looked for in the directory, and added.
FindRevision(t) ==
  /\ Does(t, "find")
  /\ Loads(t)
  /\ Makes(t, (IF Now(t).rev \in index THEN <<>> ELSE IF Now(t).rev \in Names THEN <<Step("heal", Now(t).rev, 0)>>
               ELSE Unlock) \o Tail(calls[t]))
  /\ UNCHANGED <<revs, index, blobs, live, holder, total, faults, stray, cut, raced>>

Heal(t) ==
  /\ Does(t, "heal") /\ index' = copy[t] \cup {Now(t).rev}
  /\ raced' = (raced \/ index # copy[t] \/ holder \notin {t, NoThread})
  /\ Goes(t) /\ UNCHANGED <<revs, blobs, copy, live, holder, total, faults, stray, cut>>

\* The file is written whether it is still there or not, but not into a directory that is gone.
UpdateRevision(t) ==
  /\ Does(t, "replace")
  /\ IF Names \cup index # {}
     THEN /\ revs' = [n \in Names \cup {Now(t).rev} |->
                        IF n = Now(t).rev THEN [content |-> Now(t).content, update |-> TRUE] ELSE revs[n]]
          /\ Goes(t)
     ELSE Makes(t, Unlock) /\ UNCHANGED revs
  /\ UNCHANGED <<index, blobs, copy, live, holder, total, faults, stray, cut, raced>>

\* Mutant: another revision may still name it.
CollectReferenced(t) ==
  /\ Does(t, "collect") /\ blobs' = blobs \ {Now(t).content}
  /\ OnDisk(t) /\ UNCHANGED <<revs, index, copy>>

DeleteContentBlobIfUnreferenced(t) ==
  /\ Does(t, "collect")
  /\ blobs' = IF \E n \in Names : revs[n].content = Now(t).content THEN blobs ELSE blobs \ {Now(t).content}
  /\ OnDisk(t) /\ UNCHANGED <<revs, index, copy>>

\* PruneRevisions: the files beyond the newest are removed, oldest last, and then their
\* entries.
PruneRevisions(t) ==
  /\ Does(t, "prune")
  /\ Loads(t)
  /\ LET old == {n \in Names : Cardinality({m \in Names : m > n}) >= MaxHistory}
     IN Makes(t, Removal(old) \o (IF old \cap index = {} THEN <<>> ELSE <<Step("keep", 0, 0)>>) \o Tail(calls[t]))
  /\ UNCHANGED <<revs, index, blobs, live, holder, total, faults, stray, cut, raced>>

Removed(t, gone) == revs' = [n \in Names \ gone |-> revs[n]]

RemoveFile(t) ==
  /\ Does(t, "remove")
  /\ \E n \in Now(t).rev :
       /\ \A m \in Now(t).rev : m <= n
       /\ Removed(t, {n}) /\ copy' = [copy EXCEPT ![t] = @ \ {n}]
       /\ Makes(t, Removal(Now(t).rev \ {n}) \o Tail(calls[t]))
  /\ UNCHANGED <<index, blobs, live, holder, total, faults, stray, cut, raced>>

SaveIndex(t) ==
  /\ Does(t, "keep") /\ index' = copy[t]
  /\ OnDisk(t) /\ UNCHANGED <<revs, blobs, copy>>

Release(t) ==
  /\ Does(t, "unlock")
  /\ Makes(t, <<>>) /\ holder' = NoThread
  /\ copy' = [copy EXCEPT ![t] = {}]
  /\ UNCHANGED <<revs, index, blobs, live, total, faults, stray, cut, raced>>

\* DeletePageRevisions: the entries of the directory one by one
RemoveEntry(t) ==
  /\ Does(t, "rmtree")
  /\ \/ \E n \in Names : Removed(t, {n}) /\ UNCHANGED <<index, calls, stray>>
     \/ index # {} /\ index' = {} /\ UNCHANGED <<revs, calls, stray>>
     \/ Names = {} /\ index = {} /\ stray' = FALSE /\ Goes(t) /\ UNCHANGED <<revs, index>>
  /\ UNCHANGED <<blobs, live, holder, copy, total, faults, cut, raced>>

-----------------------------------------------------------------------------
(* Failures and restarts *)

Writes(t) == \E do \in {"update", "change", "add", "heal", "replace", "keep"} : Does(t, do)
IsCall(t) == Writes(t) \/ \E do \in {"blob", "load", "find", "collect", "prune", "remove", "rmtree"} : Does(t, do)

\* Only an index that cannot be healed does not end the call.
Fail(t) ==
  /\ IsCall(t) /\ faults < MaxFaults /\ faults' = faults + 1
  /\ Makes(t, IF Does(t, "heal") THEN Tail(calls[t]) ELSE IF holder = t THEN Unlock ELSE <<>>)
  /\ cut' = (cut \/ ~Does(t, "blob"))
  /\ UNCHANGED <<revs, index, blobs, live, holder, copy, total, stray, raced>>

\* The next process has nothing to do for the history when it starts.
Crash ==
  /\ faults < MaxFaults /\ faults' = faults + 1
  /\ calls' = [t \in Thread |-> <<>>] /\ holder' = NoThread
  /\ stray' \in {stray, stray \/ \E t \in Thread : Writes(t)}
  /\ cut' = (cut \/ \E t \in Thread : IsCall(t) /\ ~Does(t, "blob"))
  /\ UNCHANGED <<revs, index, blobs, live, copy, total, raced>>

-----------------------------------------------------------------------------
FileHistoryInit ==
  /\ revs = [n \in {} |-> 0] /\ index = {} /\ blobs = {} /\ live = TRUE
  /\ calls = [t \in Thread |-> <<>>] /\ holder = NoThread
  /\ copy = [t \in Thread |-> {}] /\ total = 0 /\ faults = 0
  /\ stray = FALSE /\ cut = FALSE /\ raced = FALSE

Asks(t) ==
  \/ \E c \in Content : Begin(t, "content", c) \/ Begin(t, "structure", c)
  \/ DeletePageData(t) \/ \E n \in Names : GetRevision(t, n)

Runs(t) ==
  \/ SaveContentBlob(t) \/ SaveRevision(t) \/ LoadIndex(t) \/ AddToIndex(t)
  \/ FindRevision(t) \/ Heal(t) \/ UpdateRevision(t) \/ DeleteContentBlobIfUnreferenced(t)
  \/ PruneRevisions(t) \/ RemoveFile(t) \/ SaveIndex(t) \/ Release(t) \/ RemoveEntry(t)

FileHistoryNext == Crash \/ \E t \in Thread : Asks(t) \/ Runs(t) \/ Fail(t)

FileHistorySpec == FileHistoryInit /\ [][FileHistoryNext]_fileHistoryVars

-----------------------------------------------------------------------------
(* Properties *)

\* inspectRevisions: every revision has its blob and its page, and the index and the
\* directory name the same revisions and nothing else.
Accepted ==
  /\ \A n \in Names : revs[n].content \in blobs
  /\ Names # {} => live
  /\ index \in {{}, Names} /\ ~stray

\* Whatever is coalesced, collected and pruned, a revision that can be listed can be opened:
\* its content is there from before its file is until after.  And an instance that was
\* stopped in good order can be imported with its history; only a failure or a stop in the
\* middle of recording, a page deleted at that moment, and a reader who wrote back an index
\* that a recording had changed, leave files that the inspection refuses.
HistoryImports ==
  /\ \A n \in Names : revs[n].content \in blobs
  /\ (\A t \in Thread : Idle(t)) /\ ~cut /\ ~raced => Accepted
=============================================================================
