----------------------------- MODULE LegacyRestore -----------------------------
(***************************************************************************)
(* The restore of a snapshot into a directory that holds everything: the   *)
(* live one, while the server runs and its SQLite stores have their files  *)
(* open, and the one of the command line, while it does not.               *)
(*                                                                         *)
(* Each item of the snapshot is swapped in by two renames, which keep the  *)
(* original beside it until all is done.  Any step may fail, and the       *)
(* process may stop between two of them.  A request that is still running  *)
(* when the wait for the gate times out may go on writing.                 *)
(*                                                                         *)
(* Four items stand for ten: the pages, a file with settings that the      *)
(* server holds in memory, and two databases, of which every snapshot has  *)
(* the first.  A content is where it comes from (0 is this instance, n is  *)
(* the n-th snapshot, -1 is a new and empty one) and how many writes       *)
(* followed.  The last write to a database may still be in its WAL only.   *)
(***************************************************************************)
EXTENDS Integers, Sequences

CONSTANTS MaxRestores, MaxTroubles, Writable

ASSUME LegacyRestoreAssumption ==
  {MaxRestores, MaxTroubles} \subseteq Nat /\ Writable \subseteq {"root", "branding", "users", "favorites"}

Stores == {"users", "favorites"}
SwapNames == <<"root", "branding", "users", "favorites">>
Item == {SwapNames[k] : k \in DOMAIN SwapNames}
Absent == [of |-> -1, writes |-> -1]
Empty == [of |-> -1, writes |-> 0]
NoCopies == [i \in Item |-> Absent]

VARIABLES disk,     \* the live items
          wal,      \* the databases whose last write is in the WAL only
          staged,   \* the items of the snapshot that is restored
          aside,    \* the originals that this restore has moved aside
          left,     \* the originals that earlier ones left behind
          plan,     \* the steps that are left
          moved,    \* the items it has begun to swap
          botched,  \* whether the roll-back or the reopening failed
          open,     \* the content that each store has open; Absent when it is suspended
          brand,    \* the settings that are in memory
          shut,     \* the gate
          process,  \* "up", "down", or "offline" for the command
          status,   \* how the last restore went
          restores, \* restores that were begun
          troubles,
          late,     \* whether a request goes on although the gate is shut
          before,   \* observer: the originals of the restore, with the writes to them
          unmerged  \* observer: the databases whose last write was in the WAL when the command began

restoreVars == <<disk, wal, staged, aside, left, plan, moved, botched, open, brand, shut, process, status,
                 restores, troubles, late, before, unmerged>>

-----------------------------------------------------------------------------
(* The steps of a restore: those that are left, which have one order *)

On(do, i) == [do |-> do, item |-> i]
All(do, set) == {On(do, i) : i \in set}
Once(do) == All(do, {"root"})

\* Mutant: the originals go as soon as the items are swapped.
CommitsFirst ==
  [validate |-> 1, engage |-> 2, pause |-> 3, wal |-> 4, aside |-> 5, in |-> 5, commit |-> 6,
   reopen |-> 7, reload |-> 8, access |-> 9,
   suspend |-> 10, remove |-> 11, back |-> 11, weigh |-> 12, admit |-> 13, resync |-> 14, judge |-> 15,
   disengage |-> 16, restored |-> 17, failed |-> 18, refused |-> 19]

\* runFromZipPath, and after a failure rollbackOrIntervene
StepOrder ==
  [validate |-> 1, engage |-> 2, pause |-> 3, wal |-> 4, aside |-> 5, in |-> 5, reopen |-> 6,
   reload |-> 7, access |-> 8, commit |-> 9,
   suspend |-> 10, remove |-> 11, back |-> 11, weigh |-> 12, admit |-> 13, resync |-> 14, judge |-> 15,
   disengage |-> 16, restored |-> 17, failed |-> 18, refused |-> 19]

\* Item by item in each stage; SwapAll and RollbackAll have two steps for an item.
Turn(i) == CHOOSE k \in DOMAIN SwapNames : SwapNames[k] = i
Due(s) == 10 * StepOrder[s.do] + 2 * Turn(s.item) + (IF s.do \in {"in", "back"} THEN 1 ELSE 0)

IsNext(do) == \E s \in plan : s.do = do /\ \A r \in plan : Due(s) <= Due(r)
ThisStep == CHOOSE s \in plan : \A r \in plan : Due(s) <= Due(r)
Of == ThisStep.item
Takes == plan' = plan \ {ThisStep}

\* SwapAll
Swaps(set) == All("aside", set) \cup All("in", set)
Commits(set) == All("commit", set)

\* runFromZipPath
Live(set) ==
  Once("validate") \cup Once("engage") \cup All("pause", Stores) \cup All("wal", set \cap Stores) \cup Swaps(set)
    \cup All("reopen", Stores) \cup Once("reload") \cup Once("access") \cup Commits(set)
    \cup Once("disengage") \cup Once("restored")

\* RestoreOffline
Offline(set) ==
  Once("validate") \cup All("wal", set \cap Stores) \cup Swaps(set) \cup Commits(set) \cup Once("restored")

\* RollbackAll
Undos(set) == All("remove", set) \cup All("back", set)

\* reopenAllStores, and whether it did
Reopened == All("resync", Stores) \cup Once("judge") \cup Once("failed")

\* A failure before anything was touched: the gate is opened, and then the stores are.
Recovery == Once("admit") \cup Reopened

\* Mutant: an item that was only moved aside is not taken back.
RollbackSwapped(set) ==
  All("suspend", Stores) \cup Undos({i \in set : disk[i] # Absent}) \cup Once("weigh") \cup Reopened \cup Once("disengage")

\* rollbackOrIntervene; the command has nothing to suspend and to reopen.
Rollback(set) ==
  IF process = "offline" THEN Undos(set) \cup Once("weigh") \cup Once("failed")
  ELSE All("suspend", Stores) \cup Undos(set) \cup Once("weigh") \cup Reopened \cup Once("disengage")

-----------------------------------------------------------------------------
(* The server, and the writes of its requests *)

\* While it is, what a late request writes to it may be lost.
Swapping(i) == i \in moved /\ {On("in", i), On("remove", i), On("back", i)} \cap plan # {}

WriteItem(i) ==
  /\ process = "up" /\ disk[i].writes < 1
  /\ ~shut \/ late
  /\ i \in Stores => open[i] # Absent /\ open[i] = disk[i]
  /\ LET at == IF disk[i] = Absent THEN Empty ELSE disk[i]
         new == [at EXCEPT !.writes = @ + 1]
     IN /\ disk' = [disk EXCEPT ![i] = new]
        /\ open' = IF i \in Stores THEN [open EXCEPT ![i] = new] ELSE open
        /\ brand' = IF i = "branding" THEN new ELSE brand
  /\ wal' = IF i \in Stores THEN wal \cup {i} ELSE wal
  /\ before' = IF disk[i] = before[i] /\ ~Swapping(i) THEN [before EXCEPT ![i] = disk'[i]] ELSE before
  /\ UNCHANGED <<staged, aside, left, plan, moved, botched, shut, process, status, restores, troubles, late, unmerged>>

\* A process that starts takes what it finds, and makes what it misses.
BootServer ==
  /\ process = "down" /\ process' = "up"
  /\ disk' = [i \in Item |-> IF disk[i] = Absent THEN Empty ELSE disk[i]]
  /\ open' = [s \in Stores |-> disk'[s]] /\ brand' = disk'["branding"]
  /\ shut' = FALSE /\ status' = "idle" /\ botched' = FALSE
  /\ UNCHANGED <<wal, staged, aside, left, plan, moved, restores, troubles, late, before, unmerged>>

\* In good order, or cut: the copies of a restore that is cut stay where they are.
Halt(inOrder) ==
  /\ process # "down" /\ process' = "down"
  /\ inOrder => plan = {}
  /\ open' = [s \in Stores |-> Absent] /\ brand' = Absent
  /\ wal' = IF inOrder THEN {} ELSE wal
  /\ left' = [i \in Item |-> left[i] \cup ({aside[i]} \ {Absent})]
  /\ aside' = NoCopies /\ plan' = {} /\ moved' = {} /\ shut' = FALSE /\ late' = FALSE /\ status' = "idle"
  /\ UNCHANGED <<disk, staged, botched, restores, before, unmerged>>

HaltServer == Halt(TRUE) /\ UNCHANGED troubles
KillServer == Halt(FALSE) /\ troubles < MaxTroubles /\ troubles' = troubles + 1

-----------------------------------------------------------------------------
(* A restore *)

\* TriggerRestore or the command
BeginRestore(set) ==
  /\ restores < MaxRestores /\ restores' = restores + 1 /\ plan = {}
  /\ \/ process = "up" /\ status # "stuck" /\ process' = process /\ plan' = Live(set)
     \/ process = "down" /\ process' = "offline" /\ plan' = Offline(set)
  /\ staged' = set /\ status' = "running" /\ moved' = {} /\ botched' = FALSE
  /\ aside' = NoCopies /\ left' = [i \in Item |-> left[i] \cup ({aside[i]} \ {Absent})]
  /\ before' = disk /\ unmerged' = IF process = "down" THEN wal ELSE {}
  /\ UNCHANGED <<disk, wal, open, brand, shut, troubles, late>>

Inside == UNCHANGED <<staged, left, process, restores, troubles, late, before, unmerged>>
InMemory == Inside /\ UNCHANGED <<disk, wal, aside, moved, botched>>
InPlace == Inside /\ UNCHANGED <<moved, botched, open, brand, shut, status>>

\* extractAndValidate: a snapshot that is not whole, or not valid, changes nothing.
Validate ==
  /\ IsNext("validate")
  /\ Takes \/ plan' = Once("refused")
  /\ UNCHANGED <<disk, wal, staged, aside, left, moved, botched, open, brand, shut, process, status, restores, troubles, late, before, unmerged>>

\* Engage and WaitForDrain, which gives up after gateDrainTimeout
EngageGate ==
  /\ IsNext("engage") /\ Takes
  /\ shut' = TRUE /\ late' \in BOOLEAN
  /\ UNCHANGED <<disk, wal, staged, aside, left, moved, botched, open, brand, process, status, restores, troubles, before, unmerged>>

\* The last connection that is closed empties the WAL.
SuspendStore ==
  /\ IsNext("pause") \/ IsNext("suspend")
  /\ Takes
  /\ open' = [open EXCEPT ![Of] = Absent] /\ wal' = wal \ {Of}
  /\ Inside /\ UNCHANGED <<disk, aside, moved, botched, brand, shut, status>>

RemoveStaleWALSidecars ==
  /\ IsNext("wal") /\ Takes
  /\ wal' = wal \ {Of}
  /\ disk' = IF Of \in wal /\ disk[Of].writes > 0 THEN [disk EXCEPT ![Of].writes = @ - 1] ELSE disk
  /\ InPlace /\ UNCHANGED aside

MoveAside ==
  /\ IsNext("aside") /\ Takes
  /\ aside' = [aside EXCEPT ![Of] = disk[Of]] /\ disk' = [disk EXCEPT ![Of] = Absent]
  /\ moved' = moved \cup {Of}
  /\ Inside /\ UNCHANGED <<wal, botched, open, brand, shut, status>>

\* A rename replaces a file, but not the directory that a late request has made again.
InTheWay(i) == i = "root" /\ disk[i] # Absent

MoveIn ==
  /\ IsNext("in")
  /\ IF ~InTheWay(Of)
     THEN Takes /\ disk' = [disk EXCEPT ![Of] = [of |-> restores, writes |-> 0]]
     ELSE plan' = Rollback(moved) /\ UNCHANGED disk
  /\ InPlace /\ UNCHANGED <<wal, aside>>

\* ReplaceUserStore and the like open the file that is there.
ReplaceStore ==
  /\ IsNext("reopen") \/ IsNext("resync")
  /\ Takes
  /\ open' = [open EXCEPT ![Of] = disk[Of]]
  /\ InMemory /\ UNCHANGED <<brand, shut, status>>

ReloadBranding ==
  /\ IsNext("reload") /\ Takes
  /\ brand' = disk["branding"]
  /\ InMemory /\ UNCHANGED <<open, shut, status>>

\* A file that is not part of the snapshot
ReloadPublicAccess ==
  /\ IsNext("access") /\ Takes
  /\ InMemory /\ UNCHANGED <<open, brand, shut, status>>

CommitItem ==
  /\ IsNext("commit") /\ Takes
  /\ aside' = [aside EXCEPT ![Of] = Absent]
  /\ InPlace /\ UNCHANGED <<disk, wal>>

RemoveRestored ==
  /\ IsNext("remove") /\ Takes
  /\ disk' = [disk EXCEPT ![Of] = Absent]
  /\ InPlace /\ UNCHANGED <<wal, aside>>

MoveBack ==
  /\ IsNext("back") /\ Takes
  /\ IF aside[Of] = Absent THEN UNCHANGED <<disk, aside, botched>>
     ELSE IF InTheWay(Of) THEN botched' = TRUE /\ UNCHANGED <<disk, aside>>
     ELSE /\ disk' = [disk EXCEPT ![Of] = aside[Of]] /\ aside' = [aside EXCEPT ![Of] = Absent]
          /\ UNCHANGED botched
  /\ Inside /\ UNCHANGED <<wal, moved, open, brand, shut, status>>

\* FinishNeedsIntervention, where an item was not taken back or a store not reopened; the
\* command says so, too.
Judge ==
  /\ IsNext("weigh") \/ IsNext("judge")
  /\ IF ~botched THEN Takes /\ UNCHANGED <<status, process>>
     ELSE /\ plan' = {} /\ status' = "stuck"
          /\ process' = IF process = "offline" THEN "down" ELSE process
  /\ UNCHANGED <<disk, wal, staged, aside, left, moved, botched, open, brand, shut, restores, troubles, late, before, unmerged>>

DisengageGate ==
  /\ IsNext("admit") \/ IsNext("disengage")
  /\ Takes
  /\ shut' = FALSE
  /\ InMemory /\ UNCHANGED <<open, brand, status>>

FinishRestore ==
  /\ IsNext("restored") \/ IsNext("failed") \/ IsNext("refused")
  /\ plan' = {} /\ status' = ThisStep.do /\ moved' = {} /\ late' = FALSE
  /\ process' = IF process = "offline" THEN "down" ELSE process
  /\ UNCHANGED <<disk, wal, staged, aside, left, botched, open, brand, shut, restores, troubles, before, unmerged>>

-----------------------------------------------------------------------------
(* What fails *)

Begun == {"aside", "in", "reopen", "reload", "access"}
Trouble(do) == IsNext(do) /\ troubles < MaxTroubles /\ troubles' = troubles + 1

Unfinished == UNCHANGED <<disk, wal, staged, aside, left, moved, brand, shut, process, status, restores, late, before, unmerged>>

\* A store whose file could not be closed is suspended too.
FailBeforeSwap ==
  /\ Trouble("pause") \/ Trouble("wal")
  /\ plan' = IF process = "offline" THEN Once("refused") ELSE Recovery
  /\ open' = IF ThisStep.do = "pause" THEN [open EXCEPT ![Of] = Absent] ELSE open
  /\ Unfinished /\ UNCHANGED botched

FailSwapping ==
  /\ \E do \in Begun : Trouble(do)
  /\ plan' = Rollback(moved)
  /\ Unfinished /\ UNCHANGED <<open, botched>>

\* CommitAll and pauseAllStoresForRollback go on.
FailCleaning ==
  /\ Trouble("commit") \/ Trouble("suspend")
  /\ Takes
  /\ open' = IF ThisStep.do = "suspend" THEN [open EXCEPT ![Of] = Absent] ELSE open
  /\ Unfinished /\ UNCHANGED botched

\* The other items and stores are taken back all the same.
FailBack ==
  /\ Trouble("remove") \/ Trouble("back") \/ Trouble("resync")
  /\ plan' = IF ThisStep.do = "remove" THEN plan \ {ThisStep, On("back", Of)} ELSE plan \ {ThisStep}
  /\ botched' = TRUE
  /\ Unfinished /\ UNCHANGED open

-----------------------------------------------------------------------------
RestoreInit ==
  /\ \E bare \in SUBSET {"branding"} :
       disk = [i \in Item |-> IF i \in bare THEN Absent ELSE [of |-> 0, writes |-> 0]]
  /\ open = [s \in Stores |-> disk[s]] /\ brand = disk["branding"] /\ before = disk
  /\ wal = {} /\ staged = {} /\ aside = NoCopies /\ left = [i \in Item |-> {}] /\ plan = {}
  /\ moved = {} /\ botched = FALSE /\ shut = FALSE /\ process = "up" /\ status = "idle"
  /\ restores = 0 /\ troubles = 0 /\ late = FALSE /\ unmerged = {}

RestoreNext ==
  \/ \E i \in Writable : WriteItem(i)
  \/ BootServer \/ HaltServer \/ KillServer
  \/ \E set \in SUBSET Item : "users" \in set /\ BeginRestore(set)
  \/ Validate \/ EngageGate \/ SuspendStore \/ RemoveStaleWALSidecars \/ MoveAside \/ MoveIn \/ ReplaceStore
  \/ ReloadBranding \/ ReloadPublicAccess \/ CommitItem \/ RemoveRestored \/ MoveBack
  \/ Judge \/ DisengageGate \/ FinishRestore
  \/ FailBeforeSwap \/ FailSwapping \/ FailCleaning \/ FailBack

RestoreSpec == RestoreInit /\ [][RestoreNext]_restoreVars

-----------------------------------------------------------------------------
(* Properties *)

\* The content of an item before the restore; of a database that the command replaces, the
\* last write may be gone with its WAL.
IsOriginal(i, content) ==
  \/ content = before[i]
  \/ before[i] = Absent /\ content.of = -1
  \/ i \in unmerged \cap staged /\ content # Absent /\ content.of = before[i].of

\* A restore that ended well has replaced what the snapshot holds and nothing else; one that
\* failed has put every item back as it was, whatever step failed.  In both cases the gate is
\* open and every store has the file open that is on the disk.
RestoreIsWhole ==
  plan = {} /\ status \in {"restored", "failed", "refused"} =>
    /\ \A i \in Item : IF status = "restored" /\ i \in staged THEN disk[i].of = restores ELSE IsOriginal(i, disk[i])
    /\ process = "up" => ~shut /\ open = [s \in Stores |-> disk[s]]
    /\ process = "up" /\ status = "restored" => brand = disk["branding"]

\* Whatever fails, and wherever the process stops, the original of every item is in its place
\* or beside it until everything that replaces it has been put in place and opened.
OriginalsAreKept ==
  \A i \in Item :
    \/ \E content \in {disk[i], aside[i]} \cup left[i] : IsOriginal(i, content)
    \/ before[i] = Absent
    \/ \A j \in staged : disk[j].of = restores

\* offline.go:50 says "failed to swap restored files (rolled back, data directory untouched)".
\* Not so: the WAL of each database in the snapshot was removed before the first swap, and
\* after a crash the last writes are in there only.
FailureLeavesDataUntouched == process = "down" /\ status = "failed" => disk = before
=============================================================================
