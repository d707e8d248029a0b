----------------------------- MODULE Maintenance -----------------------------
(***************************************************************************)
(* Backup and restore of a PostgreSQL instance around the write gate: the  *)
(* snapshot scheduler, CreateBackup, the restore manager and its job,      *)
(* RestoreBackup with its durable journal, crashes, and the start-up check *)
(* that refuses to serve over an unfinished transfer.                      *)
(*                                                                         *)
(* A document has a part on disk (an asset, an avatar, a logo) and a part  *)
(* in the database.  What they contain does not matter, only whether a     *)
(* part has changed since it was captured, and whether it is the part from *)
(* before the restore or the one from the archive.                         *)
(***************************************************************************)
EXTENDS WriteGate

CONSTANTS GatedDoc,          \* written by the handlers the gate counts
          ImportDoc,         \* written by the import goroutine, which it does not
          Admin,             \* administrators who may trigger a restore
          snapshot, restore  \* the two operations that call Freeze

ASSUME MaintenanceAssumption ==
  /\ Operation = {snapshot, restore}
  /\ snapshot # restore
  /\ GatedDoc \cap ImportDoc = {}
  /\ IsFiniteSet(GatedDoc \cup ImportDoc)

VARIABLES
  up,         \* the server process runs
  queued,     \* the scheduler's manual channel, of capacity one
  snap,       \* where the scheduler's goroutine is; IsRunning unless "idle"
  dirtyRows,  \* documents whose row changed since the dump
  dirtyFiles, \* documents whose file changed since the inventory, or since the
              \* restore wrote its journal
  job,        \* restore.Job: running, needsIntervention
  passed,     \* administrators whose trigger has read NeedsIntervention = false
  rest,       \* where the restore goroutine is
  pending,    \* the transfer journal exists
  swapped,    \* documents whose file is the archive's
  loaded      \* the database is the archive's

processVars == <<queued, snap, job, passed, rest>>
dirtyVars == <<dirtyRows, dirtyFiles>>
durableVars == <<pending, swapped, loaded>>
maintVars == <<gateVars, up, processVars, dirtyVars, durableVars>>

Doc == GatedDoc \cup ImportDoc

SnapStep == {"idle", "starting", "freezing", "dumping", "copying", "checking",
             "publishing", "releasing"}
RestStep == {"idle", "starting", "freezing", "staging", "swapping", "loading",
             "rebuilding", "reloading", "unjournaling", "releasing"}

MaintTypeOK ==
  /\ GateTypeOK
  /\ up \in BOOLEAN
  /\ queued \in BOOLEAN
  /\ snap \in SnapStep
  /\ dirtyRows \subseteq Doc /\ dirtyFiles \subseteq Doc
  /\ job \in [running : BOOLEAN, needs : BOOLEAN]
  /\ passed \subseteq Admin
  /\ rest \in RestStep
  /\ pending \in BOOLEAN
  /\ swapped \subseteq Doc
  /\ loaded \in BOOLEAN

NoJob == [running |-> FALSE, needs |-> FALSE]

\* NewScheduler puts a first trigger in its channel.
ProcessInit == queued = TRUE /\ snap = "idle" /\ job = NoJob /\ passed = {} /\ rest = "idle"

MaintInit ==
  /\ GateInit
  /\ up = TRUE
  /\ ProcessInit
  /\ dirtyRows = {} /\ dirtyFiles = {}
  /\ pending = FALSE /\ swapped = {} /\ loaded = FALSE

-----------------------------------------------------------------------------
(* Writers *)

RequestEnters(r) == up /\ TryEnter(r) /\ UNCHANGED <<up, processVars, dirtyVars, durableVars>>
RequestLeaves(r) == up /\ Leave(r) /\ UNCHANGED <<up, processVars, dirtyVars, durableVars>>

\* A handler replaces the file of a document, or commits its row.
Write(d) ==
  /\ \/ dirtyFiles' = dirtyFiles \cup {d} /\ UNCHANGED dirtyRows
     \/ dirtyRows' = dirtyRows \cup {d} /\ UNCHANGED dirtyFiles
  /\ UNCHANGED <<gateVars, up, processVars, durableVars>>

HandlerWrites(r, d) == up /\ r \in ActiveRequests /\ d \in GatedDoc /\ Write(d)

\* executeStoredPlan's goroutine outlives the request that started it.
ImportWrites(d) == up /\ d \in ImportDoc /\ Write(d)

-----------------------------------------------------------------------------
(* Freeze, called by both *)

InFreeze(o) == CheckEngaged(o) \/ Engage(o) \/ Drained(o) \/ GiveUp(o) \/ Unlock(o)

FreezeRuns(o) == up /\ InFreeze(o) /\ UNCHANGED <<up, processVars, dirtyVars, durableVars>>

-----------------------------------------------------------------------------
(* The snapshot scheduler and CreateBackup *)

SnapGoes(from, to) == up /\ snap = from /\ snap' = to

SnapOnly == UNCHANGED <<gateVars, up, queued, job, passed, rest, durableVars>>

TriggerNow ==
  /\ up /\ ~queued
  /\ queued' = TRUE
  /\ UNCHANGED <<gateVars, up, snap, job, passed, rest, dirtyVars, durableVars>>

\* The select of Scheduler.run takes a manual trigger or a tick.
TakeManual ==
  /\ queued /\ SnapGoes("idle", "starting")
  /\ queued' = FALSE
  /\ UNCHANGED <<gateVars, up, job, passed, rest, dirtyVars, durableVars>>

TakeTick == SnapGoes("idle", "starting") /\ SnapOnly /\ UNCHANGED dirtyVars

\* operation.TryLock inside Freeze.  When it fails, so does the run.
SnapLocks ==
  /\ SnapGoes("starting", "freezing") /\ TryLock(snapshot)
  /\ UNCHANGED <<up, queued, job, passed, rest, dirtyVars, durableVars>>

SnapLockBusy ==
  /\ holder # NoOp
  /\ SnapGoes("starting", "idle") /\ SnapOnly /\ UNCHANGED dirtyVars

\* Mutant: a Freeze that failed leaves IsRunning set.
SnapEndsOnRelease ==
  /\ freeze[snapshot] = "idle"
  /\ SnapGoes("releasing", "idle")
  /\ SnapOnly /\ UNCHANGED dirtyVars

\* Freeze returned an error, or release() returned.
SnapEnds ==
  /\ freeze[snapshot] = "idle"
  /\ SnapGoes("freezing", "idle") \/ SnapGoes("releasing", "idle")
  /\ SnapOnly /\ UNCHANGED dirtyVars

\* CheckPending, then pg_dump takes its database snapshot.
Dump ==
  /\ freeze[snapshot] = "frozen" /\ ~pending
  /\ SnapGoes("freezing", "dumping")
  /\ dirtyRows' = {}
  /\ SnapOnly /\ UNCHANGED dirtyFiles

\* persistentInventory, whose files are then copied.
TakeInventory ==
  /\ SnapGoes("dumping", "copying")
  /\ dirtyFiles' = {}
  /\ SnapOnly /\ UNCHANGED dirtyRows

CopyFiles == SnapGoes("copying", "checking") /\ SnapOnly /\ UNCHANGED dirtyVars

\* The second inventory must be equal to the first.
CheckInventory ==
  /\ dirtyFiles = {}
  /\ SnapGoes("checking", "publishing") /\ SnapOnly /\ UNCHANGED dirtyVars

\* os.Link publishes the archive, and the deferred release runs; so it does
\* when a step failed or panicked.
SnapReleases ==
  /\ snap \in {"freezing", "dumping", "copying", "checking", "publishing"}
  /\ SnapGoes(snap, "releasing") /\ Release(snapshot)
  /\ UNCHANGED <<up, queued, job, passed, rest, dirtyVars, durableVars>>

-----------------------------------------------------------------------------
(* The restore manager and its job *)

RestGoes(from, to) == up /\ rest = from /\ rest' = to

RestOnly == UNCHANGED <<gateVars, up, queued, snap, passed, dirtyRows>>

\* TriggerRestore: Status().NeedsIntervention is read under the job's lock ...
PassCheck(a) ==
  /\ up /\ a \notin passed /\ ~job.needs
  /\ passed' = passed \cup {a}
  /\ UNCHANGED <<gateVars, up, queued, snap, job, rest, dirtyVars, durableVars>>

\* ... which Start takes again.  It resets the flag, or refuses while running.
Start(a) ==
  /\ up /\ a \in passed
  /\ passed' = passed \ {a}
  /\ IF job.running
       THEN UNCHANGED <<job, rest>>
       ELSE rest' = "starting" /\ job' = [running |-> TRUE, needs |-> FALSE]
  /\ UNCHANGED <<gateVars, up, queued, snap, dirtyVars, durableVars>>

RestLocks ==
  /\ RestGoes("starting", "freezing") /\ TryLock(restore)
  /\ UNCHANGED <<up, queued, snap, job, passed, dirtyVars, durableVars>>

Finish == job' = [job EXCEPT !.running = FALSE]
FinishNeedsIntervention == job' = [running |-> FALSE, needs |-> TRUE]

\* Mutant: the early return forgets the job.
RestLockBusyUnfinished ==
  /\ holder # NoOp
  /\ RestGoes("starting", "idle")
  /\ RestOnly /\ UNCHANGED <<job, dirtyFiles, durableVars>>

RestLockBusy ==
  /\ holder # NoOp
  /\ RestGoes("starting", "idle") /\ Finish
  /\ RestOnly /\ UNCHANGED <<dirtyFiles, durableVars>>

RestEnds ==
  /\ freeze[restore] = "idle"
  /\ RestGoes("freezing", "idle") \/ RestGoes("releasing", "idle")
  /\ Finish
  /\ RestOnly /\ UNCHANGED <<dirtyFiles, durableVars>>

-----------------------------------------------------------------------------
(* RestoreBackup *)

\* CheckPending, StageBackup, the schema and archive checks.
Stage ==
  /\ freeze[restore] = "frozen" /\ ~pending
  /\ RestGoes("freezing", "staging")
  /\ RestOnly /\ UNCHANGED <<job, dirtyFiles, durableVars>>

\* Mutant: the files are swapped first and the journal is written after.
JournalAfterSwap ==
  /\ RestGoes("staging", "loading")
  /\ swapped' = Doc /\ loaded' = FALSE
  /\ dirtyFiles' = {}
  /\ RestOnly /\ UNCHANGED <<job, pending>>

\* writeExclusive of the journal, before the first rename.
WriteJournal ==
  /\ RestGoes("staging", "swapping")
  /\ pending' = TRUE /\ swapped' = {} /\ loaded' = FALSE
  /\ dirtyFiles' = {}
  /\ RestOnly /\ UNCHANGED job

\* Current to previous-files, then incoming to current.
SwapFile(d) ==
  /\ up /\ rest = "swapping" /\ d \notin swapped
  /\ swapped' = swapped \cup {d}
  /\ RestOnly /\ UNCHANGED <<rest, job, dirtyFiles, pending, loaded>>

SwapDone ==
  /\ swapped = Doc
  /\ RestGoes("swapping", "loading")
  /\ RestOnly /\ UNCHANGED <<job, dirtyFiles, durableVars>>

\* pg_restore --single-transaction commits.
Load ==
  /\ RestGoes("loading", "rebuilding")
  /\ loaded' = TRUE
  /\ RestOnly /\ UNCHANGED <<job, dirtyFiles, pending, swapped>>

Rebuild ==
  /\ RestGoes("rebuilding", "reloading") \/ RestGoes("reloading", "unjournaling")
  /\ RestOnly /\ UNCHANGED <<job, dirtyFiles, durableVars>>

\* The journal is removed last; RestoreBackup returns nil and runPostgres
\* calls release().
RemoveJournal ==
  /\ RestGoes("unjournaling", "releasing") /\ Release(restore)
  /\ pending' = FALSE
  /\ UNCHANGED <<up, queued, snap, job, passed, dirtyVars, swapped, loaded>>

\* An error while the journal is absent: release, then Finish(err).
FailClean ==
  /\ ~pending /\ rest \in {"freezing", "staging"}
  /\ RestGoes(rest, "releasing") /\ Release(restore)
  /\ UNCHANGED <<up, queued, snap, job, passed, dirtyVars, durableVars>>

\* An error while CheckPending reports the journal, or a panic: nothing is
\* released.  Whether a pg_restore that failed has committed is not known.
FailStuck ==
  /\ freeze[restore] = "frozen"
  /\ rest \in RestStep \ {"idle", "starting", "releasing"}
  /\ RestGoes(rest, "idle") /\ FinishNeedsIntervention
  /\ loaded' \in IF rest = "loading" THEN BOOLEAN ELSE {loaded}
  /\ RestOnly /\ UNCHANGED <<dirtyFiles, pending, swapped>>

-----------------------------------------------------------------------------
(* The process *)

\* A crash, or SelfRestart, which needs NeedsIntervention.  A pg_restore
\* child that is running may still commit.
Stop ==
  /\ up /\ up' = FALSE
  /\ loaded' \in IF rest = "loading" THEN BOOLEAN ELSE {loaded}
  /\ holder' = NoOp /\ engaged' = FALSE /\ inflight' = 0
  /\ request' = [r \in Request |-> "out"]
  /\ freeze' = [o \in Operation |-> "idle"]
  /\ queued' = TRUE /\ snap' = "idle" /\ job' = NoJob /\ passed' = {} /\ rest' = "idle"
  /\ dirtyRows' = {} /\ dirtyFiles' = {}
  /\ UNCHANGED <<pending, swapped>>

Crash == Stop

SelfRestart == job.needs /\ Stop

\* runServerCommand: CheckPending comes first.
Boot ==
  /\ ~up /\ ~pending
  /\ up' = TRUE
  /\ UNCHANGED <<gateVars, processVars, dirtyVars, durableVars>>

\* With the application stopped, an operator inspects the journal, brings
\* both stores to one version and removes it.
OperatorRecovers ==
  /\ ~up /\ pending
  /\ pending' = FALSE
  /\ \/ swapped' = {} /\ loaded' = FALSE
     \/ swapped' = Doc /\ loaded' = TRUE
  /\ UNCHANGED <<gateVars, up, processVars, dirtyVars>>

-----------------------------------------------------------------------------
SnapRuns ==
  \/ SnapLocks \/ SnapLockBusy \/ SnapEnds \/ Dump \/ TakeInventory \/ CopyFiles
  \/ CheckInventory \/ SnapReleases

RestRuns ==
  \/ RestLocks \/ RestLockBusy \/ RestEnds \/ Stage \/ WriteJournal \/ SwapDone
  \/ Load \/ Rebuild \/ RemoveJournal \/ FailClean \/ FailStuck
  \/ \E d \in Doc : SwapFile(d)

WriterStep ==
  \/ \E r \in Gated : RequestEnters(r) \/ RequestLeaves(r)
  \/ \E r \in Gated, d \in Doc : HandlerWrites(r, d)
  \/ \E d \in Doc : ImportWrites(d)

MaintNext ==
  \/ WriterStep
  \/ \E o \in Operation : FreezeRuns(o)
  \/ TriggerNow \/ TakeManual \/ TakeTick \/ SnapRuns
  \/ \E a \in Admin : PassCheck(a) \/ Start(a)
  \/ RestRuns
  \/ Crash \/ SelfRestart \/ Boot \/ OperatorRecovers

\* The goroutines that were started keep running, every call they make to
\* the PostgreSQL clients returns, and a stopped server is started again.
\* A select with both channels ready picks at random, so a manual trigger is
\* not passed over for ever.  Requests may never leave, and nobody has to
\* trigger anything.
MaintFairness ==
  /\ WF_maintVars(SnapRuns) /\ WF_maintVars(RestRuns) /\ SF_maintVars(TakeManual)
  /\ \A o \in Operation : WF_maintVars(FreezeRuns(o))
  /\ WF_maintVars(Boot)

MaintSpec == MaintInit /\ [][MaintNext]_maintVars /\ MaintFairness

-----------------------------------------------------------------------------
(* Properties *)

\* A backup is a cut: when the archive is published, every document that
\* requests write is, on disk and in the database, exactly as pg_dump and the
\* file copy captured it, although the two ran at different times.
BackupIsCut ==
  snap = "publishing" => GatedDoc \cap (dirtyRows \cup dirtyFiles) = {}

\* Files of one version stand beside a database of the other.
Mixed ==
  /\ ~(swapped = {} /\ ~loaded)
  /\ ~(swapped = Doc /\ loaded)

\* Whatever fails and wherever the server crashes, a mixed data directory is
\* behind the journal that makes the next start refuse.
JournalCoversMix == Mixed => pending

\* No request writes to mixed data: as long as the process that mixed it
\* runs, the gate is shut, the restore holds the operation mutex and no gated
\* handler is inside, also after the restore has given up and after later
\* triggers that were refused.
MixIsQuiet ==
  Mixed /\ up => /\ engaged /\ holder = restore /\ freeze[restore] = "frozen"
                 /\ ActiveRequests = {}

\* Half-restored data is guarded: on the disk by the journal, whatever fails and wherever the
\* server crashes, and in the process that left it by the gate.
MixIsGuarded == JournalCoversMix /\ MixIsQuiet

\* A request's file never lands in a directory that is about to be renamed
\* away, where the restore would lose it.
NoLostUpload == rest = "swapping" => GatedDoc \cap dirtyFiles = {}

\* A restore that started ends: as success, as error, or stuck.
RestoreEnds == job.running ~> ~job.running

\* A snapshot that was asked for is attempted, unless the server goes down.
TriggerIsTaken == queued ~> (~queued \/ ~up)

(* What the code promises and does not keep *)

\* TriggerRestore refuses to start over a restore that needs intervention, so
\* the stuck gate is always reported, and self-restart allowed.
StuckIsReported ==
  freeze[restore] = "frozen" /\ ~job.running => job.needs
=============================================================================
