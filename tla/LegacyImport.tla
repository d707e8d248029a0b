---------------------------- MODULE LegacyImport ----------------------------
(***************************************************************************)
(* The import of a workspace of files into an empty database and an empty  *)
(* directory, the start of a server on what it left, and a second import   *)
(* that runs at the same time or later.                                    *)
(*                                                                         *)
(* Nothing stops the owner of the workspace from using it meanwhile: it    *)
(* has two parts, its pages, accounts and settings (data) and its          *)
(* attachments (files), and each edit makes a new version of one of them.  *)
(* An inventory reads them one after the other.  Any step may fail, also   *)
(* because of the time limit of the command, the process may be killed,    *)
(* and the outcome of the commit may stay unknown.                         *)
(***************************************************************************)
EXTENDS Integers, Sequences, FiniteSets

CONSTANTS Importer, MaxEdits, MaxMishaps, Nobody

ASSUME LegacyImportAssumption ==
  /\ {MaxEdits, MaxMishaps} \subseteq Nat
  /\ {Nobody, "server"} \cap Importer = {} /\ Nobody # "server"

VARIABLES source,   \* the version of each part
          moments,  \* observer: what the workspace was at each moment
          pc,       \* the step an importer is at
          report,   \* the hash that an importer reports
          scan,     \* the inventory it is making or has made
          read,     \* what it has taken: rows, settings, files
          outcome,  \* what the command said in the end
          locked,   \* whose transaction holds the tables
          database, \* the rows, settings and indexes that are committed, and by whom
          dir,      \* the target directory: the journal, the receipt, the version of the files in it
                    \* (-1: none, -2: half copied), and whether a server has used it
          server,
          mishaps

legacyVars == <<source, moments, pc, report, scan, read, outcome, locked, database, dir, server, mishaps>>

Versions == 0..MaxEdits
EmptyBase == [by |-> Nobody, rows |-> -1, settings |-> -1, derived |-> FALSE]
EmptyDir == [used |-> FALSE, files |-> -1, journal |-> FALSE, receipt |-> FALSE]
Private == <<report, scan, read>>
World == <<source, moments, database, dir, locked, server, mishaps>>

At(i, step) == pc[i] = step
To(i, step) == pc' = [pc EXCEPT ![i] = step]
Set(f, i, field, v) == [f EXCEPT ![i] = [@ EXCEPT ![field] = v]]
Ends(i, how) == pc' = [pc EXCEPT ![i] = "end"] /\ outcome' = [outcome EXCEPT ![i] = how]

\* A command that is repeated starts over; only that it was run matters.
Running(i) == pc[i] \notin {"idle", "end"}

-----------------------------------------------------------------------------
(* The workspace *)

Edit ==
  /\ Cardinality(moments) <= MaxEdits
  /\ \E part \in {"data", "files"} : source' = [source EXCEPT ![part] = @ + 1]
  /\ moments' = moments \cup {source'}
  /\ UNCHANGED <<pc, outcome, database, dir, locked, server, mishaps>> /\ UNCHANGED Private

\* Inventory, with the steps it is made at, the step between its parts and the one that follows
Inventories == [first |-> "inspect", inspect |-> "preflight", list |-> "readRows",
                after |-> "begin", final |-> "commit"]
Halfway == [first |-> "dataFirst", inspect |-> "dataInspect", list |-> "dataList",
            after |-> "dataAfter", final |-> "dataFinal"]
Scans(i, step) == At(i, step) /\ UNCHANGED <<outcome, report, read>> /\ UNCHANGED World

InventoryFiles(i) ==
  /\ \E step \in DOMAIN Inventories : Scans(i, step) /\ To(i, Halfway[step])
  /\ scan' = Set(scan, i, "files", source.files)

\* SourceHash is the hash of the first; the inspection, the plan and the copy are void when a
\* later one differs.
SameSizes(i) == report[i].files = scan[i].files    \* Mutant: only the attachments count
Same(i) == report[i] = [scan[i] EXCEPT !.data = source.data]

InventoryData(i) ==
  \E step \in DOMAIN Inventories :
    /\ At(i, Halfway[step])
    /\ LET hash == [scan[i] EXCEPT !.data = source.data] IN
       /\ scan' = [scan EXCEPT ![i] = hash]
       /\ report' = IF step = "first" THEN [report EXCEPT ![i] = hash] ELSE report
    /\ IF step \in {"first", "list"} \/ Same(i)
       THEN To(i, Inventories[step]) /\ UNCHANGED <<outcome, locked>>
       ELSE IF step = "final" THEN To(i, "cleanFiles") /\ locked' = Nobody /\ UNCHANGED outcome
            ELSE Ends(i, "refused") /\ UNCHANGED locked
    /\ UNCHANGED <<source, moments, database, dir, server, mishaps, read>>

-----------------------------------------------------------------------------
(* ImportLegacy *)

\* Both applications are to be stopped; only that of the target is.
StartImport(i) ==
  /\ At(i, "idle") /\ server = "down"
  /\ To(i, "first") /\ UNCHANGED <<outcome, World>> /\ UNCHANGED Private

\* CheckSchema, CheckPending, the receipt, and a target that must be empty
Preflight(i) ==
  /\ At(i, "preflight")
  /\ IF dir.journal \/ dir.receipt \/ dir.files # -1 \/ dir.used
     THEN Ends(i, "refused") ELSE To(i, "list") /\ UNCHANGED outcome
  /\ UNCHANGED World /\ UNCHANGED Private

\* inspectPages, inspectRevisions, readAuth
ReadRows(i) ==
  /\ At(i, "readRows")
  /\ read' = Set(read, i, "rows", source.data)
  /\ To(i, "after") /\ UNCHANGED <<outcome, report, scan>> /\ UNCHANGED World

\* lockAndCheckEmpty waits for every other transaction on the tables.
LockAndCheckEmpty(i) ==
  /\ At(i, "begin") /\ locked = Nobody
  /\ IF database.by = Nobody
     THEN locked' = i /\ To(i, "insert") /\ UNCHANGED outcome
     ELSE Ends(i, "refused") /\ UNCHANGED locked
  /\ UNCHANGED <<source, moments, database, dir, server, mishaps>> /\ UNCHANGED Private

\* The settings are read only now.
Insert(i) ==
  /\ At(i, "insert")
  /\ read' = Set(read, i, "settings", source.data)
  /\ \/ To(i, "journal") /\ UNCHANGED <<outcome, locked>>
     \/ Ends(i, "dry run") /\ locked' = Nobody
  /\ UNCHANGED <<source, moments, database, dir, server, mishaps, report, scan>>

\* writeExclusive: a journal of another import is an error, and none of its files are removed.
WriteJournal(i) ==
  /\ At(i, "journal")
  /\ IF dir.journal
     THEN /\ locked' = Nobody /\ Ends(i, "rolled back") /\ UNCHANGED dir
     ELSE /\ dir' = [dir EXCEPT !.journal = TRUE]
          /\ To(i, "copy") /\ UNCHANGED <<locked, outcome>>
  /\ UNCHANGED <<source, moments, database, server, mishaps>> /\ UNCHANGED Private

\* copyRegular
CopyFiles(i) ==
  /\ At(i, "copy")
  /\ read' = Set(read, i, "files", source.files)
  /\ dir' = [dir EXCEPT !.files = source.files]
  /\ To(i, "final")
  /\ UNCHANGED <<outcome, source, moments, database, locked, server, mishaps, report, scan>>

Committed(i) == [by |-> i, rows |-> read[i].rows, settings |-> read[i].settings, derived |-> FALSE]

Commit(i) ==
  /\ At(i, "commit")
  /\ database' = Committed(i) /\ locked' = Nobody
  /\ To(i, "receipt")
  /\ UNCHANGED <<outcome, source, moments, dir, server, mishaps>> /\ UNCHANGED Private

WriteReceipt(i) ==
  /\ At(i, "receipt")
  /\ dir' = [dir EXCEPT !.receipt = TRUE]
  /\ To(i, "rebuild")
  /\ UNCHANGED <<outcome, source, moments, database, locked, server, mishaps>> /\ UNCHANGED Private

\* RebuildDerived is several transactions.
RebuildDerived(i) ==
  /\ At(i, "rebuild") /\ locked = Nobody
  /\ database' = [database EXCEPT !.derived = TRUE]
  /\ To(i, "close")
  /\ UNCHANGED <<outcome, source, moments, dir, locked, server, mishaps>> /\ UNCHANGED Private

RemoveJournal(i) ==
  /\ At(i, "close")
  /\ dir' = [dir EXCEPT !.journal = FALSE]
  /\ Ends(i, "committed")
  /\ UNCHANGED <<source, moments, database, locked, server, mishaps>> /\ UNCHANGED Private

-----------------------------------------------------------------------------
(* What a failure leaves *)

\* Mutant: the journal goes first, and with it the only sign of what is left.
CleanJournalFirst(i) ==
  /\ At(i, "cleanFiles")
  /\ dir' = [dir EXCEPT !.journal = FALSE]
  /\ To(i, "cleanJournal")
  /\ UNCHANGED <<outcome, source, moments, database, locked, server, mishaps>> /\ UNCHANGED Private

CleanFiles(i) ==
  /\ At(i, "cleanFiles")
  /\ dir' = [dir EXCEPT !.files = -1]
  /\ To(i, "cleanJournal")
  /\ UNCHANGED <<outcome, source, moments, database, locked, server, mishaps>> /\ UNCHANGED Private

CleanJournal(i) ==
  /\ At(i, "cleanJournal")
  /\ dir' = [dir EXCEPT !.journal = FALSE]
  /\ Ends(i, "rolled back")
  /\ UNCHANGED <<source, moments, database, locked, server, mishaps>> /\ UNCHANGED Private

InTransaction == {"insert", "journal", "copy", "final", "dataFinal", "commit"}
Loses(i) == IF locked = i THEN Nobody ELSE locked

\* Before the journal there is nothing to clean; a journal that was only half written stays.
FailEarly(i) ==
  /\ Running(i) /\ pc[i] \notin {"copy", "final", "dataFinal", "commit", "receipt", "rebuild", "close", "cleanFiles", "cleanJournal"}
  /\ locked' = Loses(i)
  /\ Ends(i, IF pc[i] \in InTransaction THEN "rolled back" ELSE "refused")
  /\ \/ UNCHANGED dir
     \/ At(i, "journal") /\ ~dir.journal /\ dir' = [dir EXCEPT !.journal = TRUE]
  /\ UNCHANGED database

\* A copy may fail half way, and is cleaned up.
FailCopying(i) ==
  /\ pc[i] \in {"copy", "final", "dataFinal"}
  /\ locked' = Nobody
  /\ dir' \in {dir, [dir EXCEPT !.files = IF At(i, "copy") THEN -2 ELSE @]}
  /\ To(i, "cleanFiles") /\ UNCHANGED <<outcome, database>>

\* Whether the commit was done is not known: the journal is kept.
FailCommit(i) ==
  /\ At(i, "commit")
  /\ locked' = Nobody /\ database' \in {database, Committed(i)}
  /\ Ends(i, "unknown") /\ UNCHANGED dir

\* So it is when the receipt, the indexes or the clean-up fails.
FailLate(i) ==
  /\ pc[i] \in {"receipt", "rebuild", "close", "cleanFiles", "cleanJournal"}
  /\ Ends(i, IF pc[i] \in {"cleanFiles", "cleanJournal"} THEN "rolled back" ELSE "committed")
  /\ UNCHANGED <<dir, database, locked>>

FailImport(i) ==
  /\ mishaps < MaxMishaps /\ mishaps' = mishaps + 1
  /\ FailEarly(i) \/ FailCopying(i) \/ FailCommit(i) \/ FailLate(i)
  /\ UNCHANGED <<source, moments, server>> /\ UNCHANGED Private

\* The process is killed: the database ends its transaction.
Kill(i) ==
  /\ Running(i) /\ mishaps < MaxMishaps /\ mishaps' = mishaps + 1
  /\ locked' = Loses(i)
  /\ database' \in {database} \cup (IF At(i, "commit") THEN {Committed(i)} ELSE {})
  /\ dir' \in {dir} \cup (IF At(i, "copy") THEN {[dir EXCEPT !.files = -2]} ELSE {})
  /\ Ends(i, "killed")
  /\ UNCHANGED <<source, moments, server>> /\ UNCHANGED Private

-----------------------------------------------------------------------------
(* The server on the target *)

\* runServerCommand: CheckPending, then NewWiki, which makes an account where there is none.
StartServer ==
  /\ server = "down" /\ \A i \in Importer : ~Running(i)
  /\ ~dir.journal
  /\ server' = "up"
  /\ database' = IF database.by = Nobody THEN [database EXCEPT !.by = "server", !.derived = TRUE] ELSE database
  /\ dir' = [dir EXCEPT !.used = TRUE]
  /\ UNCHANGED <<source, moments, pc, outcome, locked, mishaps>> /\ UNCHANGED Private

StopServer ==
  /\ server = "up" /\ server' = "down"
  /\ UNCHANGED <<source, moments, pc, outcome, locked, database, dir, mishaps>> /\ UNCHANGED Private

-----------------------------------------------------------------------------
LegacyInit ==
  /\ source = [data |-> 0, files |-> 0] /\ moments = {source}
  /\ pc = [i \in Importer |-> "idle"] /\ outcome = [i \in Importer |-> "none"]
  /\ report = [i \in Importer |-> source] /\ scan = report
  /\ read = [i \in Importer |-> [rows |-> -1, settings |-> -1, files |-> -1]]
  /\ locked = Nobody /\ database = EmptyBase /\ dir = EmptyDir
  /\ server = "down" /\ mishaps = 0

ImportSteps(i) ==
  \/ StartImport(i) \/ InventoryFiles(i) \/ InventoryData(i) \/ Preflight(i) \/ ReadRows(i)
  \/ LockAndCheckEmpty(i) \/ Insert(i) \/ WriteJournal(i) \/ CopyFiles(i) \/ Commit(i)
  \/ WriteReceipt(i) \/ RebuildDerived(i) \/ RemoveJournal(i)
  \/ CleanFiles(i) \/ CleanJournal(i) \/ FailImport(i) \/ Kill(i)

LegacyNext == Edit \/ StartServer \/ StopServer \/ \E i \in Importer : ImportSteps(i)

LegacySpec == LegacyInit /\ [][LegacyNext]_legacyVars

-----------------------------------------------------------------------------
(* Properties *)

\* What a server serves is its own, with no file of an import, or it is the workspace as it
\* was at one moment: pages, accounts, settings and attachments together, with the indexes
\* that belong to them.
ImportIsWhole ==
  server = "up" =>
    IF database.by \in Importer
    THEN /\ [data |-> database.rows, files |-> dir.files] \in moments
         /\ database.settings = database.rows /\ database.derived /\ dir.receipt
    ELSE dir.files = -1 /\ ~dir.receipt

\* What the command says is true, though two of them run at once: an import that was refused
\* or rolled back is not in the database and its files are not in the directory, unless the
\* journal says so; one that was reported as done is there, and nobody else's.
ReportsAreTrue ==
  /\ dir.files # -1 /\ ~dir.journal => database.by \in Importer /\ dir.files >= 0
  /\ \A i \in Importer :
       /\ outcome[i] \in {"refused", "rolled back", "dry run"} => database.by # i
       /\ outcome[i] = "committed" => database.by = i /\ dir.files = read[i].files
=============================================================================
