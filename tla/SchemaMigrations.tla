--------------------------- MODULE SchemaMigrations ---------------------------
(***************************************************************************)
(* The schema of the database and the processes that depend on it, which   *)
(* may be of different releases: commands that migrate it, servers that    *)
(* check it when they start, backups, and restores, which replace it by    *)
(* that of the archive.                                                    *)
(*                                                                         *)
(* Only migrations take the advisory lock.  A backup reads the version,    *)
(* the dump and the fingerprint of the schema one after the other, and a   *)
(* restore compares them with the database before it loads the dump, so    *)
(* that a migration may come between any two of them.  A migration, the    *)
(* dump and the load are one transaction each.                             *)
(*                                                                         *)
(* The scripts that were applied are a set: versions are contiguous, which *)
(* loadMigrations and readApplied check.                                   *)
(***************************************************************************)
EXTENDS Integers, FiniteSets

CONSTANTS Process, Script, Version, Embedded, NoProcess

\* Level stands for the last version, as versions are contiguous.
Level(scripts) == {Version[s] : s \in scripts}

ASSUME MigrationsAssumption ==
  /\ Version \in [Script -> Nat] /\ Embedded \in [Process -> SUBSET Script]
  /\ \A p \in Process : \A s, r \in Embedded[p] : Version[s] = Version[r] => s = r
  /\ NoProcess \notin Process

NoSchema == [applied |-> {}, objects |-> {}]
NoArchive == [level |-> {}, dump |-> NoSchema, print |-> {}]

BackupOf(q) ==
  [level |-> Level(Embedded[q]), dump |-> [applied |-> Embedded[q], objects |-> Embedded[q]], print |-> Embedded[q]]

VARIABLES db,       \* the scripts in schema_migrations, and those whose objects there are
          advisory, \* the process that holds the lock of the migrations
          stage,    \* what each process does
          private,  \* the database as the transaction of a process has changed it
          draft,    \* the archive that a process is making
          archive,  \* the one that was published last
          overtaken \* observer: a migration was committed between the check and the load of a restore

schemaVars == <<db, advisory, stage, private, draft, archive, overtaken>>

Is(p, s) == stage[p] = s
Enters(p, s) == stage' = [stage EXCEPT ![p] = s]
AtRest == {"idle", "refused", "conflict"}
Pending(p) == Embedded[p] \ private[p].applied
Earliest(s, scripts) == s \in scripts /\ \A r \in scripts : Version[s] <= Version[r]

\* A transaction, and what the process has read or staged, ends.
EndsAs(p, s) ==
  /\ Enters(p, s)
  /\ advisory' = IF advisory = p THEN NoProcess ELSE advisory
  /\ private' = [private EXCEPT ![p] = NoSchema]
  /\ draft' = [draft EXCEPT ![p] = NoArchive]

-----------------------------------------------------------------------------
(* leafwiki database migrate *)

\* pg_advisory_xact_lock
LockMigrations(p) ==
  /\ stage[p] \in AtRest /\ advisory = NoProcess
  /\ advisory' = p /\ Enters(p, "read")
  /\ UNCHANGED <<db, private, draft, archive, overtaken>>

\* An older release, or one with another script of the same version, must leave it alone.
ReadApplied(p) ==
  /\ Is(p, "read")
  /\ IF db.applied \subseteq Embedded[p]
     THEN private' = [private EXCEPT ![p] = db] /\ Enters(p, "apply") /\ UNCHANGED <<advisory, draft>>
     ELSE EndsAs(p, "refused")
  /\ UNCHANGED <<db, archive, overtaken>>

\* A script fails when its objects are there; it waits for a transaction that is making them.
ApplyMigration(p) ==
  /\ Is(p, "apply")
  /\ \E s \in Pending(p) :
       /\ Earliest(s, Pending(p))
       /\ \A o \in Process \ {p} : Is(o, "apply") => s \notin private[o].objects \ db.objects
       /\ IF s \in db.objects
          THEN EndsAs(p, "conflict")
          ELSE /\ private' = [private EXCEPT ![p] = [applied |-> @.applied \cup {s}, objects |-> @.objects \cup {s}]]
               /\ UNCHANGED <<stage, advisory, draft>>
  /\ UNCHANGED <<db, archive, overtaken>>

\* Whether the process hears of it or not
CommitMigrations(p) ==
  /\ Is(p, "apply") /\ Pending(p) = {}
  /\ db' = private[p]
  /\ overtaken' = (overtaken \/ (db' # db /\ \E r \in Process : stage[r] \in {"compare", "load"}))
  /\ EndsAs(p, "idle")
  /\ UNCHANGED archive

\* A script fails, the time is over, or the process or its connection ends.
RollBackMigrations(p) ==
  /\ Is(p, "read") \/ Is(p, "apply")
  /\ EndsAs(p, "idle")
  /\ UNCHANGED <<db, archive, overtaken>>

-----------------------------------------------------------------------------
(* CheckSchema and what follows it *)

Ready(p) == db.applied = Embedded[p]

StartServing(p) ==
  /\ stage[p] \in AtRest
  /\ Enters(p, IF Ready(p) THEN "serve" ELSE "refused")
  /\ UNCHANGED <<db, advisory, private, draft, archive, overtaken>>

\* CreateBackup: the status, the dump and the fingerprint
StartBackup(p) ==
  /\ stage[p] \in AtRest
  /\ IF Ready(p)
     THEN Enters(p, "dump") /\ draft' = [draft EXCEPT ![p] = [NoArchive EXCEPT !.level = Level(db.applied)]]
     ELSE Enters(p, "refused") /\ UNCHANGED draft
  /\ UNCHANGED <<db, advisory, private, archive, overtaken>>

Dump(p) ==
  /\ Is(p, "dump") /\ Enters(p, "print")
  /\ draft' = [draft EXCEPT ![p].dump = db]
  /\ UNCHANGED <<db, advisory, private, archive, overtaken>>

PublishBackup(p) ==
  /\ Is(p, "print") /\ EndsAs(p, "idle")
  /\ archive' = [draft[p] EXCEPT !.print = db.applied]
  /\ UNCHANGED <<db, overtaken>>

\* RestoreBackup: the archive is staged, then CheckSchema and the version
StartRestore(p) ==
  /\ stage[p] \in AtRest
  /\ IF Ready(p) /\ archive.level = Level(Embedded[p])
     THEN Enters(p, "compare") /\ draft' = [draft EXCEPT ![p] = archive]
     ELSE Enters(p, "refused") /\ UNCHANGED draft
  /\ UNCHANGED <<db, advisory, private, archive, overtaken>>

\* Mutant: the version alone is compared.
TrustVersion(p) ==
  /\ Is(p, "compare") /\ Enters(p, "load")
  /\ UNCHANGED <<db, advisory, private, draft, archive, overtaken>>

CompareFingerprint(p) ==
  /\ Is(p, "compare")
  /\ IF draft[p].print = db.applied
     THEN Enters(p, "load") /\ UNCHANGED <<advisory, private, draft>>
     ELSE EndsAs(p, "refused")
  /\ UNCHANGED <<db, archive, overtaken>>

\* pg_restore --clean drops what the archive has, and leaves other objects.  It waits for a
\* transaction that has read schema_migrations.
LoadDump(p) ==
  /\ Is(p, "load") /\ \A m \in Process : ~Is(m, "apply")
  /\ db' = [applied |-> draft[p].dump.applied, objects |-> db.objects \cup draft[p].dump.objects]
  /\ Enters(p, "verify")
  /\ UNCHANGED <<advisory, private, draft, archive, overtaken>>

LoadFails(p) ==
  /\ Is(p, "load") /\ EndsAs(p, "stuck")
  /\ UNCHANGED <<db, archive, overtaken>>

VerifySchema(p) ==
  /\ Is(p, "verify")
  /\ EndsAs(p, IF Ready(p) THEN "idle" ELSE "stuck")
  /\ UNCHANGED <<db, archive, overtaken>>

\* A server is stopped, or an operator settles what a restore left; other commands end.
EndProcess(p) ==
  /\ stage[p] \in {"serve", "stuck", "dump", "print", "compare", "verify"} /\ EndsAs(p, "idle")
  /\ UNCHANGED <<db, archive, overtaken>>

-----------------------------------------------------------------------------
SchemaInit ==
  /\ db = NoSchema /\ advisory = NoProcess
  /\ stage = [p \in Process |-> "idle"]
  /\ private = [p \in Process |-> NoSchema] /\ draft = [p \in Process |-> NoArchive]
  /\ archive \in {NoArchive} \cup {BackupOf(q) : q \in Process}   \* of another database
  /\ overtaken = FALSE

SchemaStep(p) ==
  \/ LockMigrations(p) \/ ReadApplied(p) \/ ApplyMigration(p) \/ CommitMigrations(p) \/ RollBackMigrations(p)
  \/ StartServing(p) \/ StartBackup(p) \/ Dump(p) \/ PublishBackup(p)
  \/ StartRestore(p) \/ CompareFingerprint(p) \/ LoadDump(p) \/ LoadFails(p) \/ VerifySchema(p)
  \/ EndProcess(p)

SchemaNext == \E p \in Process : SchemaStep(p)

SchemaSpec == SchemaInit /\ [][SchemaNext]_schemaVars

-----------------------------------------------------------------------------
(* Properties *)

\* "A transaction-scoped lock serializes concurrent migrators": none of them finds the
\* objects of a script that the history does not name.  A server keeps the schema it checked,
\* and a restore loads the schema that is there: the version, the dump and the fingerprint of
\* an archive are of one schema whenever both are accepted, though they were read at different
\* moments.  Nothing keeps a migration from coming between the check and the load of a restore.
SchemasAgree ==
  ~overtaken =>
    /\ db.objects = db.applied
    /\ \A p \in Process :
         /\ ~Is(p, "conflict")
         /\ Is(p, "serve") => Embedded[p] \subseteq db.applied
         /\ Is(p, "verify") => Embedded[p] \subseteq db.applied
=============================================================================
