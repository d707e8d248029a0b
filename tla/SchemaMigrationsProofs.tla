------------------------ MODULE SchemaMigrationsProofs ------------------------
(***************************************************************************)
(* The schema and the processes that depend on it, for any number of       *)
(* processes and any releases.                                             *)
(*                                                                         *)
(* The argument has two parts.  The history of the migrations only grows   *)
(* (until a restore is overtaken), so what a server has checked remains    *)
(* true, and the version, the dump and the fingerprint of an archive, read *)
(* in this order, are each contained in the next.  When a restore finds    *)
(* the first and the last equal to the schema that is there, the dump      *)
(* between them is equal to it too.                                        *)
(*                                                                         *)
(* The other command that works on a database by itself is the import of a *)
(* legacy workspace, for any number of importers, edits and mishaps.  The  *)
(* tables belong to the importer in its transaction, the directory to the  *)
(* one that made the journal, and no importer is in either after one has   *)
(* committed.  All that an importer takes lies between the inventory that  *)
(* it reports and the last one, in time; when these agree, nothing changed *)
(* in between, and what was taken is the workspace at one moment.          *)
(*                                                                         *)
(* What an importer reads of a page is its history in files.  The last part *)
(* is about the store that writes it: directory and index differ only by   *)
(* what the thread at work is about to do, unless something failed, was cut *)
(* or interfered, and a reader that puts back the index it loaded is seen to *)
(* interfere.                                                              *)
(***************************************************************************)
EXTENDS FiniteSetTheorems, FileHistory, SchemaMigrations, LegacyImport, TLAPS

Stage == {"idle", "refused", "conflict", "read", "apply", "serve", "dump", "print",
          "compare", "load", "verify", "stuck"}
Schema == [applied : SUBSET Script, objects : SUBSET Script]
Archive == [level : SUBSET Nat, dump : Schema, print : SUBSET Script]

SchemaTypeOK ==
  /\ db \in Schema /\ advisory \in Process \cup {NoProcess} /\ stage \in [Process -> Stage]
  /\ private \in [Process -> Schema] /\ draft \in [Process -> Archive] /\ archive \in Archive
  /\ overtaken \in BOOLEAN

\* A schema whose history names the objects that are there
Sound(schema) == schema.objects = schema.applied

\* The parts of an archive were read in this order from a history that grew.
InOrder(a) ==
  /\ Sound(a.dump) /\ a.dump.applied \subseteq a.print
  /\ \E scripts \in SUBSET a.dump.applied : a.level = Level(scripts)

\* What a process knows of the database at each point
Known(p) ==
  /\ ~Is(p, "conflict")
  /\ stage[p] \in {"read", "apply"} => advisory = p
  /\ Is(p, "apply") =>
       /\ Sound(private[p])
       /\ db.applied \subseteq private[p].applied /\ private[p].applied \subseteq Embedded[p]
  /\ stage[p] \in {"serve", "verify"} => Embedded[p] \subseteq db.applied
  /\ Is(p, "dump") => \E scripts \in SUBSET db.applied : draft[p].level = Level(scripts)
  /\ Is(p, "print") => InOrder([draft[p] EXCEPT !.print = db.applied])
  /\ stage[p] \in {"compare", "load"} =>
       /\ InOrder(draft[p]) /\ draft[p].level = Level(Embedded[p])
       /\ db.applied = Embedded[p]
  /\ Is(p, "load") => draft[p].print = db.applied

Agreed == Sound(db) /\ InOrder(archive) /\ \A p \in Process : Known(p)

SchemaInv == SchemaTypeOK /\ (~overtaken => Agreed)

-----------------------------------------------------------------------------
(* Archives *)

\* A set of scripts of one release is known by its versions.
LEMMA LevelsIdentify ==
  ASSUME NEW p \in Process, NEW scripts \in SUBSET Embedded[p], Level(scripts) = Level(Embedded[p])
  PROVE  scripts = Embedded[p]
<1> SUFFICES ASSUME NEW s \in Embedded[p]
            PROVE  s \in scripts
  OBVIOUS
<1>1. Version[s] \in Level(scripts)
  BY DEF Level
<1>2. PICK r \in scripts : Version[r] = Version[s]
  BY <1>1 DEF Level
<1> QED BY <1>2, MigrationsAssumption

\* An archive whose version and fingerprint are those of a release has its schema.
LEMMA AcceptedArchive ==
  ASSUME NEW p \in Process, NEW a \in Archive, InOrder(a),
         a.level = Level(Embedded[p]), a.print = Embedded[p]
  PROVE  a.dump.applied = Embedded[p] /\ a.dump.objects = Embedded[p]
<1>1. PICK scripts \in SUBSET a.dump.applied : a.level = Level(scripts)
  BY DEF InOrder
<1>2. a.dump.applied \in SUBSET Embedded[p] /\ a.dump.objects = a.dump.applied
  BY DEF InOrder, Sound
<1>3. scripts \in SUBSET Embedded[p] /\ Level(scripts) = Level(Embedded[p])
  BY <1>1, <1>2
<1>4. scripts = Embedded[p]
  BY <1>3, LevelsIdentify
<1> QED BY <1>1, <1>2, <1>4

\* The empty archive and those of other databases are in order.
LEMMA ArchivesOfReleases ==
  /\ NoArchive \in Archive /\ InOrder(NoArchive)
  /\ \A q \in Process : BackupOf(q) \in Archive /\ InOrder(BackupOf(q))
<1>1. \A scripts \in SUBSET Script : Level(scripts) \in SUBSET Nat
  BY MigrationsAssumption DEF Level
<1>2. Level({}) = {}
  BY DEF Level
<1>3. NoArchive \in Archive /\ InOrder(NoArchive)
  BY <1>2 DEF NoArchive, NoSchema, Archive, Schema, InOrder, Sound
<1>4. ASSUME NEW q \in Process
      PROVE  BackupOf(q) \in Archive /\ InOrder(BackupOf(q))
  <2>1. Embedded[q] \in SUBSET Script
    BY MigrationsAssumption
  <2> QED BY <1>1, <2>1 DEF BackupOf, Archive, Schema, InOrder, Sound
<1> QED BY <1>3, <1>4

-----------------------------------------------------------------------------
(* What a step leaves alone *)

\* The other processes know what they knew, when the history only grows and nobody restores.
LEMMA OthersKnow ==
  ASSUME NEW q \in Process, SchemaTypeOK, Known(q),
         stage'[q] = stage[q], private'[q] = private[q], draft'[q] = draft[q],
         stage[q] \in {"read", "apply"} => advisory' = advisory,
         db.applied \subseteq db'.applied,
         db' # db => stage[q] \notin {"apply", "compare", "load"}
  PROVE  Known(q)'
<1>1. CASE db' = db
  BY <1>1 DEF Known, Is, InOrder, Sound
<1>2. CASE db' # db
  <2>1. stage'[q] \notin {"apply", "compare", "load"}
    BY <1>2
  <2>2. ~Is(q, "conflict")' /\ (stage'[q] \in {"read", "apply"} => advisory' = q)
    BY DEF Known, Is
  <2>3. stage'[q] \in {"serve", "verify"} => Embedded[q] \subseteq db'.applied
    BY DEF Known
  <2>4. Is(q, "dump")' => \E scripts \in SUBSET db'.applied : draft'[q].level = Level(scripts)
    BY DEF Known, Is
  <2>5. ASSUME Is(q, "print")'
        PROVE  InOrder([draft'[q] EXCEPT !.print = db'.applied])
    <3>1. InOrder([draft[q] EXCEPT !.print = db.applied])
      BY <2>5 DEF Known, Is
    <3>2. draft[q] \in Archive
      BY DEF SchemaTypeOK
    <3> QED BY <3>1, <3>2 DEF InOrder, Sound, Archive
  <2> QED BY <2>1, <2>2, <2>3, <2>4, <2>5 DEF Known, Is
<1> QED BY <1>1, <1>2

\* A transaction that ends leaves the types as they are and nothing to know.
LEMMA Ending ==
  ASSUME NEW p \in Process, NEW s \in Stage, SchemaTypeOK, EndsAs(p, s)
  PROVE  /\ stage' \in [Process -> Stage] /\ advisory' \in Process \cup {NoProcess}
         /\ private' \in [Process -> Schema] /\ draft' \in [Process -> Archive]
         /\ stage'[p] = s
         /\ \A q \in Process \ {p} :
              stage'[q] = stage[q] /\ private'[q] = private[q] /\ draft'[q] = draft[q]
         /\ \A q \in Process \ {p} : advisory = q => advisory' = q
<1>1. NoSchema \in Schema /\ NoArchive \in Archive
  BY ArchivesOfReleases DEF NoSchema, Schema
<1> QED BY <1>1, MigrationsAssumption DEF EndsAs, Enters, SchemaTypeOK

-----------------------------------------------------------------------------
(* Types *)

LEMMA StepsKeepTypes ==
  ASSUME SchemaTypeOK, NEW p \in Process, SchemaStep(p)
  PROVE  SchemaTypeOK'
<1>0. NoArchive \in Archive
  BY ArchivesOfReleases
<1>1. CASE LockMigrations(p)
  BY <1>1 DEF LockMigrations, Enters, SchemaTypeOK, Stage
<1>2. CASE ReadApplied(p)
  <2>1. CASE db.applied \subseteq Embedded[p]
    BY <1>2, <2>1 DEF ReadApplied, Enters, SchemaTypeOK, Stage
  <2>2. CASE ~(db.applied \subseteq Embedded[p])
    <3>1. EndsAs(p, "refused") /\ UNCHANGED <<db, archive, overtaken>>
      BY <1>2, <2>2 DEF ReadApplied
    <3> QED BY <3>1, Ending DEF SchemaTypeOK, Stage
  <2> QED BY <2>1, <2>2
<1>3. CASE ApplyMigration(p)
  <2>1. PICK s \in Pending(p) :
           IF s \in db.objects
           THEN EndsAs(p, "conflict")
           ELSE /\ private' = [private EXCEPT ![p] = [applied |-> @.applied \cup {s}, objects |-> @.objects \cup {s}]]
                /\ UNCHANGED <<stage, advisory, draft>>
    BY <1>3 DEF ApplyMigration
  <2>2. s \in Script
    BY MigrationsAssumption DEF Pending
  <2>3. CASE s \in db.objects
    <3>1. EndsAs(p, "conflict")
      BY <2>1, <2>3
    <3> QED BY <1>3, <3>1, Ending DEF ApplyMigration, SchemaTypeOK, Stage
  <2>4. CASE s \notin db.objects
    BY <1>3, <2>1, <2>2, <2>4 DEF ApplyMigration, SchemaTypeOK, Schema
  <2> QED BY <2>3, <2>4
<1>4. CASE CommitMigrations(p)
  <2>1. EndsAs(p, "idle") /\ db' = private[p] /\ archive' = archive /\ overtaken' \in BOOLEAN
    BY <1>4 DEF CommitMigrations, SchemaTypeOK
  <2> QED BY <2>1, Ending DEF SchemaTypeOK, Stage
<1>5. CASE RollBackMigrations(p)
  BY <1>5, Ending DEF RollBackMigrations, SchemaTypeOK, Stage
<1>6. CASE StartServing(p)
  BY <1>6 DEF StartServing, Enters, SchemaTypeOK, Stage
<1>7. CASE StartBackup(p)
  <2>1. Level(db.applied) \in SUBSET Nat
    BY MigrationsAssumption DEF Level, SchemaTypeOK, Schema
  <2>2. [NoArchive EXCEPT !.level = Level(db.applied)] \in Archive
    BY <1>0, <2>1 DEF Archive
  <2> QED BY <1>7, <2>2 DEF StartBackup, Enters, SchemaTypeOK, Stage
<1>8. CASE Dump(p)
  BY <1>8 DEF Dump, Enters, SchemaTypeOK, Stage, Archive
<1>9. CASE PublishBackup(p)
  <2>1. EndsAs(p, "idle") /\ archive' \in Archive /\ UNCHANGED <<db, overtaken>>
    BY <1>9 DEF PublishBackup, SchemaTypeOK, Archive, Schema
  <2> QED BY <2>1, Ending DEF SchemaTypeOK, Stage
<1>10. CASE StartRestore(p)
  BY <1>10 DEF StartRestore, Enters, SchemaTypeOK, Stage
<1>11. CASE CompareFingerprint(p)
  <2>1. CASE draft[p].print = db.applied
    BY <1>11, <2>1 DEF CompareFingerprint, Enters, SchemaTypeOK, Stage
  <2>2. CASE draft[p].print # db.applied
    BY <1>11, <2>2, Ending DEF CompareFingerprint, SchemaTypeOK, Stage
  <2> QED BY <2>1, <2>2
<1>12. CASE LoadDump(p)
  BY <1>12 DEF LoadDump, Enters, SchemaTypeOK, Stage, Schema, Archive
<1>13. CASE LoadFails(p)
  BY <1>13, Ending DEF LoadFails, SchemaTypeOK, Stage
<1>14. CASE VerifySchema(p)
  <2>1. EndsAs(p, "idle") \/ EndsAs(p, "stuck")
    BY <1>14 DEF VerifySchema
  <2> QED BY <1>14, <2>1, Ending DEF VerifySchema, SchemaTypeOK, Stage
<1>15. CASE EndProcess(p)
  BY <1>15, Ending DEF EndProcess, SchemaTypeOK, Stage
<1> QED BY <1>1, <1>2, <1>3, <1>4, <1>5, <1>6, <1>7, <1>8, <1>9, <1>10, <1>11, <1>12, <1>13,
           <1>14, <1>15 DEF SchemaStep

-----------------------------------------------------------------------------
(* Steps *)

\* Ending leaves a process that knows nothing but its stage, and the others as they were.
LEMMA EndingKeepsKnowledge ==
  ASSUME NEW p \in Process, NEW s \in {"idle", "refused", "stuck"}, SchemaTypeOK, Agreed,
         EndsAs(p, s), db' = db, archive' = archive
  PROVE  Agreed'
<1>0. s \in Stage
  BY DEF Stage
<1>1. Known(p)'
  BY <1>0, Ending DEF Known, Is
<1>2. ASSUME NEW q \in Process \ {p}
      PROVE  Known(q)'
  <2>1. stage[q] \in {"read", "apply"} => advisory = q
    BY DEF Agreed, Known
  <2>2. advisory = q => advisory' = advisory
    BY <1>0, Ending
  <2> QED BY <1>0, <2>1, <2>2, Ending, OthersKnow DEF Agreed
<1> QED BY <1>1, <1>2 DEF Agreed, InOrder, Sound

\* A process that goes on leaves the others what they know.
LEMMA GoingOnKeepsKnowledge ==
  ASSUME NEW p \in Process, NEW s \in Stage, SchemaTypeOK, Agreed, Enters(p, s),
         advisory = NoProcess \/ advisory = advisory',
         \A q \in Process \ {p} : private'[q] = private[q] /\ draft'[q] = draft[q],
         db' = db, archive' = archive, Known(p)'
  PROVE  Agreed'
<1>1. ASSUME NEW q \in Process \ {p}
      PROVE  Known(q)'
  <2>1. stage'[q] = stage[q]
    BY DEF Enters, SchemaTypeOK
  <2>2. stage[q] \in {"read", "apply"} => advisory' = advisory
    <3>1. stage[q] \in {"read", "apply"} => advisory = q
      BY DEF Agreed, Known
    <3> QED BY <3>1, MigrationsAssumption
  <2> QED BY <2>1, <2>2, OthersKnow DEF Agreed
<1> QED BY <1>1 DEF Agreed, InOrder, Sound

LEMMA MigratingKeepsAgreement ==
  ASSUME SchemaTypeOK, Agreed, NEW p \in Process, ~overtaken',
         LockMigrations(p) \/ ReadApplied(p) \/ ApplyMigration(p) \/ CommitMigrations(p)
           \/ RollBackMigrations(p)
  PROVE  Agreed'
<1>1. CASE LockMigrations(p)
  <2>1. Enters(p, "read") /\ Known(p)'
    BY <1>1 DEF LockMigrations, Enters, Known, Is, SchemaTypeOK
  <2> QED BY <1>1, <2>1, GoingOnKeepsKnowledge DEF LockMigrations, Stage
<1>2. CASE ReadApplied(p)
  <2>1. CASE db.applied \subseteq Embedded[p]
    <3>1. private' = [private EXCEPT ![p] = db] /\ Enters(p, "apply")
            /\ UNCHANGED <<advisory, draft, db, archive, overtaken>>
      BY <1>2, <2>1 DEF ReadApplied
    <3>2. Known(p)'
      BY <1>2, <2>1, <3>1 DEF ReadApplied, Enters, Agreed, Known, Is, Sound, SchemaTypeOK
    <3> QED BY <3>1, <3>2, GoingOnKeepsKnowledge DEF Stage, SchemaTypeOK
  <2>2. CASE ~(db.applied \subseteq Embedded[p])
    BY <1>2, <2>2, EndingKeepsKnowledge DEF ReadApplied
  <2> QED BY <2>1, <2>2
<1>3. CASE ApplyMigration(p)
  <2>1. PICK s \in Pending(p) :
           IF s \in db.objects
           THEN EndsAs(p, "conflict")
           ELSE /\ private' = [private EXCEPT ![p] = [applied |-> @.applied \cup {s}, objects |-> @.objects \cup {s}]]
                /\ UNCHANGED <<stage, advisory, draft>>
    BY <1>3 DEF ApplyMigration
  <2>2. Is(p, "apply") /\ UNCHANGED <<db, archive, overtaken>>
    BY <1>3 DEF ApplyMigration
  <2>3. Sound(private[p]) /\ db.applied \subseteq private[p].applied
          /\ private[p].applied \subseteq Embedded[p] /\ advisory = p
    BY <2>2 DEF Agreed, Known, Is
  <2>4. s \notin db.objects /\ s \in Embedded[p]
    BY <2>3 DEF Pending, Agreed, Sound
  <2>5. /\ private' = [private EXCEPT ![p] = [applied |-> @.applied \cup {s}, objects |-> @.objects \cup {s}]]
        /\ UNCHANGED <<stage, advisory, draft>>
    BY <2>1, <2>4
  <2>6. Known(p)'
    BY <2>2, <2>3, <2>4, <2>5 DEF Known, Is, Sound, SchemaTypeOK
  <2>7. Enters(p, "apply")
    BY <2>2, <2>5 DEF Enters, Is, SchemaTypeOK
  <2> QED BY <2>2, <2>5, <2>6, <2>7, GoingOnKeepsKnowledge DEF Stage, SchemaTypeOK
<1>4. CASE CommitMigrations(p)
  <2>1. Is(p, "apply") /\ db' = private[p] /\ EndsAs(p, "idle") /\ archive' = archive
    BY <1>4 DEF CommitMigrations
  <2>2. Sound(private[p]) /\ db.applied \subseteq private[p].applied /\ advisory = p
    BY <2>1 DEF Agreed, Known, Is
  <2>3. Known(p)'
    BY <2>1, Ending DEF Known, Is, Stage
  <2>4. ASSUME NEW q \in Process \ {p}
        PROVE  Known(q)'
    <3>1. stage[q] \notin {"read", "apply"}
      BY <2>2 DEF Agreed, Known
    <3>2. db' # db => stage[q] \notin {"compare", "load"}
      BY <1>4 DEF CommitMigrations
    <3>3. stage'[q] = stage[q] /\ private'[q] = private[q] /\ draft'[q] = draft[q]
      BY <2>1, Ending DEF Stage
    <3> QED BY <2>1, <2>2, <3>1, <3>2, <3>3, OthersKnow DEF Agreed
  <2> QED BY <2>1, <2>2, <2>3, <2>4 DEF Agreed, InOrder, Sound
<1>5. CASE RollBackMigrations(p)
  BY <1>5, EndingKeepsKnowledge DEF RollBackMigrations
<1> QED BY <1>1, <1>2, <1>3, <1>4, <1>5

LEMMA BackingUpKeepsAgreement ==
  ASSUME SchemaTypeOK, Agreed, NEW p \in Process,
         StartServing(p) \/ StartBackup(p) \/ Dump(p) \/ PublishBackup(p)
  PROVE  Agreed'
<1>1. CASE StartServing(p)
  <2>1. PICK s \in {"serve", "refused"} : Enters(p, s) /\ (s = "serve" => Ready(p))
    BY <1>1 DEF StartServing
  <2>2. Known(p)'
    BY <1>1, <2>1 DEF StartServing, Ready, Enters, Known, Is, SchemaTypeOK
  <2> QED BY <1>1, <2>1, <2>2, GoingOnKeepsKnowledge DEF StartServing, Stage
<1>2. CASE StartBackup(p)
  <2>1. CASE Ready(p)
    <3>1. Enters(p, "dump") /\ draft' = [draft EXCEPT ![p] = [NoArchive EXCEPT !.level = Level(db.applied)]]
            /\ UNCHANGED <<db, advisory, private, archive, overtaken>>
      BY <1>2, <2>1 DEF StartBackup
    <3>2. draft'[p].level = Level(db.applied)
      BY <3>1 DEF SchemaTypeOK, NoArchive
    <3>3. Is(p, "dump")'
      BY <3>1 DEF Enters, Is, SchemaTypeOK
    <3>4. Known(p)'
      BY <3>1, <3>2, <3>3 DEF Known, Is
    <3> QED BY <3>1, <3>4, GoingOnKeepsKnowledge DEF Stage, SchemaTypeOK
  <2>2. CASE ~Ready(p)
    <3>1. Enters(p, "refused") /\ UNCHANGED <<draft, db, advisory, private, archive, overtaken>>
      BY <1>2, <2>2 DEF StartBackup
    <3>2. Known(p)'
      BY <3>1 DEF Enters, Known, Is, SchemaTypeOK
    <3> QED BY <3>1, <3>2, GoingOnKeepsKnowledge DEF Stage
  <2> QED BY <2>1, <2>2
<1>3. CASE Dump(p)
  <2>1. /\ Is(p, "dump") /\ Enters(p, "print") /\ draft' = [draft EXCEPT ![p].dump = db]
        /\ UNCHANGED <<db, advisory, private, archive, overtaken>>
    BY <1>3 DEF Dump
  <2>2. PICK scripts \in SUBSET db.applied : draft[p].level = Level(scripts)
    BY <2>1 DEF Agreed, Known
  <2>3. draft'[p].dump = db /\ draft'[p].level = Level(scripts) /\ draft'[p] \in Archive
    BY <2>1, <2>2 DEF SchemaTypeOK, Archive
  <2>4. InOrder([draft'[p] EXCEPT !.print = db.applied])
    BY <2>3 DEF InOrder, Archive, Agreed
  <2>5. Is(p, "print")'
    BY <2>1 DEF Enters, Is, SchemaTypeOK
  <2>6. Known(p)'
    BY <2>1, <2>4, <2>5 DEF Known, Is, InOrder, Sound
  <2> QED BY <2>1, <2>6, GoingOnKeepsKnowledge DEF Stage, SchemaTypeOK
<1>4. CASE PublishBackup(p)
  <2>1. /\ Is(p, "print") /\ EndsAs(p, "idle") /\ UNCHANGED <<db, overtaken>>
        /\ archive' = [draft[p] EXCEPT !.print = db.applied]
    BY <1>4 DEF PublishBackup
  <2>2. InOrder(archive')
    BY <2>1 DEF Agreed, Known
  <2>3. Known(p)'
    BY <2>1, Ending DEF Known, Is, Stage
  <2>4. ASSUME NEW q \in Process \ {p}
        PROVE  Known(q)'
    <3>1. stage[q] \in {"read", "apply"} => advisory = q
      BY DEF Agreed, Known
    <3>2. /\ stage'[q] = stage[q] /\ private'[q] = private[q] /\ draft'[q] = draft[q]
          /\ (advisory = q => advisory' = q)
      BY <2>1, Ending DEF Stage
    <3> QED BY <2>1, <3>1, <3>2, OthersKnow DEF Agreed
  <2> QED BY <2>1, <2>2, <2>3, <2>4 DEF Agreed, InOrder, Sound
<1> QED BY <1>1, <1>2, <1>3, <1>4

LEMMA RestoringKeepsAgreement ==
  ASSUME SchemaTypeOK, Agreed, NEW p \in Process,
         StartRestore(p) \/ CompareFingerprint(p) \/ LoadDump(p) \/ LoadFails(p)
           \/ VerifySchema(p) \/ EndProcess(p)
  PROVE  Agreed'
<1>1. CASE StartRestore(p)
  <2>1. CASE Ready(p) /\ archive.level = Level(Embedded[p])
    <3>1. Enters(p, "compare") /\ draft' = [draft EXCEPT ![p] = archive]
            /\ UNCHANGED <<db, advisory, private, archive, overtaken>>
      BY <1>1, <2>1 DEF StartRestore
    <3>2. draft'[p] = archive /\ Is(p, "compare")'
      BY <3>1 DEF Enters, Is, SchemaTypeOK
    <3>3. Known(p)'
      BY <2>1, <3>1, <3>2 DEF Agreed, Known, Is, Ready, InOrder, Sound
    <3> QED BY <3>1, <3>3, GoingOnKeepsKnowledge DEF Stage, SchemaTypeOK
  <2>2. CASE ~(Ready(p) /\ archive.level = Level(Embedded[p]))
    <3>1. Enters(p, "refused") /\ UNCHANGED <<draft, db, advisory, private, archive, overtaken>>
      BY <1>1, <2>2 DEF StartRestore
    <3>2. Known(p)'
      BY <3>1 DEF Enters, Known, Is, SchemaTypeOK
    <3> QED BY <3>1, <3>2, GoingOnKeepsKnowledge DEF Stage
  <2> QED BY <2>1, <2>2
<1>2. CASE CompareFingerprint(p)
  <2>1. CASE draft[p].print = db.applied
    <3>1. /\ Is(p, "compare") /\ Enters(p, "load")
          /\ UNCHANGED <<advisory, private, draft, db, archive, overtaken>>
      BY <1>2, <2>1 DEF CompareFingerprint
    <3>2. Known(p)'
      BY <2>1, <3>1 DEF Enters, Agreed, Known, Is, InOrder, Sound, SchemaTypeOK
    <3> QED BY <3>1, <3>2, GoingOnKeepsKnowledge DEF Stage
  <2>2. CASE draft[p].print # db.applied
    BY <1>2, <2>2, EndingKeepsKnowledge DEF CompareFingerprint
  <2> QED BY <2>1, <2>2
<1>3. CASE LoadDump(p)
  <2>1. /\ Is(p, "load") /\ Enters(p, "verify") /\ UNCHANGED <<advisory, private, draft, archive, overtaken>>
        /\ db' = [applied |-> draft[p].dump.applied, objects |-> db.objects \cup draft[p].dump.objects]
    BY <1>3 DEF LoadDump
  <2>2. /\ InOrder(draft[p]) /\ draft[p].level = Level(Embedded[p])
        /\ db.applied = Embedded[p] /\ draft[p].print = db.applied
    BY <2>1 DEF Agreed, Known, Is
  <2>3. draft[p].dump.applied = db.applied /\ draft[p].dump.objects = db.applied
    BY <2>2, AcceptedArchive DEF SchemaTypeOK
  <2>4. db' = db
    BY <2>1, <2>3 DEF Agreed, Sound, SchemaTypeOK, Schema
  <2>5. Known(p)'
    BY <2>1, <2>2, <2>4 DEF Enters, Known, Is, SchemaTypeOK
  <2> QED BY <2>1, <2>4, <2>5, GoingOnKeepsKnowledge DEF Stage
<1>4. CASE LoadFails(p)
  BY <1>4, EndingKeepsKnowledge DEF LoadFails
<1>5. CASE VerifySchema(p)
  <2>1. PICK s \in {"idle", "stuck"} : EndsAs(p, s)
    BY <1>5 DEF VerifySchema
  <2> QED BY <1>5, <2>1, EndingKeepsKnowledge DEF VerifySchema
<1>6. CASE EndProcess(p)
  BY <1>6, EndingKeepsKnowledge DEF EndProcess
<1> QED BY <1>1, <1>2, <1>3, <1>4, <1>5, <1>6

-----------------------------------------------------------------------------
(* The theorems *)

LEMMA InitSatisfiesSchemaInv == SchemaInit => SchemaInv
<1> SUFFICES ASSUME SchemaInit
             PROVE  SchemaInv
  OBVIOUS
<1>1. NoSchema \in Schema /\ Sound(NoSchema)
  BY DEF NoSchema, Schema, Sound
<1>2. archive \in Archive /\ InOrder(archive)
  BY ArchivesOfReleases DEF SchemaInit
<1>3. SchemaTypeOK
  BY <1>1, <1>2, ArchivesOfReleases DEF SchemaInit, SchemaTypeOK, Stage
<1>4. \A p \in Process : Known(p)
  BY DEF SchemaInit, Known, Is
<1> QED BY <1>1, <1>2, <1>3, <1>4 DEF SchemaInv, Agreed, SchemaInit

LEMMA StepsKeepSchemaInv == SchemaInv /\ [SchemaNext]_schemaVars => SchemaInv'
<1> SUFFICES ASSUME SchemaInv, [SchemaNext]_schemaVars
             PROVE  SchemaInv'
  OBVIOUS
<1>1. CASE UNCHANGED schemaVars
  BY <1>1 DEF schemaVars, SchemaInv, SchemaTypeOK, Agreed, Known, Is, InOrder, Sound
<1>2. CASE SchemaNext
  <2>1. PICK p \in Process : SchemaStep(p)
    BY <1>2 DEF SchemaNext
  <2>2. SchemaTypeOK'
    BY <2>1, StepsKeepTypes DEF SchemaInv
  <2>3. ASSUME ~overtaken'
        PROVE  Agreed'
    <3>1. ~overtaken
      BY <2>1, <2>3 DEF SchemaStep, LockMigrations, ReadApplied, ApplyMigration, CommitMigrations,
           RollBackMigrations, StartServing, StartBackup, Dump, PublishBackup, StartRestore,
           CompareFingerprint, LoadDump, LoadFails, VerifySchema, EndProcess
    <3>2. SchemaTypeOK /\ Agreed
      BY <3>1 DEF SchemaInv
    <3> QED BY <2>1, <2>3, <3>2, MigratingKeepsAgreement, BackingUpKeepsAgreement,
               RestoringKeepsAgreement DEF SchemaStep
  <2> QED BY <2>2, <2>3 DEF SchemaInv
<1> QED BY <1>1, <1>2

\* The history names the objects that are there, and each process knows what it relies on:
\* the invariant behind the one below.
THEOREM SchemaInvariant == SchemaSpec => []SchemaInv
<1>1. SchemaInit => SchemaInv
  BY InitSatisfiesSchemaInv
<1>2. SchemaInv /\ [SchemaNext]_schemaVars => SchemaInv'
  BY StepsKeepSchemaInv
<1> QED BY <1>1, <1>2, PTL DEF SchemaSpec

\* With any number of processes of any releases, migrators never find objects of one another,
\* a server keeps the scripts it checked, and a restore that has loaded its dump has left those of
\* its release, until the first time a migration comes between the check and the load of a
\* restore (database.go, transfer/backup.go, restore.go).
THEOREM SchemaSafety == SchemaSpec => []SchemasAgree
<1>1. SchemaInv => SchemasAgree
  BY DEF SchemaInv, Agreed, Known, Sound, SchemasAgree, Is
<1> QED BY <1>1, SchemaInvariant, PTL

-----------------------------------------------------------------------------
(* The import of a legacy workspace *)

LegacySteps ==
  {"idle", "first", "dataFirst", "inspect", "dataInspect", "preflight", "list", "dataList",
   "readRows", "after", "dataAfter", "begin", "insert", "journal", "copy", "final", "dataFinal",
   "commit", "receipt", "rebuild", "close", "cleanFiles", "cleanJournal", "end"}

Publishing == {"receipt", "rebuild", "close"}
Cleaning == {"cleanFiles", "cleanJournal"}
Copied == {"final", "dataFinal"}
Owning == {"copy", "final", "dataFinal", "commit"} \cup Publishing \cup Cleaning
HasSettings == {"journal", "copy"} \cup Copied
HasRows == {"after", "dataAfter", "begin", "insert"} \cup HasSettings
HasHash == {"inspect", "dataInspect", "preflight", "list", "dataList", "readRows"} \cup HasRows
Collecting == {"dataFirst", "dataInspect", "dataList", "dataAfter", "dataFinal"}

Moment == [data : Nat, files : Nat]
Base == [by : Importer \cup {Nobody, "server"}, rows : Int, settings : Int, derived : BOOLEAN]
Target == [used : BOOLEAN, files : Int, journal : BOOLEAN, receipt : BOOLEAN]
Taken == [rows : Int, settings : Int, files : Int]

LegacyTypes ==
  /\ source \in Moment /\ moments \subseteq Moment
  /\ pc \in [Importer -> LegacySteps]
  /\ report \in [Importer -> Moment] /\ scan \in [Importer -> Moment] /\ read \in [Importer -> Taken]
  /\ outcome \in [Importer -> {"none", "refused", "rolled back", "dry run", "unknown",
      "committed", "killed"}]
  /\ locked \in Importer \cup {Nobody} /\ database \in Base /\ dir \in Target
  /\ server \in {"up", "down"} /\ mishaps \in Nat

\* What was committed is the source as it was at one moment.
Consistent(taken, past) ==
  [data |-> taken.rows, files |-> taken.files] \in past /\ taken.settings = taken.rows

\* What importer i has to do with the lock, the database and the directory at a step: the
\* tables are its own inside its transaction, the directory from its journal on, and what
\* it committed is in the database to stay, with the files that belong to it.
Own(i, step, how, taken, lock, base, d, past) ==
  /\ lock = i <=> step \in InTransaction
  /\ step \in Owning => d.journal
  /\ step \in InTransaction \cup Cleaning => base.by = Nobody
  /\ step \in Publishing => base.by = i
  /\ step \in Copied \cup {"commit"} \/ base.by = i => d.files = taken.files
  /\ step = "cleanJournal" => d.files = -1
  /\ step \in {"rebuild", "close"} => d.receipt
  /\ step = "close" => base.derived
  /\ step # "end" => how = "none"
  /\ step = "commit" \/ base.by = i => Consistent(taken, past)
  /\ base.by = i =>
       /\ step \in Publishing \cup {"end"} /\ base.rows = taken.rows /\ base.settings = taken.settings
       /\ how \notin {"refused", "rolled back", "dry run"}
       /\ ~d.journal => d.receipt /\ base.derived
  /\ how = "committed" => base.by = i

\* Files of an import, and its receipt, are only there with its rows or its journal.
Accounted(base, d) ==
  /\ d.files # -1 /\ ~d.journal => base.by \in Importer
  /\ d.receipt => base.by \in Importer

\* What an importer has taken is not older than its hash and not newer than the source.  When
\* its last inventory agrees with its hash nothing can have changed in between.
Dated(step, hash, last, taken, now, past) ==
  /\ step \in HasHash =>
       /\ hash.data <= now.data
       /\ \E m \in past : /\ m.data = hash.data /\ hash.files <= m.files /\ m.files <= now.files
                          /\ step = "dataFinal" => m.files <= last.files
  /\ step \in HasRows => hash.data <= taken.rows /\ taken.rows <= now.data
  /\ step \in HasSettings => hash.data <= taken.settings /\ taken.settings <= now.data
  /\ step \in Copied => hash.files <= taken.files /\ taken.files <= now.files
  /\ step = "dataFinal" => taken.files <= last.files
  /\ step \in Collecting => last.files <= now.files

LegacyInv ==
  /\ LegacyTypes
  /\ source \in moments
  /\ Accounted(database, dir)
  /\ \A i, j \in Importer : pc[i] \in Owning /\ pc[j] \in Owning => i = j
  /\ \A i \in Importer :
       /\ Own(i, pc[i], outcome[i], read[i], locked, database, dir, moments)
       /\ Dated(pc[i], report[i], scan[i], read[i], source, moments)
  /\ server = "up" => ~dir.journal /\ database.by # Nobody /\ \A i \in Importer : ~Running(i)


\* What a step of importer i may do to the others.
ActsFor(i) ==
  /\ \A j \in Importer \ {i} :
       /\ pc'[j] = pc[j] /\ outcome'[j] = outcome[j] /\ report'[j] = report[j]
       /\ scan'[j] = scan[j] /\ read'[j] = read[j]
  /\ UNCHANGED <<source, moments, server>> /\ server = "down"
  /\ \/ locked' = locked
     \/ locked \in {i, Nobody} /\ locked' \in {i, Nobody}
  /\ \/ database' = database
     \/ database'.by = i /\ (pc[i] = "commit" \/ database.by = i)
  /\ \/ dir' = dir
     \/ pc[i] \in Owning
     \/ pc[i] = "journal" /\ ~dir.journal /\ dir' = [dir EXCEPT !.journal = TRUE]
  /\ pc'[i] \in Owning => pc[i] \in Owning \/ ~dir.journal

\* A step of one importer takes nothing from another.
LEMMA OthersKeep ==
  ASSUME LegacyInv, NEW i \in Importer, ActsFor(i), LegacyTypes', NEW j \in Importer, j # i
  PROVE  /\ Own(j, pc'[j], outcome'[j], read'[j], locked', database', dir', moments')
         /\ Dated(pc'[j], report'[j], scan'[j], read'[j], source', moments')
<1>1. /\ pc'[j] = pc[j] /\ outcome'[j] = outcome[j] /\ report'[j] = report[j]
      /\ scan'[j] = scan[j] /\ read'[j] = read[j] /\ source' = source /\ moments' = moments
  BY DEF ActsFor
<1>2. Dated(pc[j], report[j], scan[j], read[j], source, moments)
  BY DEF LegacyInv
<1>3. Own(j, pc[j], outcome[j], read[j], locked, database, dir, moments)
  BY DEF LegacyInv
<1>4. Own(i, pc[i], outcome[i], read[i], locked, database, dir, moments)
  BY DEF LegacyInv
<1>5. j # Nobody
  BY LegacyImportAssumption
<1>6. pc[i] \in Owning => pc[j] \notin Owning
  BY DEF LegacyInv
<1>7. pc[i] \in Owning => database.by # j
  BY <1>4, <1>5 DEF Own, Owning, InTransaction, Copied, Publishing, Cleaning
<1>8. locked' = j <=> locked = j
  BY <1>5 DEF ActsFor
<1>9. Own(j, pc[j], outcome[j], read[j], locked', database, dir, moments)
  BY <1>3, <1>8 DEF Own
<1>10. Own(j, pc[j], outcome[j], read[j], locked', database', dir, moments)
  <2>1. CASE database' = database
    BY <1>9, <2>1
  <2>2. CASE pc[i] = "commit" /\ database'.by = i
    <3>1. pc[j] \notin InTransaction \cup Cleaning \cup Publishing
      BY <1>3, <1>4, <1>6, <2>2 DEF Own, Owning, InTransaction, Publishing, Cleaning
    <3>2. database'.by # j
      BY <2>2
    <3>3. database.by # j
      BY <1>7, <2>2 DEF Owning
    <3> QED BY <1>9, <3>1, <3>2, <3>3 DEF Own, Publishing
  <2>3. CASE database.by = i /\ database'.by = i
    <3>1. pc[j] \notin InTransaction \cup Cleaning \cup Publishing
      BY <1>3, <2>3, LegacyImportAssumption DEF Own
    <3> QED BY <1>9, <2>3, <3>1 DEF Own, Publishing
  <2> QED BY <2>1, <2>2, <2>3 DEF ActsFor
<1>11. Own(j, pc[j], outcome[j], read[j], locked', database', dir', moments)
  <2>1. CASE dir' = dir
    BY <1>10, <2>1
  <2>2. CASE pc[i] \in Owning
    <3>1. database'.by # j
      BY <1>7, <2>2 DEF ActsFor
    <3>2. pc[j] \notin Owning
      BY <1>6, <2>2
    <3> QED BY <1>10, <3>1, <3>2 DEF Own, Owning, Publishing, Cleaning, Copied
  <2>3. CASE pc[i] = "journal" /\ ~dir.journal /\ dir' = [dir EXCEPT !.journal = TRUE]
    <3>1. dir'.journal /\ dir'.files = dir.files /\ dir'.receipt = dir.receipt
      BY <2>3 DEF LegacyInv, LegacyTypes, Target
    <3> QED BY <1>10, <3>1 DEF Own
  <2> QED BY <2>1, <2>2, <2>3 DEF ActsFor
<1> QED BY <1>1, <1>2, <1>11

\* So the invariant is kept by a step that leaves the importer itself as it says.
LEMMA ImporterKeeps ==
  ASSUME LegacyInv, NEW i \in Importer, ActsFor(i), LegacyTypes', Accounted(database, dir)',
         Own(i, pc[i], outcome[i], read[i], locked, database, dir, moments)',
         Dated(pc[i], report[i], scan[i], read[i], source, moments)'
  PROVE  LegacyInv'
<1>1. \A j \in Importer :
        /\ Own(j, pc[j], outcome[j], read[j], locked, database, dir, moments)'
        /\ Dated(pc[j], report[j], scan[j], read[j], source, moments)'
  BY OthersKeep
<1>2. source' \in moments'
  BY DEF LegacyInv, ActsFor
<1>3. server' # "up"
  BY DEF ActsFor
<1>4. ASSUME NEW j \in Importer, NEW k \in Importer, pc'[j] \in Owning, pc'[k] \in Owning, j # k
      PROVE  FALSE
  <2>1. \A n \in Importer \ {i} : pc'[n] = pc[n]
    BY DEF ActsFor
  <2>2. CASE j # i /\ k # i
    BY <1>4, <2>1, <2>2 DEF LegacyInv
  <2>3. CASE i \in {j, k}
    <3>1. PICK n \in Importer \ {i} : pc[n] \in Owning
      BY <1>4, <2>1, <2>3
    <3>2. dir.journal
      BY <3>1 DEF LegacyInv, Own
    <3>3. pc[i] \in Owning
      BY <1>4, <2>3, <3>2 DEF ActsFor
    <3> QED BY <3>1, <3>3 DEF LegacyInv
  <2> QED BY <2>2, <2>3
<1> QED BY <1>1, <1>2, <1>3, <1>4 DEF LegacyInv

\* An importer that runs is next to no server.
LEMMA NoServerNextToImport ==
  ASSUME LegacyInv, NEW i \in Importer, Running(i)
  PROVE  server = "down"
BY DEF LegacyInv, LegacyTypes

Outcomes == {"none", "refused", "rolled back", "dry run", "unknown", "committed", "killed"}

\* Importer i goes on to a step, with what it has by then; and what it may do to the rest.
Move(i, to, how, hash, last, taken) ==
  /\ pc' = [pc EXCEPT ![i] = to] /\ outcome' = [outcome EXCEPT ![i] = how]
  /\ report' = [report EXCEPT ![i] = hash] /\ scan' = [scan EXCEPT ![i] = last]
  /\ read' = [read EXCEPT ![i] = taken]

Reaches(i, to) ==
  /\ locked' \in Importer \cup {Nobody} /\ database' \in Base /\ dir' \in Target /\ mishaps' \in Nat
  /\ UNCHANGED <<source, moments, server>>
  /\ \/ locked' = locked
     \/ locked \in {i, Nobody} /\ locked' \in {i, Nobody}
  /\ \/ database' = database
     \/ database'.by = i /\ (pc[i] = "commit" \/ database.by = i)
  /\ \/ dir' = dir
     \/ pc[i] \in Owning
     \/ pc[i] = "journal" /\ ~dir.journal /\ dir' = [dir EXCEPT !.journal = TRUE]
  /\ to \in Owning => pc[i] \in Owning \/ ~dir.journal

LEMMA MoveKeeps ==
  ASSUME LegacyInv, NEW i \in Importer, NEW to \in LegacySteps, NEW how \in Outcomes,
         NEW hash \in Moment, NEW last \in Moment, NEW taken \in Taken, server = "down",
         Move(i, to, how, hash, last, taken), Reaches(i, to),
         Own(i, to, how, taken, locked', database', dir', moments),
         Dated(to, hash, last, taken, source, moments), Accounted(database', dir')
  PROVE  LegacyInv'
<1>1. LegacyTypes
  BY DEF LegacyInv
<1>2. LegacyTypes'
  BY <1>1 DEF LegacyTypes, Move, Reaches, Outcomes
<1>3. /\ /\ pc'[i] = to /\ outcome'[i] = how /\ report'[i] = hash /\ scan'[i] = last
      /\ read'[i] = taken
      /\ \A j \in Importer \ {i} :
           /\ pc'[j] = pc[j] /\ outcome'[j] = outcome[j] /\ report'[j] = report[j]
           /\ scan'[j] = scan[j] /\ read'[j] = read[j]
  BY <1>1 DEF LegacyTypes, Move
<1>4. source' = source /\ moments' = moments
  BY DEF Reaches
<1>5. ActsFor(i)
  BY <1>3 DEF ActsFor, Reaches
<1> QED BY <1>2, <1>3, <1>4, <1>5, ImporterKeeps

\* What an importer has when it does not change.
LEMMA Stays ==
  ASSUME LegacyInv, NEW i \in Importer
  PROVE  /\ pc[i] \in LegacySteps /\ outcome[i] \in Outcomes /\ read[i] \in Taken
         /\ report[i] \in Moment /\ scan[i] \in Moment
         /\ outcome = [outcome EXCEPT ![i] = outcome[i]] /\ report = [report EXCEPT ![i] = report[i]]
         /\ scan = [scan EXCEPT ![i] = scan[i]] /\ read = [read EXCEPT ![i] = read[i]]
         /\ source \in Moment /\ database \in Base /\ dir \in Target /\ mishaps \in Nat
         /\ locked \in Importer \cup {Nobody}
BY DEF LegacyInv, LegacyTypes, Outcomes

LEMMA Numbers ==
  ASSUME LegacyInv, NEW i \in Importer
  PROVE  /\ source.data \in Nat /\ source.files \in Nat /\ report[i].data \in Nat /\ report[i].files \in Nat
         /\ scan[i].files \in Nat /\ read[i].rows \in Int /\ read[i].settings \in Int /\ read[i].files \in Int
         /\ source.data \in Int /\ source.files \in Int
<1>1. source \in Moment /\ report[i] \in Moment /\ scan[i] \in Moment /\ read[i] \in Taken
  BY Stays
<1> QED BY <1>1 DEF Moment, Taken

\* What an importer takes from the source is what it says it is.
LEMMA Takings ==
  ASSUME LegacyInv, NEW i \in Importer
  PROVE  /\ [scan[i] EXCEPT !.data = source.data] \in Moment
         /\ [scan[i] EXCEPT !.files = source.files] \in Moment
         /\ [read[i] EXCEPT !.rows = source.data] \in Taken
         /\ [read[i] EXCEPT !.settings = source.data] \in Taken
         /\ [read[i] EXCEPT !.files = source.files] \in Taken
<1>1. scan[i] \in Moment /\ read[i] \in Taken
  BY Stays
<1> QED BY <1>1, Numbers DEF Moment, Taken

\* A step outside the transaction that leaves the world as it is only has to keep the dates.
Outside == LegacySteps \ (InTransaction \cup Owning \cup {"end"})

LEMMA OutsideKeeps ==
  ASSUME LegacyInv, NEW i \in Importer, NEW to \in Outside \cup {"end"}, NEW how \in {"none",
      "refused"},
         NEW hash \in Moment, NEW last \in Moment, NEW taken \in Taken, server = "down",
         pc[i] \in Outside, how = "none" \/ to = "end", UNCHANGED World,
         Move(i, to, how, hash, last, taken), Dated(to, hash, last, taken, source, moments)
  PROVE  LegacyInv'
<1>1. /\ Own(i, pc[i], outcome[i], read[i], locked, database, dir, moments)
      /\ Accounted(database, dir)
  BY DEF LegacyInv
<1>2. to \in LegacySteps /\ to \notin InTransaction \cup Owning /\ how \in Outcomes
  BY DEF Outside, LegacySteps, InTransaction, Owning, Publishing, Cleaning, Outcomes
<1>3. pc[i] \notin Publishing \cup {"end"} /\ locked # i
  BY <1>1 DEF Outside, Own, Owning
<1>4. database.by # i
  BY <1>1, <1>3 DEF Own
<1>5. locked' = locked /\ database' = database /\ dir' = dir
  BY DEF World
<1>6. Own(i, to, how, taken, locked', database', dir', moments)
  BY <1>1, <1>2, <1>3, <1>4, <1>5
     DEF Own, Outside, InTransaction, Owning, Publishing, Cleaning, Copied
<1>7. Reaches(i, to)
  BY <1>2, Stays DEF Reaches, World
<1> QED BY <1>1, <1>2, <1>5, <1>6, <1>7, MoveKeeps

LEMMA StartImportKeeps ==
  ASSUME LegacyInv, NEW i \in Importer, StartImport(i)
  PROVE  LegacyInv'
<1> USE DEF StartImport, At, To, Private, World
<1>1. pc[i] = "idle" /\ Move(i, "first", outcome[i], report[i], scan[i], read[i])
  BY Stays DEF Move
<1>2. server = "down"
  BY <1>1, NoServerNextToImport DEF Running
<1>3. UNCHANGED World
  BY DEF World
<1>4. outcome[i] = "none"
  BY <1>1 DEF LegacyInv, Own
<1>5. Dated("idle", report[i], scan[i], read[i], source, moments)
  BY <1>1 DEF LegacyInv
<1>6. Dated("first", report[i], scan[i], read[i], source, moments)
  BY <1>5, Numbers DEF Dated, Moment, Taken, HasSettings, HasRows, HasHash, Collecting, Copied
<1>7. "idle" \in Outside /\ "first" \in Outside
  BY DEF Outside, LegacySteps, InTransaction, Owning, Publishing, Cleaning, Copied
<1> QED BY <1>1, <1>2, <1>6, <1>7, <1>3, <1>4, Stays, OutsideKeeps

\* The attachments are read before the data; the source may change before and after.
LEMMA InventoryFilesKeeps ==
  ASSUME LegacyInv, NEW i \in Importer, InventoryFiles(i)
  PROVE  LegacyInv'
<1> DEFINE last == [scan[i] EXCEPT !.files = source.files]
<1>1. PICK step \in DOMAIN Inventories :
        pc[i] = step /\ pc' = [pc EXCEPT ![i] = Halfway[step]] /\ Scans(i, step)
  BY DEF InventoryFiles, Scans, At, To
<1>2. step \in {"first", "inspect", "list", "after", "final"}
  BY DEF Inventories
<1>3. Move(i, Halfway[step], outcome[i], report[i], last, read[i]) /\ UNCHANGED World
  BY <1>1, Stays DEF InventoryFiles, Scans, Move, Set, World
<1>4. Running(i) /\ outcome[i] = "none"
  BY <1>1, <1>2 DEF Running, LegacyInv, Own
<1>5. server = "down"
  BY <1>4, NoServerNextToImport
<1>6. Halfway[step] \in {"dataFirst", "dataInspect", "dataList", "dataAfter", "dataFinal"}
      /\ (Halfway[step] = "dataFinal" <=> step = "final")
      /\ (Halfway[step] = "dataFirst" <=> step = "first")
      /\ (Halfway[step] = "dataAfter" <=> step = "after")
  BY <1>2 DEF Halfway
<1>7. last \in Moment /\ last.files = source.files
  BY Takings, Stays DEF Moment
<1> HIDE DEF last
<1>8. Dated(step, report[i], scan[i], read[i], source, moments)
  BY <1>1 DEF LegacyInv
<1>9. Dated(Halfway[step], report[i], last, read[i], source, moments)
  BY <1>2, <1>6, <1>7, <1>8, Numbers
     DEF Dated, HasSettings, HasRows, HasHash, Collecting, Copied
<1>10. CASE step # "final"
  <2>1. step \in Outside /\ Halfway[step] \in Outside
    BY <1>2, <1>6, <1>10
       DEF Outside, LegacySteps, InTransaction, Owning, Publishing, Cleaning, Copied
  <2> QED BY <1>1, <1>3, <1>4, <1>5, <1>7, <1>9, <2>1, Stays, OutsideKeeps
<1>11. CASE step = "final"
  <2>1. Own(i, "final", outcome[i], read[i], locked, database, dir, moments)
    BY <1>1, <1>11 DEF LegacyInv
  <2>2. locked' = locked /\ database' = database /\ dir' = dir
    BY <1>3 DEF World
  <2>3. Own(i, "dataFinal", outcome[i], read[i], locked', database', dir', moments)
    BY <2>1, <2>2 DEF Own, InTransaction, Owning, Publishing, Cleaning, Copied
  <2>4. Reaches(i, "dataFinal")
    BY <1>1, <1>3, <1>11, Stays DEF Reaches, World, Owning, Copied
  <2>5. Accounted(database', dir') /\ "dataFinal" \in LegacySteps
    BY <2>2 DEF LegacyInv, LegacySteps
  <2> QED BY <1>3, <1>5, <1>6, <1>7, <1>9, <1>11, <2>3, <2>4, <2>5, Stays, MoveKeeps
<1> QED BY <1>10, <1>11


\* The first inventory is the hash; where a later one agrees with it, nothing changed in between.
LEMMA InventoryDataKeeps ==
  ASSUME LegacyInv, NEW i \in Importer, InventoryData(i)
  PROVE  LegacyInv'
<1>1. CASE pc[i] = "dataFirst"
  <2>1. /\ pc[i] = "dataFirst"
        /\ Move(i, "inspect", outcome[i], [scan[i] EXCEPT !.data = source.data],
                [scan[i] EXCEPT !.data = source.data], read[i])
    BY <1>1, Stays DEF Move, InventoryData, At, To, Ends, Inventories, Halfway
  <2>2. server = "down"
    BY <2>1, NoServerNextToImport DEF Running
  <2>3. UNCHANGED World
    BY <1>1 DEF InventoryData, At, To, Ends, Inventories, Halfway, World
  <2>4. outcome[i] = "none"
    BY <2>1 DEF LegacyInv, Own
  <2>5. Dated("dataFirst", report[i], scan[i], read[i], source, moments)
    BY <2>1 DEF LegacyInv
  <2>6. Dated("inspect", [scan[i] EXCEPT !.data = source.data],
      [scan[i] EXCEPT !.data = source.data], read[i], source, moments)
    <3> DEFINE hash == [scan[i] EXCEPT !.data = source.data]
    <3>1. hash.data = source.data /\ hash.files = scan[i].files
      BY Stays DEF Moment
    <3>2. scan[i].files <= source.files
      BY <2>5 DEF Dated, Collecting
    <3>3. source \in moments
      BY DEF LegacyInv
    <3> HIDE DEF hash
    <3> QED BY <3>1, <3>2, <3>3, Numbers DEF Dated, HasHash, HasRows, HasSettings, Copied,
        Collecting
  <2>7. "dataFirst" \in Outside /\ "inspect" \in Outside
    BY DEF Outside, LegacySteps, InTransaction, Owning, Publishing, Cleaning, Copied
  <2> QED BY <2>1, <2>2, <2>6, <2>7, <2>3, <2>4, Stays, Takings, OutsideKeeps
<1>2. CASE pc[i] = "dataInspect" /\ Same(i)
  <2>1. /\ pc[i] = "dataInspect"
        /\ Move(i, "preflight", outcome[i], report[i], [scan[i] EXCEPT !.data = source.data],
                read[i])
    BY <1>2, Stays DEF Move, InventoryData, At, To, Ends, Inventories, Halfway
  <2>2. server = "down"
    BY <2>1, NoServerNextToImport DEF Running
  <2>3. UNCHANGED World
    BY <1>2 DEF InventoryData, At, To, Ends, Inventories, Halfway, World
  <2>4. outcome[i] = "none"
    BY <2>1 DEF LegacyInv, Own
  <2>5. Dated("dataInspect", report[i], scan[i], read[i], source, moments)
    BY <2>1 DEF LegacyInv
  <2>6. Dated("preflight", report[i], [scan[i] EXCEPT !.data = source.data], read[i], source,
      moments)
    BY <1>2, <2>5, Numbers
       DEF Dated, Moment, Taken, HasSettings, HasRows, HasHash, Collecting, Copied
  <2>7. "dataInspect" \in Outside /\ "preflight" \in Outside
    BY DEF Outside, LegacySteps, InTransaction, Owning, Publishing, Cleaning, Copied
  <2> QED BY <2>1, <2>2, <2>6, <2>7, <2>3, <2>4, Stays, Takings, OutsideKeeps
<1>3. CASE pc[i] = "dataInspect" /\ ~Same(i)
  <2>1. /\ pc[i] = "dataInspect"
        /\ Move(i, "end", "refused", report[i], [scan[i] EXCEPT !.data = source.data], read[i])
    BY <1>3, Stays DEF Move, InventoryData, At, To, Ends, Inventories, Halfway
  <2>2. server = "down"
    BY <2>1, NoServerNextToImport DEF Running
  <2>3. UNCHANGED World
    BY <1>3 DEF InventoryData, At, To, Ends, Inventories, Halfway, World
  <2>4. Dated("dataInspect", report[i], scan[i], read[i], source, moments)
    BY <2>1 DEF LegacyInv
  <2>5. Dated("end", report[i], [scan[i] EXCEPT !.data = source.data], read[i], source, moments)
    BY <1>3, <2>4, Numbers
       DEF Dated, Moment, Taken, HasSettings, HasRows, HasHash, Collecting, Copied
  <2>6. "dataInspect" \in Outside /\ "end" \in Outside \cup {"end"}
    BY DEF Outside, LegacySteps, InTransaction, Owning, Publishing, Cleaning, Copied
  <2> QED BY <2>1, <2>2, <2>5, <2>6, <2>3, Stays, Takings, OutsideKeeps
<1>4. CASE pc[i] = "dataList"
  <2>1. /\ pc[i] = "dataList"
        /\ Move(i, "readRows", outcome[i], report[i], [scan[i] EXCEPT !.data = source.data],
                read[i])
    BY <1>4, Stays DEF Move, InventoryData, At, To, Ends, Inventories, Halfway
  <2>2. server = "down"
    BY <2>1, NoServerNextToImport DEF Running
  <2>3. UNCHANGED World
    BY <1>4 DEF InventoryData, At, To, Ends, Inventories, Halfway, World
  <2>4. outcome[i] = "none"
    BY <2>1 DEF LegacyInv, Own
  <2>5. Dated("dataList", report[i], scan[i], read[i], source, moments)
    BY <2>1 DEF LegacyInv
  <2>6. Dated("readRows", report[i], [scan[i] EXCEPT !.data = source.data], read[i], source,
      moments)
    BY <1>4, <2>5, Numbers
       DEF Dated, Moment, Taken, HasSettings, HasRows, HasHash, Collecting, Copied
  <2>7. "dataList" \in Outside /\ "readRows" \in Outside
    BY DEF Outside, LegacySteps, InTransaction, Owning, Publishing, Cleaning, Copied
  <2> QED BY <2>1, <2>2, <2>6, <2>7, <2>3, <2>4, Stays, Takings, OutsideKeeps
<1>5. CASE pc[i] = "dataAfter" /\ Same(i)
  <2>1. /\ pc[i] = "dataAfter"
        /\ Move(i, "begin", outcome[i], report[i], [scan[i] EXCEPT !.data = source.data], read[i])
    BY <1>5, Stays DEF Move, InventoryData, At, To, Ends, Inventories, Halfway
  <2>2. server = "down"
    BY <2>1, NoServerNextToImport DEF Running
  <2>3. UNCHANGED World
    BY <1>5 DEF InventoryData, At, To, Ends, Inventories, Halfway, World
  <2>4. outcome[i] = "none"
    BY <2>1 DEF LegacyInv, Own
  <2>5. Dated("dataAfter", report[i], scan[i], read[i], source, moments)
    BY <2>1 DEF LegacyInv
  <2>6. Dated("begin", report[i], [scan[i] EXCEPT !.data = source.data], read[i], source, moments)
    BY <1>5, <2>5, Numbers
       DEF Dated, Moment, Taken, HasSettings, HasRows, HasHash, Collecting, Copied
  <2>7. "dataAfter" \in Outside /\ "begin" \in Outside
    BY DEF Outside, LegacySteps, InTransaction, Owning, Publishing, Cleaning, Copied
  <2> QED BY <2>1, <2>2, <2>6, <2>7, <2>3, <2>4, Stays, Takings, OutsideKeeps
<1>6. CASE pc[i] = "dataAfter" /\ ~Same(i)
  <2>1. /\ pc[i] = "dataAfter"
        /\ Move(i, "end", "refused", report[i], [scan[i] EXCEPT !.data = source.data], read[i])
    BY <1>6, Stays DEF Move, InventoryData, At, To, Ends, Inventories, Halfway
  <2>2. server = "down"
    BY <2>1, NoServerNextToImport DEF Running
  <2>3. UNCHANGED World
    BY <1>6 DEF InventoryData, At, To, Ends, Inventories, Halfway, World
  <2>4. Dated("dataAfter", report[i], scan[i], read[i], source, moments)
    BY <2>1 DEF LegacyInv
  <2>5. Dated("end", report[i], [scan[i] EXCEPT !.data = source.data], read[i], source, moments)
    BY <1>6, <2>4, Numbers
       DEF Dated, Moment, Taken, HasSettings, HasRows, HasHash, Collecting, Copied
  <2>6. "dataAfter" \in Outside /\ "end" \in Outside \cup {"end"}
    BY DEF Outside, LegacySteps, InTransaction, Owning, Publishing, Cleaning, Copied
  <2> QED BY <2>1, <2>2, <2>5, <2>6, <2>3, Stays, Takings, OutsideKeeps
<1>7. CASE pc[i] = "dataFinal" /\ Same(i)
  <2>1. /\ pc[i] = "dataFinal"
        /\ Move(i, "commit", outcome[i], report[i], [scan[i] EXCEPT !.data = source.data],
                read[i])
    BY <1>7, Stays DEF Move, InventoryData, At, To, Ends, Inventories, Halfway
  <2>2. server = "down"
    BY <2>1, NoServerNextToImport DEF Running
  <2>3. Own(i, "dataFinal", outcome[i], read[i], locked, database, dir, moments)
    BY <2>1 DEF LegacyInv
  <2>4. Dated("dataFinal", report[i], scan[i], read[i], source, moments)
    BY <2>1 DEF LegacyInv
  <2>5. Reaches(i, "commit")
    BY <1>7, <2>1, <2>3, Stays, Numbers
       DEF Reaches, Own, Base, Target, InventoryData, At, To, Ends, Inventories, Halfway,
           InTransaction, Owning, Publishing, Cleaning
  <2>6. Own(i, "commit", outcome[i], read[i], locked', database', dir', moments)
    <3>1. report[i].files = scan[i].files /\ report[i].data = source.data
      BY <1>7, Stays DEF Same, Moment
    <3>2. /\ read[i].rows = source.data /\ read[i].settings = source.data
          /\ read[i].files = scan[i].files
      BY <2>4, <3>1, Numbers DEF Dated, HasRows, HasSettings, Copied
    <3>3. PICK m \in moments :
                m.data = report[i].data /\ report[i].files <= m.files /\ m.files <= scan[i].files
      BY <2>4 DEF Dated, HasHash, HasRows, HasSettings, Copied
    <3>4. m \in Moment
      BY DEF LegacyInv, LegacyTypes
    <3>5. m.files = scan[i].files
      BY <3>1, <3>3, <3>4, Numbers DEF Moment
    <3>6. m = [data |-> read[i].rows, files |-> read[i].files]
      BY <3>1, <3>2, <3>3, <3>4, <3>5 DEF Moment
    <3>7. Consistent(read[i], moments)
      BY <3>2, <3>6 DEF Consistent
    <3>8. database' = database /\ dir' = dir /\ locked' = locked
      BY <1>7 DEF InventoryData, Inventories, Halfway, At, To
    <3> QED BY <2>3, <3>7, <3>8 DEF Own, InTransaction, Owning, Publishing, Cleaning, Copied
  <2>7. Dated("commit", report[i], [scan[i] EXCEPT !.data = source.data], read[i], source,
      moments)
    BY <1>7, <2>4, Numbers
       DEF Dated, Moment, Taken, HasSettings, HasRows, HasHash, Collecting, Copied
  <2>8. Accounted(database', dir')
    BY <1>7, <2>1, <2>3, Stays
       DEF LegacyInv, Accounted, Own, Base, Target, InventoryData, At, To, Ends, Inventories,
           Halfway, InTransaction, Owning, Publishing, Cleaning
  <2>9. "commit" \in LegacySteps /\ [scan[i] EXCEPT !.data = source.data] \in Moment
    BY Takings DEF LegacySteps
  <2> QED BY <2>1, <2>2, <2>5, <2>6, <2>7, <2>8, <2>9, Stays, MoveKeeps
<1>8. CASE pc[i] = "dataFinal" /\ ~Same(i)
  <2>1. /\ pc[i] = "dataFinal"
        /\ Move(i, "cleanFiles", outcome[i], report[i], [scan[i] EXCEPT !.data = source.data],
                read[i])
    BY <1>8, Stays DEF Move, InventoryData, At, To, Ends, Inventories, Halfway
  <2>2. server = "down"
    BY <2>1, NoServerNextToImport DEF Running
  <2>3. Own(i, "dataFinal", outcome[i], read[i], locked, database, dir, moments)
    BY <2>1 DEF LegacyInv
  <2>4. Dated("dataFinal", report[i], scan[i], read[i], source, moments)
    BY <2>1 DEF LegacyInv
  <2>5. Reaches(i, "cleanFiles")
    BY <1>8, <2>1, <2>3, Stays, Numbers
       DEF Reaches, Own, Base, Target, InventoryData, At, To, Ends, Inventories, Halfway,
           InTransaction, Owning, Publishing, Cleaning
  <2>6. Own(i, "cleanFiles", outcome[i], read[i], locked', database', dir', moments)
    BY <1>8, <2>1, <2>3, Stays, LegacyImportAssumption
       DEF Own, Consistent, Base, Target, Taken, InventoryData, At, To, Ends, Inventories,
           Halfway, InTransaction, Owning, Publishing, Cleaning, Copied
  <2>7. Dated("cleanFiles", report[i], [scan[i] EXCEPT !.data = source.data], read[i], source,
      moments)
    BY <1>8, <2>4, Numbers
       DEF Dated, Moment, Taken, HasSettings, HasRows, HasHash, Collecting, Copied
  <2>8. Accounted(database', dir')
    BY <1>8, <2>1, <2>3, Stays
       DEF LegacyInv, Accounted, Own, Base, Target, InventoryData, At, To, Ends, Inventories,
           Halfway, InTransaction, Owning, Publishing, Cleaning
  <2>9. "cleanFiles" \in LegacySteps /\ [scan[i] EXCEPT !.data = source.data] \in Moment
    BY Takings DEF LegacySteps
  <2> QED BY <2>1, <2>2, <2>5, <2>6, <2>7, <2>8, <2>9, Stays, MoveKeeps
<1> QED BY <1>1, <1>2, <1>3, <1>4, <1>5, <1>6, <1>7, <1>8 DEF InventoryData, Inventories,
    Halfway, At

\* A target that was used, or that an import left something in, is refused.
LEMMA PreflightKeeps ==
  ASSUME LegacyInv, NEW i \in Importer, Preflight(i)
  PROVE  LegacyInv'
<1> USE DEF Preflight, At, To, Ends, Private, World
<1>1. CASE dir.journal \/ dir.receipt \/ dir.files # -1 \/ dir.used
  <2>1. pc[i] = "preflight" /\ Move(i, "end", "refused", report[i], scan[i], read[i])
    BY <1>1, Stays DEF Move
  <2>2. server = "down"
    BY <2>1, NoServerNextToImport DEF Running
  <2>3. UNCHANGED World
    BY <1>1 DEF World
  <2>4. Dated("preflight", report[i], scan[i], read[i], source, moments)
    BY <2>1 DEF LegacyInv
  <2>5. Dated("end", report[i], scan[i], read[i], source, moments)
    BY <1>1, <2>4, Numbers
       DEF Dated, Moment, Taken, HasSettings, HasRows, HasHash, Collecting, Copied
  <2>6. "preflight" \in Outside /\ "end" \in Outside \cup {"end"}
    BY DEF Outside, LegacySteps, InTransaction, Owning, Publishing, Cleaning, Copied
  <2> QED BY <2>1, <2>2, <2>5, <2>6, <2>3, Stays, OutsideKeeps
<1>2. CASE ~(dir.journal \/ dir.receipt \/ dir.files # -1 \/ dir.used)
  <2>1. pc[i] = "preflight" /\ Move(i, "list", outcome[i], report[i], scan[i], read[i])
    BY <1>2, Stays DEF Move
  <2>2. server = "down"
    BY <2>1, NoServerNextToImport DEF Running
  <2>3. UNCHANGED World
    BY <1>2 DEF World
  <2>4. outcome[i] = "none"
    BY <2>1 DEF LegacyInv, Own
  <2>5. Dated("preflight", report[i], scan[i], read[i], source, moments)
    BY <2>1 DEF LegacyInv
  <2>6. Dated("list", report[i], scan[i], read[i], source, moments)
    BY <1>2, <2>5, Numbers
       DEF Dated, Moment, Taken, HasSettings, HasRows, HasHash, Collecting, Copied
  <2>7. "preflight" \in Outside /\ "list" \in Outside
    BY DEF Outside, LegacySteps, InTransaction, Owning, Publishing, Cleaning, Copied
  <2> QED BY <2>1, <2>2, <2>6, <2>7, <2>3, <2>4, Stays, OutsideKeeps
<1> QED BY <1>1, <1>2

LEMMA ReadRowsKeeps ==
  ASSUME LegacyInv, NEW i \in Importer, ReadRows(i)
  PROVE  LegacyInv'
<1> USE DEF ReadRows, At, To, Set, World
<1>1. /\ pc[i] = "readRows"
      /\ Move(i, "after", outcome[i], report[i], scan[i], [read[i] EXCEPT !.rows = source.data])
  BY Stays DEF Move
<1>2. server = "down"
  BY <1>1, NoServerNextToImport DEF Running
<1>3. UNCHANGED World
  BY DEF World
<1>4. outcome[i] = "none"
  BY <1>1 DEF LegacyInv, Own
<1>5. Dated("readRows", report[i], scan[i], read[i], source, moments)
  BY <1>1 DEF LegacyInv
<1>6. Dated("after", report[i], scan[i], [read[i] EXCEPT !.rows = source.data], source, moments)
  BY <1>5, Numbers DEF Dated, Moment, Taken, HasSettings, HasRows, HasHash, Collecting, Copied
<1>7. "readRows" \in Outside /\ "after" \in Outside
  BY DEF Outside, LegacySteps, InTransaction, Owning, Publishing, Cleaning, Copied
<1> QED BY <1>1, <1>2, <1>6, <1>7, <1>3, <1>4, Stays, Takings, OutsideKeeps

\* The tables are locked and found to be empty at the same moment.
LEMMA LockAndCheckEmptyKeeps ==
  ASSUME LegacyInv, NEW i \in Importer, LockAndCheckEmpty(i)
  PROVE  LegacyInv'
<1> USE DEF LockAndCheckEmpty, At, To, Ends, Private
<1>1. CASE database.by = Nobody
  <2>1. pc[i] = "begin" /\ Move(i, "insert", outcome[i], report[i], scan[i], read[i])
    BY <1>1, Stays DEF Move
  <2>2. server = "down"
    BY <2>1, NoServerNextToImport DEF Running
  <2>3. Own(i, "begin", outcome[i], read[i], locked, database, dir, moments)
    BY <2>1 DEF LegacyInv
  <2>4. Dated("begin", report[i], scan[i], read[i], source, moments)
    BY <2>1 DEF LegacyInv
  <2>5. Reaches(i, "insert")
    BY <1>1, <2>1, <2>3, Stays, Numbers
       DEF Reaches, Own, Base, Target, InTransaction, Owning, Publishing, Cleaning
  <2>6. Own(i, "insert", outcome[i], read[i], locked', database', dir', moments)
    BY <1>1, <2>1, <2>3, Stays, LegacyImportAssumption
       DEF Own, Consistent, Base, Target, Taken, InTransaction, Owning, Publishing, Cleaning,
           Copied
  <2>7. Dated("insert", report[i], scan[i], read[i], source, moments)
    BY <1>1, <2>4, Numbers
       DEF Dated, Moment, Taken, HasSettings, HasRows, HasHash, Collecting, Copied
  <2>8. Accounted(database', dir')
    BY <1>1, <2>1, <2>3, Stays
       DEF LegacyInv, Accounted, Own, Base, Target, InTransaction, Owning, Publishing, Cleaning
  <2>9. "insert" \in LegacySteps
    BY DEF LegacySteps
  <2> QED BY <2>1, <2>2, <2>5, <2>6, <2>7, <2>8, <2>9, Stays, MoveKeeps
<1>2. CASE database.by # Nobody
  <2>1. pc[i] = "begin" /\ Move(i, "end", "refused", report[i], scan[i], read[i])
    BY <1>2, Stays DEF Move
  <2>2. server = "down"
    BY <2>1, NoServerNextToImport DEF Running
  <2>3. UNCHANGED World
    BY <1>2 DEF World
  <2>4. Dated("begin", report[i], scan[i], read[i], source, moments)
    BY <2>1 DEF LegacyInv
  <2>5. Dated("end", report[i], scan[i], read[i], source, moments)
    BY <1>2, <2>4, Numbers
       DEF Dated, Moment, Taken, HasSettings, HasRows, HasHash, Collecting, Copied
  <2>6. "begin" \in Outside /\ "end" \in Outside \cup {"end"}
    BY DEF Outside, LegacySteps, InTransaction, Owning, Publishing, Cleaning, Copied
  <2> QED BY <2>1, <2>2, <2>5, <2>6, <2>3, Stays, OutsideKeeps
<1> QED BY <1>1, <1>2

LEMMA InsertKeeps ==
  ASSUME LegacyInv, NEW i \in Importer, Insert(i)
  PROVE  LegacyInv'
<1> USE DEF Insert, At, To, Set, Ends
<1>1. CASE To(i, "journal") /\ UNCHANGED <<outcome, locked>>
  <2>1. /\ pc[i] = "insert"
        /\ Move(i, "journal", outcome[i], report[i], scan[i],
                [read[i] EXCEPT !.settings = source.data])
    BY <1>1, Stays DEF Move
  <2>2. server = "down"
    BY <2>1, NoServerNextToImport DEF Running
  <2>3. Own(i, "insert", outcome[i], read[i], locked, database, dir, moments)
    BY <2>1 DEF LegacyInv
  <2>4. Dated("insert", report[i], scan[i], read[i], source, moments)
    BY <2>1 DEF LegacyInv
  <2>5. Reaches(i, "journal")
    BY <1>1, <2>1, <2>3, Stays, Numbers
       DEF Reaches, Own, Base, Target, InTransaction, Owning, Publishing, Cleaning
  <2>6. Own(i, "journal", outcome[i], [read[i] EXCEPT !.settings = source.data], locked',
      database', dir', moments)
    BY <1>1, <2>1, <2>3, Stays, LegacyImportAssumption
       DEF Own, Consistent, Base, Target, Taken, InTransaction, Owning, Publishing, Cleaning,
           Copied
  <2>7. Dated("journal", report[i], scan[i], [read[i] EXCEPT !.settings = source.data], source,
      moments)
    BY <1>1, <2>4, Numbers
       DEF Dated, Moment, Taken, HasSettings, HasRows, HasHash, Collecting, Copied
  <2>8. Accounted(database', dir')
    BY <1>1, <2>1, <2>3, Stays
       DEF LegacyInv, Accounted, Own, Base, Target, InTransaction, Owning, Publishing, Cleaning
  <2>9. "journal" \in LegacySteps /\ [read[i] EXCEPT !.settings = source.data] \in Taken
    BY Takings DEF LegacySteps
  <2> QED BY <2>1, <2>2, <2>5, <2>6, <2>7, <2>8, <2>9, Stays, MoveKeeps
<1>2. CASE Ends(i, "dry run") /\ locked' = Nobody
  <2>1. /\ pc[i] = "insert"
        /\ Move(i, "end", "dry run", report[i], scan[i],
                [read[i] EXCEPT !.settings = source.data])
    BY <1>2, Stays DEF Move
  <2>2. server = "down"
    BY <2>1, NoServerNextToImport DEF Running
  <2>3. Own(i, "insert", outcome[i], read[i], locked, database, dir, moments)
    BY <2>1 DEF LegacyInv
  <2>4. Dated("insert", report[i], scan[i], read[i], source, moments)
    BY <2>1 DEF LegacyInv
  <2>5. Reaches(i, "end")
    BY <1>2, <2>1, <2>3, Stays, Numbers
       DEF Reaches, Own, Base, Target, InTransaction, Owning, Publishing, Cleaning
  <2>6. Own(i, "end", "dry run", [read[i] EXCEPT !.settings = source.data], locked', database',
      dir', moments)
    BY <1>2, <2>1, <2>3, Stays, LegacyImportAssumption
       DEF Own, Consistent, Base, Target, Taken, InTransaction, Owning, Publishing, Cleaning,
           Copied
  <2>7. Dated("end", report[i], scan[i], [read[i] EXCEPT !.settings = source.data], source,
      moments)
    BY <1>2, <2>4, Numbers
       DEF Dated, Moment, Taken, HasSettings, HasRows, HasHash, Collecting, Copied
  <2>8. Accounted(database', dir')
    BY <1>2, <2>1, <2>3, Stays
       DEF LegacyInv, Accounted, Own, Base, Target, InTransaction, Owning, Publishing, Cleaning
  <2>9. /\ "end" \in LegacySteps /\ "dry run" \in Outcomes
        /\ [read[i] EXCEPT !.settings = source.data] \in Taken
    BY Takings DEF LegacySteps, Outcomes
  <2> QED BY <2>1, <2>2, <2>5, <2>6, <2>7, <2>8, <2>9, Stays, MoveKeeps
<1> QED BY <1>1, <1>2

\* Where there is a journal the import is undone; else it owns the directory from here.
LEMMA WriteJournalKeeps ==
  ASSUME LegacyInv, NEW i \in Importer, WriteJournal(i)
  PROVE  LegacyInv'
<1> USE DEF WriteJournal, At, To, Ends, Private
<1>1. CASE dir.journal
  <2>1. pc[i] = "journal" /\ Move(i, "end", "rolled back", report[i], scan[i], read[i])
    BY <1>1, Stays DEF Move
  <2>2. server = "down"
    BY <2>1, NoServerNextToImport DEF Running
  <2>3. Own(i, "journal", outcome[i], read[i], locked, database, dir, moments)
    BY <2>1 DEF LegacyInv
  <2>4. Dated("journal", report[i], scan[i], read[i], source, moments)
    BY <2>1 DEF LegacyInv
  <2>5. Reaches(i, "end")
    BY <1>1, <2>1, <2>3, Stays, Numbers
       DEF Reaches, Own, Base, Target, InTransaction, Owning, Publishing, Cleaning
  <2>6. Own(i, "end", "rolled back", read[i], locked', database', dir', moments)
    BY <1>1, <2>1, <2>3, Stays, LegacyImportAssumption
       DEF Own, Consistent, Base, Target, Taken, InTransaction, Owning, Publishing, Cleaning,
           Copied
  <2>7. Dated("end", report[i], scan[i], read[i], source, moments)
    BY <1>1, <2>4, Numbers
       DEF Dated, Moment, Taken, HasSettings, HasRows, HasHash, Collecting, Copied
  <2>8. Accounted(database', dir')
    BY <1>1, <2>1, <2>3, Stays
       DEF LegacyInv, Accounted, Own, Base, Target, InTransaction, Owning, Publishing, Cleaning
  <2>9. "end" \in LegacySteps /\ "rolled back" \in Outcomes
    BY DEF LegacySteps, Outcomes
  <2> QED BY <2>1, <2>2, <2>5, <2>6, <2>7, <2>8, <2>9, Stays, MoveKeeps
<1>2. CASE ~dir.journal
  <2>1. pc[i] = "journal" /\ Move(i, "copy", outcome[i], report[i], scan[i], read[i])
    BY <1>2, Stays DEF Move
  <2>2. server = "down"
    BY <2>1, NoServerNextToImport DEF Running
  <2>3. Own(i, "journal", outcome[i], read[i], locked, database, dir, moments)
    BY <2>1 DEF LegacyInv
  <2>4. Dated("journal", report[i], scan[i], read[i], source, moments)
    BY <2>1 DEF LegacyInv
  <2>5. Reaches(i, "copy")
    BY <1>2, <2>1, <2>3, Stays, Numbers
       DEF Reaches, Own, Base, Target, InTransaction, Owning, Publishing, Cleaning
  <2>6. Own(i, "copy", outcome[i], read[i], locked', database', dir', moments)
    BY <1>2, <2>1, <2>3, Stays, LegacyImportAssumption
       DEF Own, Consistent, Base, Target, Taken, InTransaction, Owning, Publishing, Cleaning,
           Copied
  <2>7. Dated("copy", report[i], scan[i], read[i], source, moments)
    BY <1>2, <2>4, Numbers
       DEF Dated, Moment, Taken, HasSettings, HasRows, HasHash, Collecting, Copied
  <2>8. Accounted(database', dir')
    <3>1. dir'.journal /\ dir'.receipt = dir.receipt /\ database' = database
      BY <1>2, Stays DEF WriteJournal, Target
    <3> QED BY <3>1 DEF LegacyInv, Accounted
  <2>9. "copy" \in LegacySteps
    BY DEF LegacySteps
  <2> QED BY <2>1, <2>2, <2>5, <2>6, <2>7, <2>8, <2>9, Stays, MoveKeeps
<1> QED BY <1>1, <1>2

LEMMA CopyFilesKeeps ==
  ASSUME LegacyInv, NEW i \in Importer, CopyFiles(i)
  PROVE  LegacyInv'
<1> USE DEF CopyFiles, At, To, Set
<1>1. /\ pc[i] = "copy"
      /\ Move(i, "final", outcome[i], report[i], scan[i], [read[i] EXCEPT !.files = source.files])
  BY Stays DEF Move
<1>2. server = "down"
  BY <1>1, NoServerNextToImport DEF Running
<1>3. Own(i, "copy", outcome[i], read[i], locked, database, dir, moments)
  BY <1>1 DEF LegacyInv
<1>4. Dated("copy", report[i], scan[i], read[i], source, moments)
  BY <1>1 DEF LegacyInv
<1>5. Reaches(i, "final")
  BY <1>1, <1>3, Stays, Numbers
     DEF Reaches, Own, Base, Target, InTransaction, Owning, Publishing, Cleaning
<1>6. Own(i, "final", outcome[i], [read[i] EXCEPT !.files = source.files], locked', database',
    dir', moments)
  BY <1>1, <1>3, Stays, LegacyImportAssumption
     DEF Own, Consistent, Base, Target, Taken, InTransaction, Owning, Publishing, Cleaning, Copied
<1>7. Dated("final", report[i], scan[i], [read[i] EXCEPT !.files = source.files], source, moments)
  <2> DEFINE taken == [read[i] EXCEPT !.files = source.files]
  <2>1. /\ taken.rows = read[i].rows /\ taken.settings = read[i].settings
        /\ taken.files = source.files
    BY Stays DEF Taken
  <2> HIDE DEF taken
  <2>2. PICK m \in moments :
              m.data = report[i].data /\ report[i].files <= m.files /\ m.files <= source.files
    BY <1>4 DEF Dated, HasHash, HasRows, HasSettings, Copied
  <2>3. m.files \in Nat
    BY DEF LegacyInv, LegacyTypes, Moment
  <2>4. report[i].files <= source.files
    BY <2>2, <2>3, Numbers
  <2> QED BY <1>4, <2>1, <2>4, Numbers DEF Dated, HasHash, HasRows, HasSettings, Copied,
      Collecting
<1>8. Accounted(database', dir')
  BY <1>1, <1>3, Stays
     DEF LegacyInv, Accounted, Own, Base, Target, InTransaction, Owning, Publishing, Cleaning
<1>9. "final" \in LegacySteps /\ [read[i] EXCEPT !.files = source.files] \in Taken
  BY Takings DEF LegacySteps
<1> QED BY <1>1, <1>2, <1>5, <1>6, <1>7, <1>8, <1>9, Stays, MoveKeeps

\* What was taken becomes the database's, by this importer and for good.
LEMMA CommitKeeps ==
  ASSUME LegacyInv, NEW i \in Importer, Commit(i)
  PROVE  LegacyInv'
<1> USE DEF Commit, At, To, Private
<1>1. pc[i] = "commit" /\ Move(i, "receipt", outcome[i], report[i], scan[i], read[i])
  BY Stays DEF Move
<1>2. server = "down"
  BY <1>1, NoServerNextToImport DEF Running
<1>3. Own(i, "commit", outcome[i], read[i], locked, database, dir, moments)
  BY <1>1 DEF LegacyInv
<1>4. Dated("commit", report[i], scan[i], read[i], source, moments)
  BY <1>1 DEF LegacyInv
<1>5. Reaches(i, "receipt")
  BY <1>1, <1>3, Stays, Numbers
     DEF Reaches, Own, Base, Target, Committed, InTransaction, Owning, Publishing, Cleaning
<1>6. Own(i, "receipt", outcome[i], read[i], locked', database', dir', moments)
  BY <1>1, <1>3, Stays, LegacyImportAssumption
     DEF Own, Consistent, Base, Target, Taken, Committed, InTransaction, Owning, Publishing,
         Cleaning, Copied
<1>7. Dated("receipt", report[i], scan[i], read[i], source, moments)
  BY <1>4, Numbers DEF Dated, Moment, Taken, HasSettings, HasRows, HasHash, Collecting, Copied
<1>8. Accounted(database', dir')
  BY <1>1, <1>3, Stays
     DEF LegacyInv, Accounted, Own, Base, Target, Committed, InTransaction, Owning, Publishing,
         Cleaning
<1>9. "receipt" \in LegacySteps
  BY DEF LegacySteps
<1> QED BY <1>1, <1>2, <1>5, <1>6, <1>7, <1>8, <1>9, Stays, MoveKeeps

LEMMA WriteReceiptKeeps ==
  ASSUME LegacyInv, NEW i \in Importer, WriteReceipt(i)
  PROVE  LegacyInv'
<1> USE DEF WriteReceipt, At, To, Private
<1>1. pc[i] = "receipt" /\ Move(i, "rebuild", outcome[i], report[i], scan[i], read[i])
  BY Stays DEF Move
<1>2. server = "down"
  BY <1>1, NoServerNextToImport DEF Running
<1>3. Own(i, "receipt", outcome[i], read[i], locked, database, dir, moments)
  BY <1>1 DEF LegacyInv
<1>4. Dated("receipt", report[i], scan[i], read[i], source, moments)
  BY <1>1 DEF LegacyInv
<1>5. Reaches(i, "rebuild")
  BY <1>1, <1>3, Stays, Numbers
     DEF Reaches, Own, Base, Target, InTransaction, Owning, Publishing, Cleaning
<1>6. Own(i, "rebuild", outcome[i], read[i], locked', database', dir', moments)
  BY <1>1, <1>3, Stays, LegacyImportAssumption
     DEF Own, Consistent, Base, Target, Taken, InTransaction, Owning, Publishing, Cleaning, Copied
<1>7. Dated("rebuild", report[i], scan[i], read[i], source, moments)
  BY <1>4, Numbers DEF Dated, Moment, Taken, HasSettings, HasRows, HasHash, Collecting, Copied
<1>8. Accounted(database', dir')
  BY <1>1, <1>3, Stays
     DEF LegacyInv, Accounted, Own, Base, Target, InTransaction, Owning, Publishing, Cleaning
<1>9. "rebuild" \in LegacySteps
  BY DEF LegacySteps
<1> QED BY <1>1, <1>2, <1>5, <1>6, <1>7, <1>8, <1>9, Stays, MoveKeeps

LEMMA RebuildDerivedKeeps ==
  ASSUME LegacyInv, NEW i \in Importer, RebuildDerived(i)
  PROVE  LegacyInv'
<1> USE DEF RebuildDerived, At, To, Private
<1>1. pc[i] = "rebuild" /\ Move(i, "close", outcome[i], report[i], scan[i], read[i])
  BY Stays DEF Move
<1>2. server = "down"
  BY <1>1, NoServerNextToImport DEF Running
<1>3. Own(i, "rebuild", outcome[i], read[i], locked, database, dir, moments)
  BY <1>1 DEF LegacyInv
<1>4. Dated("rebuild", report[i], scan[i], read[i], source, moments)
  BY <1>1 DEF LegacyInv
<1>5. Reaches(i, "close")
  BY <1>1, <1>3, Stays, Numbers
     DEF Reaches, Own, Base, Target, InTransaction, Owning, Publishing, Cleaning
<1>6. Own(i, "close", outcome[i], read[i], locked', database', dir', moments)
  BY <1>1, <1>3, Stays, LegacyImportAssumption
     DEF Own, Consistent, Base, Target, Taken, InTransaction, Owning, Publishing, Cleaning, Copied
<1>7. Dated("close", report[i], scan[i], read[i], source, moments)
  BY <1>4, Numbers DEF Dated, Moment, Taken, HasSettings, HasRows, HasHash, Collecting, Copied
<1>8. Accounted(database', dir')
  BY <1>1, <1>3, Stays
     DEF LegacyInv, Accounted, Own, Base, Target, InTransaction, Owning, Publishing, Cleaning
<1>9. "close" \in LegacySteps
  BY DEF LegacySteps
<1> QED BY <1>1, <1>2, <1>5, <1>6, <1>7, <1>8, <1>9, Stays, MoveKeeps

\* The journal goes last, when receipt and indexes are there.
LEMMA RemoveJournalKeeps ==
  ASSUME LegacyInv, NEW i \in Importer, RemoveJournal(i)
  PROVE  LegacyInv'
<1> USE DEF RemoveJournal, At, Ends, Private
<1>1. pc[i] = "close" /\ Move(i, "end", "committed", report[i], scan[i], read[i])
  BY Stays DEF Move
<1>2. server = "down"
  BY <1>1, NoServerNextToImport DEF Running
<1>3. Own(i, "close", outcome[i], read[i], locked, database, dir, moments)
  BY <1>1 DEF LegacyInv
<1>4. Dated("close", report[i], scan[i], read[i], source, moments)
  BY <1>1 DEF LegacyInv
<1>5. Reaches(i, "end")
  BY <1>1, <1>3, Stays, Numbers
     DEF Reaches, Own, Base, Target, InTransaction, Owning, Publishing, Cleaning
<1>6. Own(i, "end", "committed", read[i], locked', database', dir', moments)
  BY <1>1, <1>3, Stays, LegacyImportAssumption
     DEF Own, Consistent, Base, Target, Taken, InTransaction, Owning, Publishing, Cleaning, Copied
<1>7. Dated("end", report[i], scan[i], read[i], source, moments)
  BY <1>4, Numbers DEF Dated, Moment, Taken, HasSettings, HasRows, HasHash, Collecting, Copied
<1>8. Accounted(database', dir')
  BY <1>1, <1>3, Stays
     DEF LegacyInv, Accounted, Own, Base, Target, InTransaction, Owning, Publishing, Cleaning
<1>9. "end" \in LegacySteps /\ "committed" \in Outcomes
  BY DEF LegacySteps, Outcomes
<1> QED BY <1>1, <1>2, <1>5, <1>6, <1>7, <1>8, <1>9, Stays, MoveKeeps

\* What was copied is removed while the journal is there.
LEMMA CleanFilesKeeps ==
  ASSUME LegacyInv, NEW i \in Importer, CleanFiles(i)
  PROVE  LegacyInv'
<1> USE DEF CleanFiles, At, To, Private
<1>1. pc[i] = "cleanFiles" /\ Move(i, "cleanJournal", outcome[i], report[i], scan[i], read[i])
  BY Stays DEF Move
<1>2. server = "down"
  BY <1>1, NoServerNextToImport DEF Running
<1>3. Own(i, "cleanFiles", outcome[i], read[i], locked, database, dir, moments)
  BY <1>1 DEF LegacyInv
<1>4. Dated("cleanFiles", report[i], scan[i], read[i], source, moments)
  BY <1>1 DEF LegacyInv
<1>5. Reaches(i, "cleanJournal")
  BY <1>1, <1>3, Stays, Numbers
     DEF Reaches, Own, Base, Target, InTransaction, Owning, Publishing, Cleaning
<1>6. Own(i, "cleanJournal", outcome[i], read[i], locked', database', dir', moments)
  BY <1>1, <1>3, Stays, LegacyImportAssumption
     DEF Own, Consistent, Base, Target, Taken, InTransaction, Owning, Publishing, Cleaning, Copied
<1>7. Dated("cleanJournal", report[i], scan[i], read[i], source, moments)
  BY <1>4, Numbers DEF Dated, Moment, Taken, HasSettings, HasRows, HasHash, Collecting, Copied
<1>8. Accounted(database', dir')
  BY <1>1, <1>3, Stays
     DEF LegacyInv, Accounted, Own, Base, Target, InTransaction, Owning, Publishing, Cleaning
<1>9. "cleanJournal" \in LegacySteps
  BY DEF LegacySteps
<1> QED BY <1>1, <1>2, <1>5, <1>6, <1>7, <1>8, <1>9, Stays, MoveKeeps

LEMMA CleanJournalKeeps ==
  ASSUME LegacyInv, NEW i \in Importer, CleanJournal(i)
  PROVE  LegacyInv'
<1> USE DEF CleanJournal, At, Ends, Private
<1>1. pc[i] = "cleanJournal" /\ Move(i, "end", "rolled back", report[i], scan[i], read[i])
  BY Stays DEF Move
<1>2. server = "down"
  BY <1>1, NoServerNextToImport DEF Running
<1>3. Own(i, "cleanJournal", outcome[i], read[i], locked, database, dir, moments)
  BY <1>1 DEF LegacyInv
<1>4. Dated("cleanJournal", report[i], scan[i], read[i], source, moments)
  BY <1>1 DEF LegacyInv
<1>5. Reaches(i, "end")
  BY <1>1, <1>3, Stays, Numbers
     DEF Reaches, Own, Base, Target, InTransaction, Owning, Publishing, Cleaning
<1>6. Own(i, "end", "rolled back", read[i], locked', database', dir', moments)
  BY <1>1, <1>3, Stays, LegacyImportAssumption
     DEF Own, Consistent, Base, Target, Taken, InTransaction, Owning, Publishing, Cleaning, Copied
<1>7. Dated("end", report[i], scan[i], read[i], source, moments)
  BY <1>4, Numbers DEF Dated, Moment, Taken, HasSettings, HasRows, HasHash, Collecting, Copied
<1>8. Accounted(database', dir')
  BY <1>1, <1>3, Stays
     DEF LegacyInv, Accounted, Own, Base, Target, InTransaction, Owning, Publishing, Cleaning
<1>9. "end" \in LegacySteps /\ "rolled back" \in Outcomes
  BY DEF LegacySteps, Outcomes
<1> QED BY <1>1, <1>2, <1>5, <1>6, <1>7, <1>8, <1>9, Stays, MoveKeeps

\* A step on which an importer ends needs no dates any more.
LEMMA EndsKeep ==
  ASSUME LegacyInv, NEW i \in Importer, NEW how \in Outcomes, Running(i),
         Move(i, "end", how, report[i], scan[i], read[i]), Reaches(i, "end"),
         Own(i, "end", how, read[i], locked', database', dir', moments), Accounted(database',
             dir')
  PROVE  LegacyInv'
<1>1. Dated("end", report[i], scan[i], read[i], source, moments)
  BY DEF Dated, HasHash, HasRows, HasSettings, Copied, Collecting
<1>2. server = "down"
  BY NoServerNextToImport
<1>3. "end" \in LegacySteps
  BY DEF LegacySteps
<1> QED BY <1>1, <1>2, <1>3, Stays, MoveKeeps

LEMMA FailEarlyKeeps ==
  ASSUME LegacyInv, NEW i \in Importer, FailImport(i), FailEarly(i)
  PROVE  LegacyInv'
<1> DEFINE how == IF pc[i] \in InTransaction THEN "rolled back" ELSE "refused"
<1>1. how \in Outcomes /\ how \in {"rolled back", "refused"}
  BY DEF Outcomes
<1>2. Move(i, "end", how, report[i], scan[i], read[i]) /\ Running(i)
  BY Stays DEF Move, FailImport, FailEarly, Ends, Private
<1>3. Own(i, pc[i], outcome[i], read[i], locked, database, dir, moments)
  BY DEF LegacyInv
<1>4. database.by # i /\ database' = database /\ pc[i] # "end"
  BY <1>3 DEF Own, FailEarly, Running, Publishing
<1>5. /\ locked' # i /\ locked' \in Importer \cup {Nobody}
      /\ locked' = locked \/ (locked = i /\ locked' = Nobody)
  BY Stays, LegacyImportAssumption DEF FailEarly, Loses
<1>6. \/ dir' = dir
      \/ pc[i] = "journal" /\ ~dir.journal /\ dir' = [dir EXCEPT !.journal = TRUE]
  BY DEF FailEarly, At
<1>7. /\ dir' \in Target /\ dir'.files = dir.files /\ dir'.receipt = dir.receipt
      /\ dir.journal => dir'.journal
  BY <1>6, Stays DEF Target
<1>8. Reaches(i, "end")
  BY <1>4, <1>5, <1>6, <1>7, Stays DEF Reaches, FailImport, Owning, Publishing, Cleaning
<1>9. Own(i, "end", how, read[i], locked', database', dir', moments)
  BY <1>1, <1>4, <1>5 DEF Own, InTransaction, Owning, Publishing, Cleaning, Copied
<1>10. Accounted(database', dir')
  BY <1>4, <1>7 DEF LegacyInv, Accounted
<1> HIDE DEF how
<1> QED BY <1>1, <1>2, <1>8, <1>9, <1>10, EndsKeep

LEMMA FailCopyingKeeps ==
  ASSUME LegacyInv, NEW i \in Importer, FailImport(i), FailCopying(i)
  PROVE  LegacyInv'
<1>1. /\ Move(i, "cleanFiles", outcome[i], report[i], scan[i], read[i])
      /\ pc[i] \in {"copy", "final", "dataFinal"}
  BY Stays DEF Move, FailImport, FailCopying, To, Private
<1>2. Own(i, pc[i], outcome[i], read[i], locked, database, dir, moments)
  BY DEF LegacyInv
<1>3. server = "down"
  BY <1>1, NoServerNextToImport DEF Running
<1>4. /\ dir' \in Target /\ dir'.journal = dir.journal /\ dir'.receipt = dir.receipt
      /\ database' = database /\ locked' = Nobody
  BY <1>1, Stays DEF FailCopying, Target
<1>5. dir.journal /\ locked = i /\ database.by = Nobody
  BY <1>1, <1>2 DEF Own, InTransaction, Owning
<1>6. Reaches(i, "cleanFiles")
  BY <1>1, <1>4, <1>5, Stays DEF Reaches, FailImport, Owning
<1>7. Own(i, "cleanFiles", outcome[i], read[i], locked', database', dir', moments)
  BY <1>1, <1>2, <1>4, <1>5, LegacyImportAssumption
     DEF Own, InTransaction, Owning, Publishing, Cleaning, Copied
<1>8. Dated("cleanFiles", report[i], scan[i], read[i], source, moments)
  BY DEF Dated, HasHash, HasRows, HasSettings, Copied, Collecting
<1>9. Accounted(database', dir')
  BY <1>4, <1>5 DEF LegacyInv, Accounted
<1>10. "cleanFiles" \in LegacySteps
  BY DEF LegacySteps
<1> QED BY <1>1, <1>3, <1>6, <1>7, <1>8, <1>9, <1>10, Stays, MoveKeeps

\* Whether or not the commit was done, what it may have left is consistent.
LEMMA CommitEnds ==
  ASSUME LegacyInv, NEW i \in Importer, NEW how \in {"unknown", "killed"}, pc[i] = "commit",
         Move(i, "end", how, report[i], scan[i], read[i]), UNCHANGED <<source, moments, server>>,
         mishaps' \in Nat, locked' = Nobody, database' \in {database, Committed(i)}, dir' = dir
  PROVE  LegacyInv'
<1>1. Own(i, "commit", outcome[i], read[i], locked, database, dir, moments)
  BY DEF LegacyInv
<1>2. /\ locked = i /\ dir.journal /\ database.by = Nobody /\ dir.files = read[i].files
      /\ Consistent(read[i], moments)
  BY <1>1 DEF Own, InTransaction, Owning
<1>3. /\ Committed(i) \in Base /\ Committed(i).by = i /\ Committed(i).rows = read[i].rows
      /\ Committed(i).settings = read[i].settings
  BY Numbers DEF Committed, Base
<1>4. Reaches(i, "end")
  BY <1>2, <1>3, Stays DEF Reaches, Owning, Publishing, Cleaning
<1>5. Own(i, "end", how, read[i], locked', database', dir', moments)
  BY <1>2, <1>3, LegacyImportAssumption
     DEF Own, InTransaction, Owning, Publishing, Cleaning, Copied
<1>6. Accounted(database', dir')
  BY <1>2, <1>3 DEF LegacyInv, Accounted
<1>7. Running(i) /\ how \in Outcomes
  BY DEF Running, Outcomes
<1> QED BY <1>4, <1>5, <1>6, <1>7, EndsKeep

LEMMA FailCommitKeeps ==
  ASSUME LegacyInv, NEW i \in Importer, FailImport(i), FailCommit(i)
  PROVE  LegacyInv'
<1>1. Move(i, "end", "unknown", report[i], scan[i], read[i]) /\ mishaps' \in Nat
  BY Stays DEF Move, FailImport, FailCommit, Ends, Private
<1> QED BY <1>1, CommitEnds DEF FailCommit, FailImport, At

LEMMA FailLateKeeps ==
  ASSUME LegacyInv, NEW i \in Importer, FailImport(i), FailLate(i)
  PROVE  LegacyInv'
<1> DEFINE how == IF pc[i] \in {"cleanFiles", "cleanJournal"} THEN "rolled back" ELSE "committed"
<1>1. how \in Outcomes
  BY DEF Outcomes
<1>2. Move(i, "end", how, report[i], scan[i], read[i]) /\ Running(i)
  BY Stays DEF Move, FailImport, FailLate, Ends, Private, Running
<1>3. Own(i, pc[i], outcome[i], read[i], locked, database, dir, moments)
  BY DEF LegacyInv
<1>4. pc[i] \in Publishing \cup Cleaning /\ dir' = dir /\ database' = database /\ locked' = locked
  BY DEF FailLate, Publishing, Cleaning
<1>5. /\ locked # i /\ dir.journal
      /\ pc[i] \in Cleaning => how = "rolled back" /\ database.by = Nobody
      /\ pc[i] \in Publishing => how = "committed" /\ database.by = i
  BY <1>3, <1>4 DEF Own, Owning, InTransaction, Publishing, Cleaning
<1>6. Reaches(i, "end")
  BY <1>4, Stays DEF Reaches, FailImport, Owning, Publishing, Cleaning
<1> HIDE DEF how
<1>7. Own(i, "end", how, read[i], locked', database', dir', moments)
  BY <1>3, <1>4, <1>5, LegacyImportAssumption
     DEF Own, InTransaction, Owning, Publishing, Cleaning, Copied
<1>8. Accounted(database', dir')
  BY <1>4 DEF LegacyInv
<1> QED BY <1>1, <1>2, <1>6, <1>7, <1>8, EndsKeep

LEMMA KillKeeps ==
  ASSUME LegacyInv, NEW i \in Importer, Kill(i)
  PROVE  LegacyInv'
<1>1. Move(i, "end", "killed", report[i], scan[i], read[i]) /\ Running(i) /\ mishaps' \in Nat
  BY Stays DEF Move, Kill, Ends, Private
<1>2. Own(i, pc[i], outcome[i], read[i], locked, database, dir, moments)
  BY DEF LegacyInv
<1>3. CASE pc[i] = "commit"
  <2>1. locked = i
    BY <1>2, <1>3 DEF Own, InTransaction
  <2> QED BY <1>1, <1>3, <2>1, CommitEnds DEF Kill, Loses, At
<1>4. CASE pc[i] # "commit"
  <2>1. database' = database
    BY <1>4 DEF Kill, At
  <2>2. /\ locked' # i /\ locked' \in Importer \cup {Nobody}
        /\ locked' = locked \/ (locked = i /\ locked' = Nobody)
    BY Stays, LegacyImportAssumption DEF Kill, Loses
  <2>3. dir' = dir \/ (pc[i] = "copy" /\ dir' = [dir EXCEPT !.files = -2])
    BY DEF Kill, At
  <2>4. /\ dir' \in Target /\ dir'.journal = dir.journal /\ dir'.receipt = dir.receipt
        /\ pc[i] = "copy" => database.by = Nobody /\ dir.journal
        /\ pc[i] # "copy" => dir' = dir
    <3>1. CASE dir' = dir
      BY <1>2, <3>1, Stays DEF Own, InTransaction, Owning
    <3>2. CASE pc[i] = "copy" /\ dir' = [dir EXCEPT !.files = -2]
      <4>1. dir' \in Target /\ dir'.journal = dir.journal /\ dir'.receipt = dir.receipt
        BY <3>2, Stays DEF Target
      <4> QED BY <1>2, <3>2, <4>1 DEF Own, InTransaction, Owning
    <3> QED BY <2>3, <3>1, <3>2
  <2>5. Reaches(i, "end")
    BY <1>1, <2>1, <2>2, <2>3, <2>4, Stays DEF Reaches, Kill, Owning, Publishing, Cleaning
  <2>6. Own(i, "end", "killed", read[i], locked', database', dir', moments)
    BY <1>1, <1>2, <1>4, <2>1, <2>2, <2>4, LegacyImportAssumption
       DEF Own, InTransaction, Owning, Publishing, Cleaning, Copied, Running
  <2>7. Accounted(database', dir')
    BY <2>1, <2>4 DEF LegacyInv, Accounted
  <2> QED BY <1>1, <2>5, <2>6, <2>7, EndsKeep DEF Outcomes
<1> QED BY <1>3, <1>4

\* An edit only makes the source newer.
LEMMA EditKeeps ==
  ASSUME LegacyInv, Edit
  PROVE  LegacyInv'
<1>1. source \in Moment /\ moments \subseteq Moment
  BY DEF LegacyInv, LegacyTypes
<1>2. PICK part \in {"data", "files"} : source' = [source EXCEPT ![part] = @ + 1]
  BY DEF Edit
<1>3. source' \in Moment /\ source.data <= source'.data /\ source.files <= source'.files
  <2>1. CASE part = "data"
    BY <1>1, <1>2, <2>1 DEF Moment
  <2>2. CASE part = "files"
    BY <1>1, <1>2, <2>2 DEF Moment
  <2> QED BY <2>1, <2>2
<1>4. moments \subseteq moments' /\ source' \in moments' /\ moments' \subseteq Moment
  BY <1>1, <1>3 DEF Edit
<1>5. UNCHANGED <<pc, outcome, database, dir, locked, server, mishaps, report, scan, read>>
  BY DEF Edit, Private
<1>6. ASSUME NEW i \in Importer
      PROVE  /\ Own(i, pc[i], outcome[i], read[i], locked, database, dir, moments')
             /\ Dated(pc[i], report[i], scan[i], read[i], source', moments')
  <2>1. Own(i, pc[i], outcome[i], read[i], locked, database, dir, moments)
    BY DEF LegacyInv
  <2>2. Consistent(read[i], moments) => Consistent(read[i], moments')
    BY <1>4 DEF Consistent
  <2>3. Own(i, pc[i], outcome[i], read[i], locked, database, dir, moments')
    BY <2>1, <2>2 DEF Own
  <2>4. Dated(pc[i], report[i], scan[i], read[i], source, moments)
    BY DEF LegacyInv
  <2>5. /\ /\ source.data \in Nat /\ source.files \in Nat /\ source'.data \in Nat
        /\ source'.files \in Nat
        /\ \A m \in moments : m.data \in Nat /\ m.files \in Nat
    BY <1>1, <1>3 DEF Moment
  <2>6. /\ report[i].data \in Nat /\ report[i].files \in Nat /\ scan[i].files \in Nat
        /\ read[i].rows \in Int /\ read[i].settings \in Int /\ read[i].files \in Int
    BY Numbers
  <2>7. pc[i] \in HasHash =>
          /\ report[i].data <= source'.data
          /\ \E m \in moments' :
               /\ m.data = report[i].data /\ report[i].files <= m.files /\ m.files <= source'.files
               /\ pc[i] = "dataFinal" => m.files <= scan[i].files
    <3>1. SUFFICES ASSUME pc[i] \in HasHash
          PROVE  /\ report[i].data <= source'.data
                 /\ \E m \in moments' :
                      /\ m.data = report[i].data /\ report[i].files <= m.files /\ m.files <= source'.files
                      /\ pc[i] = "dataFinal" => m.files <= scan[i].files
      OBVIOUS
    <3>2. PICK m \in moments :
            /\ m.data = report[i].data /\ report[i].files <= m.files /\ m.files <= source.files
            /\ pc[i] = "dataFinal" => m.files <= scan[i].files
      BY <2>4, <3>1 DEF Dated
    <3>3. m \in moments' /\ m.files <= source'.files
      BY <1>3, <1>4, <2>5, <3>2
    <3>4. report[i].data <= source'.data
      BY <1>3, <2>4, <2>5, <2>6, <3>1 DEF Dated
    <3> QED BY <3>2, <3>3, <3>4
  <2>8. Dated(pc[i], report[i], scan[i], read[i], source', moments')
    BY <1>3, <2>4, <2>5, <2>6, <2>7 DEF Dated
  <2> QED BY <2>3, <2>8
<1>7. LegacyTypes'
  BY <1>3, <1>4, <1>5 DEF LegacyInv, LegacyTypes
<1> QED BY <1>4, <1>5, <1>6, <1>7 DEF LegacyInv, Running

LEMMA StartServerKeeps ==
  ASSUME LegacyInv, StartServer
  PROVE  LegacyInv'
<1>1. /\ UNCHANGED <<source, moments, pc, outcome, locked, mishaps, report, scan, read>>
      /\ server' = "up"
  BY DEF StartServer, Private
<1>2. dir \in Target /\ database \in Base
  BY DEF LegacyInv, LegacyTypes
<1>3. /\ dir' \in Target /\ dir'.journal = dir.journal /\ dir'.files = dir.files
      /\ dir'.receipt = dir.receipt
  BY <1>2 DEF StartServer, Target
<1>4. /\ database' \in Base /\ ~dir.journal /\ database'.by # Nobody
      /\ \/ database' = database
         \/ database.by = Nobody /\ database'.by = "server"
  BY <1>2, LegacyImportAssumption DEF StartServer, Base
<1>5. ASSUME NEW i \in Importer
      PROVE  Own(i, pc[i], outcome[i], read[i], locked, database', dir', moments)
  <2>1. Own(i, pc[i], outcome[i], read[i], locked, database, dir, moments)
    BY DEF LegacyInv
  <2>2. pc[i] \in {"idle", "end"}
    BY DEF StartServer, Running
  <2>3. CASE database' = database
    BY <1>3, <2>1, <2>3 DEF Own
  <2>4. CASE database.by = Nobody /\ database'.by = "server"
    BY <1>3, <2>1, <2>2, <2>4, LegacyImportAssumption
       DEF Own, InTransaction, Owning, Publishing, Cleaning, Copied
  <2> QED BY <1>4, <2>3, <2>4
<1>6. Accounted(database', dir')
  BY <1>3, <1>4, LegacyImportAssumption DEF LegacyInv, Accounted
<1>7. LegacyTypes'
  BY <1>1, <1>3, <1>4 DEF LegacyInv, LegacyTypes
<1>8. ~dir'.journal /\ \A i \in Importer : ~Running(i)'
  BY <1>1, <1>3, <1>4 DEF StartServer, Running
<1> QED BY <1>1, <1>4, <1>5, <1>6, <1>7, <1>8 DEF LegacyInv

LEMMA StopServerKeeps ==
  ASSUME LegacyInv, StopServer
  PROVE  LegacyInv'
<1>1. /\ UNCHANGED <<source, moments, pc, outcome, locked, database, dir, mishaps, report, scan,
              read>>
      /\ server' = "down"
  BY DEF StopServer, Private
<1> QED BY <1>1 DEF LegacyInv, LegacyTypes

LEMMA LegacyStarts == LegacyInit => LegacyInv
<1> SUFFICES ASSUME LegacyInit
             PROVE  LegacyInv
  OBVIOUS
<1>1. LegacyTypes
  BY LegacyImportAssumption
     DEF LegacyInit, LegacyTypes, LegacySteps, Moment, Taken, Base, Target, EmptyBase, EmptyDir
<1>2. ASSUME NEW i \in Importer
      PROVE  /\ Own(i, pc[i], outcome[i], read[i], locked, database, dir, moments)
             /\ Dated(pc[i], report[i], scan[i], read[i], source, moments)
  <2>1. /\ pc[i] = "idle" /\ outcome[i] = "none" /\ locked = Nobody /\ database.by = Nobody
        /\ i # Nobody
    BY LegacyImportAssumption DEF LegacyInit, EmptyBase
  <2> QED BY <2>1 DEF Own, Dated, InTransaction, Owning, Publishing, Cleaning, Copied, HasHash,
      HasRows, HasSettings, Collecting
<1>3. Accounted(database, dir)
  BY DEF LegacyInit, EmptyBase, EmptyDir, Accounted
<1>4. \A i \in Importer : pc[i] \notin Owning
  BY DEF LegacyInit, Owning, Publishing, Cleaning
<1> QED BY <1>1, <1>2, <1>3, <1>4 DEF LegacyInv, LegacyInit

LEMMA LegacyStep == LegacyInv /\ [LegacyNext]_legacyVars => LegacyInv'
<1> SUFFICES ASSUME LegacyInv, [LegacyNext]_legacyVars
             PROVE  LegacyInv'
  OBVIOUS
<1>1. ASSUME NEW i \in Importer, ImportSteps(i)
      PROVE  LegacyInv'
  <2>1. CASE FailImport(i)
    BY <2>1, FailEarlyKeeps, FailCopyingKeeps, FailCommitKeeps, FailLateKeeps DEF FailImport
  <2> QED BY <1>1, <2>1, StartImportKeeps, InventoryFilesKeeps, InventoryDataKeeps,
      PreflightKeeps,
             ReadRowsKeeps, LockAndCheckEmptyKeeps, InsertKeeps, WriteJournalKeeps,
                 CopyFilesKeeps,
             CommitKeeps, WriteReceiptKeeps, RebuildDerivedKeeps, RemoveJournalKeeps,
                 CleanFilesKeeps,
             CleanJournalKeeps, KillKeeps
          DEF ImportSteps
<1>2. CASE UNCHANGED legacyVars
  BY <1>2 DEF legacyVars, LegacyInv, LegacyTypes, Running
<1> QED BY <1>1, <1>2, EditKeeps, StartServerKeeps, StopServerKeeps DEF LegacyNext

LEMMA LegacyInvariant == LegacySpec => []LegacyInv
<1>1. LegacyInit => LegacyInv
  BY LegacyStarts
<1>2. LegacyInv /\ [LegacyNext]_legacyVars => LegacyInv'
  BY LegacyStep
<1> QED BY <1>1, <1>2, PTL DEF LegacySpec

\* What a server serves is its own, or the workspace as it was at one moment, whoever edits
\* the workspace meanwhile, however many imports run at once and wherever they stop.
THEOREM ImportsAreWhole == LegacySpec => []ImportIsWhole
<1>1. LegacyInv => ImportIsWhole
  <2> SUFFICES ASSUME LegacyInv, server = "up"
               PROVE  IF database.by \in Importer
                      THEN /\ [data |-> database.rows, files |-> dir.files] \in moments
                           /\ database.settings = database.rows /\ database.derived /\ dir.receipt
                      ELSE dir.files = -1 /\ ~dir.receipt
    BY DEF ImportIsWhole
  <2>1. ~dir.journal
    BY DEF LegacyInv
  <2>2. CASE database.by \in Importer
    <3>1. PICK i \in Importer : database.by = i
      BY <2>2
    <3>2. Own(i, pc[i], outcome[i], read[i], locked, database, dir, moments)
      BY DEF LegacyInv
    <3> QED BY <2>1, <3>1, <3>2 DEF Own, Consistent
  <2>3. CASE database.by \notin Importer
    BY <2>1, <2>3 DEF LegacyInv, Accounted
  <2> QED BY <2>2, <2>3
<1> QED BY <1>1, LegacyInvariant, PTL

\* What an import reported is so, and files that no journal explains belong to the rows.
THEOREM ReportsStayTrue == LegacySpec => []ReportsAreTrue
<1>1. LegacyInv => ReportsAreTrue
  <2> SUFFICES ASSUME LegacyInv
               PROVE  ReportsAreTrue
    OBVIOUS
  <2>1. \A i \in Importer : Own(i, pc[i], outcome[i], read[i], locked, database, dir, moments)
    BY DEF LegacyInv
  <2>2. \A i \in Importer :
          /\ outcome[i] \in {"refused", "rolled back", "dry run"} => database.by # i
          /\ outcome[i] = "committed" => database.by = i /\ dir.files = read[i].files
    BY <2>1 DEF Own
  <2>3. ASSUME dir.files # -1, ~dir.journal
        PROVE  database.by \in Importer /\ dir.files >= 0
    <3>1. PICK i \in Importer : database.by = i
      BY <2>3 DEF LegacyInv, Accounted
    <3>2. /\ dir.files = read[i].files
          /\ [data |-> read[i].rows, files |-> read[i].files] \in moments
      BY <2>1, <3>1 DEF Own, Consistent
    <3>3. [data |-> read[i].rows, files |-> read[i].files] \in Moment
      BY <3>2 DEF LegacyInv, LegacyTypes
    <3> QED BY <3>1, <3>2, <3>3 DEF Moment
  <2> QED BY <2>2, <2>3 DEF ReportsAreTrue
<1> QED BY <1>1, LegacyInvariant, PTL
-----------------------------------------------------------------------------
(* The history of a page in files *)

\* What a thread that has the lock of the page has left to do, in either way of recording
LastStep == Step("unlock", 0, 0)
Coalescing1(s, n, c, d) == s = <<Step("blob", n, c), Step("find", n, c), Step("replace", n, c), Step("collect", n, d), LastStep>>
Coalescing2(s, n, c, d) == s = <<Step("find", n, c), Step("replace", n, c), Step("collect", n, d), LastStep>>
Coalescing3(s, n, c, d) == s = <<Step("replace", n, c), Step("collect", n, d), LastStep>>
Coalescing4(s, n, d) == s = <<Step("collect", n, d), LastStep>>
Seeking1(s, m, n, c, d) == s = <<Step("heal", m, 0), Step("replace", n, c), Step("collect", n, d), LastStep>>
Seeking2(s, n, c, d) == s = <<LastStep, Step("replace", n, c), Step("collect", n, d), LastStep>>
Appending1(s, n, c, do) ==
  s = <<Step("blob", n, c), Step(do, n, c), Step("load", n, c), Step("add", n, c), Step("prune", n, c), LastStep>>
Appending2(s, n, c, do) == s = <<Step(do, n, c), Step("load", n, c), Step("add", n, c), Step("prune", n, c), LastStep>>
Appending3(s, n, c) == s = <<Step("load", n, c), Step("add", n, c), Step("prune", n, c), LastStep>>
Appending4(s, n, c) == s = <<Step("add", n, c), Step("prune", n, c), LastStep>>
Appending5(s, n, c) == s = <<Step("prune", n, c), LastStep>>
Pruning1(s, old) == s = <<Step("remove", old, 0), Step("keep", 0, 0), LastStep>>
Pruning2(s, old) == s = <<Step("remove", old, 0), LastStep>>
Pruning3(s) == s = <<Step("keep", 0, 0), LastStep>>
Over(s) == s = <<LastStep>>

Deleting(s) == s = <<Step("rmtree", 0, 0)>>
Healing(s) == \E n \in Nat : s = <<Step("heal", n, 0)>>

\* The newest of the revisions, and a newer one
Newest(n, names) == \A m \in names : m <= n
Newer(n, names) == \A m \in names : m < n

\* What is true of the files while a revision is recorded: of the names of the revisions, the
\* index ix, the blobs, and the index cp that the thread has loaded.  Without a failure and
\* without an interference, index and directory differ only by what the thread is at.
Coalesces(s, names, ix, kept, top, good) ==
  \E n, c, d :
    /\ n \in 1..top
    /\ good => ix = names /\ n \in names
    /\ \/ Coalescing1(s, n, c, d)
       \/ (Coalescing2(s, n, c, d) \/ Coalescing3(s, n, c, d)) /\ c \in kept
       \/ Coalescing4(s, n, d)

Seeks(s, kept, top, good) ==
  ~good /\ \E m, n, c, d : m \in Nat /\ n \in 1..top /\ c \in kept /\ (Seeking1(s, m, n, c, d) \/ Seeking2(s, n, c, d))

Appends(s, names, ix, kept, top, good) ==
  \E n, c, do :
    /\ n \in 1..top /\ do \in {"update", "change"} /\ Newer(n, names)
    /\ good => ix = names
    /\ \/ Appending1(s, n, c, do)
       \/ (Appending2(s, n, c, do) /\ c \in kept)

Adds(s, names, ix, cp, top, good) ==
  \E n, c :
    /\ n \in 1..top
    /\ \/ Appending3(s, n, c) /\ (good => names = ix \cup {n} /\ Newer(n, ix))
       \/ Appending4(s, n, c) /\ (good => names = ix \cup {n} /\ Newer(n, ix) /\ cp = ix)
       \/ Appending5(s, n, c) /\ (good => names = ix /\ n \in names /\ Newest(n, names))

Prunes(s, names, ix, cp, good) ==
  \/ \E old : /\ old # {} /\ old \subseteq Nat
              /\ good => cp = names /\ names \subseteq ix /\ \E k \in names : Newer(k, old)
              /\ \/ Pruning1(s, old)
                 \/ Pruning2(s, old) /\ ~good
  \/ Pruning3(s) /\ (good => cp = names /\ names \subseteq ix)

Records(s, names, ix, kept, cp, top, good) ==
  \/ Coalesces(s, names, ix, kept, top, good)
  \/ Seeks(s, kept, top, good)
  \/ Appends(s, names, ix, kept, top, good)
  \/ Adds(s, names, ix, cp, top, good)
  \/ Prunes(s, names, ix, cp, good)
  \/ Over(s) /\ (good => ix = names)

Good == ~cut /\ ~raced

\* A reader who adds to the index has loaded one that lacks the newest revision, and that a
\* recording has changed since.
FilesAgree ==
  /\ ~stray
  /\ holder # NoThread => live
  /\ holder = NoThread /\ live => index = Names
  /\ live \/ (Names = {} /\ index = {}) \/ \E t \in Thread : Deleting(calls[t])
  /\ \A t \in Thread : t # holder /\ Healing(calls[t]) => live /\ \E k \in Names : Newer(k, copy[t])

FileHistoryInv ==
  /\ calls = [t \in Thread |-> calls[t]] /\ copy = [t \in Thread |-> copy[t]]
  /\ {live, stray, cut, raced} \subseteq BOOLEAN /\ holder \in Thread \cup {NoThread}
  /\ total \in Nat /\ Names \subseteq 1..total /\ index \subseteq Nat /\ \A t \in Thread : copy[t] \subseteq Nat
  /\ \A n \in Names : revs[n].content \in blobs
  /\ \A t \in Thread : /\ Deleting(calls[t]) => ~live
                       /\ t # holder => calls[t] = <<>> \/ Deleting(calls[t]) \/ Healing(calls[t])
  /\ holder # NoThread => Records(calls[holder], Names, index, blobs, copy[holder], total, Good)
  /\ Good => FilesAgree

LEMMA StepFields == \A do, n, c : Step(do, n, c).do = do /\ Step(do, n, c).rev = n /\ Step(do, n, c).content = c
BY DEF Step

LEMMA Tuples ==
  /\ \A a : <<a>> # <<>> /\ Head(<<a>>) = a /\ Tail(<<a>>) = <<>>
  /\ \A a, b : <<a, b>> # <<>> /\ Head(<<a, b>>) = a /\ Tail(<<a, b>>) = <<b>>
  /\ \A a, b, c : <<a, b, c>> # <<>> /\ Head(<<a, b, c>>) = a /\ Tail(<<a, b, c>>) = <<b, c>>
  /\ \A a, b, c, d : <<a, b, c, d>> # <<>> /\ Head(<<a, b, c, d>>) = a /\ Tail(<<a, b, c, d>>) = <<b, c, d>>
  /\ \A a, b, c, d, e :
       <<a, b, c, d, e>> # <<>> /\ Head(<<a, b, c, d, e>>) = a /\ Tail(<<a, b, c, d, e>>) = <<b, c, d, e>>
  /\ \A a, b, c, d, e, f :
       /\ <<a, b, c, d, e, f>> # <<>> /\ Head(<<a, b, c, d, e, f>>) = a
       /\ Tail(<<a, b, c, d, e, f>>) = <<b, c, d, e, f>>
OBVIOUS

\* What is next in each form, and what is left after it
LEMMA RecordingForms ==
  /\ \A s, n, c, d : Coalescing1(s, n, c, d) => s # <<>> /\ Head(s) = Step("blob", n, c) /\ Coalescing2(Tail(s), n, c, d)
  /\ \A s, n, c, d : Coalescing2(s, n, c, d) => s # <<>> /\ Head(s) = Step("find", n, c) /\ Coalescing3(Tail(s), n, c, d)
  /\ \A s, n, c, d : Coalescing3(s, n, c, d) => s # <<>> /\ Head(s) = Step("replace", n, c) /\ Coalescing4(Tail(s), n, d)
  /\ \A s, n, d : Coalescing4(s, n, d) => s # <<>> /\ Head(s) = Step("collect", n, d) /\ Over(Tail(s))
  /\ \A s, m, n, c, d : Seeking1(s, m, n, c, d) => s # <<>> /\ Head(s) = Step("heal", m, 0) /\ Coalescing3(Tail(s), n, c, d)
  /\ \A s, n, c, d : Seeking2(s, n, c, d) => s # <<>> /\ Head(s) = LastStep
<1>1. \A s, n, c, d : Coalescing1(s, n, c, d) => s # <<>> /\ Head(s) = Step("blob", n, c) /\ Coalescing2(Tail(s), n, c, d)
  BY Tuples, StepFields DEF Coalescing1, Coalescing2, Coalescing3, Coalescing4, Seeking1, Seeking2, Over
<1>2. \A s, n, c, d : Coalescing2(s, n, c, d) => s # <<>> /\ Head(s) = Step("find", n, c) /\ Coalescing3(Tail(s), n, c, d)
  BY Tuples, StepFields DEF Coalescing1, Coalescing2, Coalescing3, Coalescing4, Seeking1, Seeking2, Over
<1>3. \A s, n, c, d : Coalescing3(s, n, c, d) => s # <<>> /\ Head(s) = Step("replace", n, c) /\ Coalescing4(Tail(s), n, d)
  BY Tuples, StepFields DEF Coalescing1, Coalescing2, Coalescing3, Coalescing4, Seeking1, Seeking2, Over
<1>4. \A s, n, d : Coalescing4(s, n, d) => s # <<>> /\ Head(s) = Step("collect", n, d) /\ Over(Tail(s))
  BY Tuples, StepFields DEF Coalescing1, Coalescing2, Coalescing3, Coalescing4, Seeking1, Seeking2, Over
<1>5. \A s, m, n, c, d : Seeking1(s, m, n, c, d) => s # <<>> /\ Head(s) = Step("heal", m, 0) /\ Coalescing3(Tail(s), n, c, d)
  BY Tuples, StepFields DEF Coalescing1, Coalescing2, Coalescing3, Coalescing4, Seeking1, Seeking2, Over
<1>6. \A s, n, c, d : Seeking2(s, n, c, d) => s # <<>> /\ Head(s) = LastStep
  BY Tuples, StepFields DEF Coalescing1, Coalescing2, Coalescing3, Coalescing4, Seeking1, Seeking2, Over
<1> QED BY <1>1, <1>2, <1>3, <1>4, <1>5, <1>6

LEMMA AppendingForms ==
  /\ \A s, n, c, do : Appending1(s, n, c, do) => s # <<>> /\ Head(s) = Step("blob", n, c) /\ Appending2(Tail(s), n, c, do)
  /\ \A s, n, c, do : Appending2(s, n, c, do) => s # <<>> /\ Head(s) = Step(do, n, c) /\ Appending3(Tail(s), n, c)
  /\ \A s, n, c : Appending3(s, n, c) => s # <<>> /\ Head(s) = Step("load", n, c) /\ Appending4(Tail(s), n, c)
  /\ \A s, n, c : Appending4(s, n, c) => s # <<>> /\ Head(s) = Step("add", n, c) /\ Appending5(Tail(s), n, c)
  /\ \A s, n, c : Appending5(s, n, c) => s # <<>> /\ Head(s) = Step("prune", n, c) /\ Over(Tail(s))
<1>1. \A s, n, c, do : Appending1(s, n, c, do) => s # <<>> /\ Head(s) = Step("blob", n, c) /\ Appending2(Tail(s), n, c, do)
  BY Tuples, StepFields DEF Appending1, Appending2, Appending3, Appending4, Appending5, Over
<1>2. \A s, n, c, do : Appending2(s, n, c, do) => s # <<>> /\ Head(s) = Step(do, n, c) /\ Appending3(Tail(s), n, c)
  BY Tuples, StepFields DEF Appending1, Appending2, Appending3, Appending4, Appending5, Over
<1>3. \A s, n, c : Appending3(s, n, c) => s # <<>> /\ Head(s) = Step("load", n, c) /\ Appending4(Tail(s), n, c)
  BY Tuples, StepFields DEF Appending1, Appending2, Appending3, Appending4, Appending5, Over
<1>4. \A s, n, c : Appending4(s, n, c) => s # <<>> /\ Head(s) = Step("add", n, c) /\ Appending5(Tail(s), n, c)
  BY Tuples, StepFields DEF Appending1, Appending2, Appending3, Appending4, Appending5, Over
<1>5. \A s, n, c : Appending5(s, n, c) => s # <<>> /\ Head(s) = Step("prune", n, c) /\ Over(Tail(s))
  BY Tuples, StepFields DEF Appending1, Appending2, Appending3, Appending4, Appending5, Over
<1> QED BY <1>1, <1>2, <1>3, <1>4, <1>5

LEMMA PruningForms ==
  /\ \A s, old : Pruning1(s, old) => s # <<>> /\ Head(s) = Step("remove", old, 0) /\ Pruning3(Tail(s))
  /\ \A s, old : Pruning2(s, old) => s # <<>> /\ Head(s) = Step("remove", old, 0) /\ Over(Tail(s))
  /\ \A s : Pruning3(s) => s # <<>> /\ Head(s) = Step("keep", 0, 0) /\ Over(Tail(s))
  /\ \A s : Over(s) => s # <<>> /\ Head(s) = Step("unlock", 0, 0) /\ Tail(s) = <<>>
  /\ \A s : Deleting(s) => s # <<>> /\ Head(s) = Step("rmtree", 0, 0) /\ Tail(s) = <<>>
  /\ \A s : Healing(s) => s # <<>> /\ Head(s).do = "heal" /\ Tail(s) = <<>>
<1>1. \A s, old : Pruning1(s, old) => s # <<>> /\ Head(s) = Step("remove", old, 0) /\ Pruning3(Tail(s))
  BY Tuples, StepFields DEF Pruning1, Pruning2, Pruning3, Over, LastStep, Deleting, Healing
<1>2. \A s, old : Pruning2(s, old) => s # <<>> /\ Head(s) = Step("remove", old, 0) /\ Over(Tail(s))
  BY Tuples, StepFields DEF Pruning1, Pruning2, Pruning3, Over, LastStep, Deleting, Healing
<1>3. \A s : Pruning3(s) => s # <<>> /\ Head(s) = Step("keep", 0, 0) /\ Over(Tail(s))
  BY Tuples, StepFields DEF Pruning1, Pruning2, Pruning3, Over, LastStep, Deleting, Healing
<1>4. \A s : Over(s) => s # <<>> /\ Head(s) = Step("unlock", 0, 0) /\ Tail(s) = <<>>
  BY Tuples, StepFields DEF Pruning1, Pruning2, Pruning3, Over, LastStep, Deleting, Healing
<1>5. \A s : Deleting(s) => s # <<>> /\ Head(s) = Step("rmtree", 0, 0) /\ Tail(s) = <<>>
  BY Tuples, StepFields DEF Pruning1, Pruning2, Pruning3, Over, LastStep, Deleting, Healing
<1>6. \A s : Healing(s) => s # <<>> /\ Head(s).do = "heal" /\ Tail(s) = <<>>
  BY Tuples, StepFields DEF Pruning1, Pruning2, Pruning3, Over, LastStep, Deleting, Healing
<1> QED BY <1>1, <1>2, <1>3, <1>4, <1>5, <1>6

\* The form that has a step next
LEMMA AtBlob ==
  \A s, names, ix, kept, cp, top, good :
    Records(s, names, ix, kept, cp, top, good) /\ Head(s).do = "blob" =>
      \/ \E n, c, d : n \in 1..top /\ (good => ix = names /\ n \in names) /\ Coalescing1(s, n, c, d)
      \/ \E n, c, do : /\ n \in 1..top /\ do \in {"update", "change"} /\ Newer(n, names)
                       /\ good => ix = names
                       /\ Appending1(s, n, c, do)
BY RecordingForms, AppendingForms, PruningForms, StepFields DEF Records, Coalesces, Seeks, Appends, Adds, Prunes, LastStep

LEMMA AtSave ==
  \A s, names, ix, kept, cp, top, good :
    Records(s, names, ix, kept, cp, top, good) /\ Head(s).do \in {"update", "change"} =>
      \E n, c, do : /\ n \in 1..top /\ do \in {"update", "change"} /\ Newer(n, names) /\ c \in kept
                    /\ good => ix = names
                    /\ Appending2(s, n, c, do)
BY RecordingForms, AppendingForms, PruningForms, StepFields DEF Records, Coalesces, Seeks, Appends, Adds, Prunes, LastStep

LEMMA AtFind ==
  \A s, names, ix, kept, cp, top, good :
    Records(s, names, ix, kept, cp, top, good) /\ Head(s).do = "find" =>
      \E n, c, d : n \in 1..top /\ (good => ix = names /\ n \in names) /\ c \in kept /\ Coalescing2(s, n, c, d)
BY RecordingForms, AppendingForms, PruningForms, StepFields DEF Records, Coalesces, Seeks, Appends, Adds, Prunes, LastStep

LEMMA AtReplace ==
  \A s, names, ix, kept, cp, top, good :
    Records(s, names, ix, kept, cp, top, good) /\ Head(s).do = "replace" =>
      \E n, c, d : n \in 1..top /\ (good => ix = names /\ n \in names) /\ c \in kept /\ Coalescing3(s, n, c, d)
BY RecordingForms, AppendingForms, PruningForms, StepFields DEF Records, Coalesces, Seeks, Appends, Adds, Prunes, LastStep

LEMMA AtCollect ==
  \A s, names, ix, kept, cp, top, good :
    Records(s, names, ix, kept, cp, top, good) /\ Head(s).do = "collect" =>
      \E n, d : n \in 1..top /\ (good => ix = names /\ n \in names) /\ Coalescing4(s, n, d)
BY RecordingForms, AppendingForms, PruningForms, StepFields DEF Records, Coalesces, Seeks, Appends, Adds, Prunes, LastStep

LEMMA AtHeal ==
  \A s, names, ix, kept, cp, top, good :
    Records(s, names, ix, kept, cp, top, good) /\ Head(s).do = "heal" =>
      ~good /\ \E m, n, c, d : m \in Nat /\ n \in 1..top /\ c \in kept /\ Seeking1(s, m, n, c, d)
BY RecordingForms, AppendingForms, PruningForms, StepFields DEF Records, Coalesces, Seeks, Appends, Adds, Prunes, LastStep

LEMMA AtIndex ==
  \A s, names, ix, kept, cp, top, good :
    Records(s, names, ix, kept, cp, top, good) /\ Head(s).do \in {"load", "add", "prune"} =>
      Adds(s, names, ix, cp, top, good)
BY RecordingForms, AppendingForms, PruningForms, StepFields DEF Records, Coalesces, Seeks, Appends, Prunes, LastStep

LEMMA AtPruning ==
  \A s, names, ix, kept, cp, top, good :
    Records(s, names, ix, kept, cp, top, good) /\ Head(s).do \in {"remove", "keep"} =>
      Prunes(s, names, ix, cp, good)
BY RecordingForms, AppendingForms, PruningForms, StepFields DEF Records, Coalesces, Seeks, Appends, Adds, LastStep

LEMMA AtUnlock ==
  \A s, names, ix, kept, cp, top, good :
    Records(s, names, ix, kept, cp, top, good) /\ Head(s).do = "unlock" => (good => ix = names)
BY RecordingForms, AppendingForms, PruningForms, StepFields DEF Records, Coalesces, Seeks, Appends, Adds, Prunes, LastStep

LEMMA NotAtDeletion ==
  \A s, names, ix, kept, cp, top, good :
    Records(s, names, ix, kept, cp, top, good) => s # <<>> /\ Head(s).do # "rmtree"
BY RecordingForms, AppendingForms, PruningForms, StepFields DEF Records, Coalesces, Seeks, Appends, Adds, Prunes, LastStep

\* What others do to the files while a revision is recorded
LEMMA RecordsDisturbed ==
  \A s, names, ix, kept, cp, top, good, fewer, jx :
    Records(s, names, ix, kept, cp, top, good) /\ fewer \subseteq names => Records(s, fewer, jx, kept, cp, top, FALSE)
BY DEF Records, Coalesces, Seeks, Appends, Adds, Prunes, Newer

LEMMA TupleJoins ==
  /\ \A a, b, c, d, e : <<a, b, c, d>> \o <<e>> = <<a, b, c, d, e>>
  /\ \A a, b, c, d, e, f : <<a, b, c, d, e>> \o <<f>> = <<a, b, c, d, e, f>>
  /\ \A a, b, c, d : <<a>> \o <<b, c, d>> = <<a, b, c, d>>
  /\ \A a, b, c : <<>> \o <<a, b, c>> = <<a, b, c>>
  /\ \A a, b, c : (<<a>> \o <<b>>) \o <<c>> = <<a, b, c>>
  /\ \A a, b : (<<a>> \o <<>>) \o <<b>> = <<a, b>>
  /\ \A a, b : (<<>> \o <<a>>) \o <<b>> = <<a, b>>
  /\ \A a : (<<>> \o <<>>) \o <<a>> = <<a>>
  /\ \A a, b, c : <<a>> \o <<b, c>> = <<a, b, c>>
  /\ \A a, b : <<a>> \o <<b>> = <<a, b>>
  /\ \A a, b : <<>> \o <<a, b>> = <<a, b>>
  /\ \A a : <<>> \o <<a>> = <<a>>
<1>1. ASSUME NEW a, NEW b, NEW c, NEW d, NEW e
      PROVE  <<a, b, c, d>> \o <<e>> = <<a, b, c, d, e>>
  <2> DEFINE S == {a, b, c, d, e}
             s == <<a, b, c, d>> \o <<e>>
  <2>1. <<a, b, c, d>> \in Seq(S) /\ <<e>> \in Seq(S)
    OBVIOUS
  <2>2. s \in Seq(S) /\ Len(s) = 5 /\ s[1] = a /\ s[2] = b /\ s[3] = c /\ s[4] = d /\ s[5] = e
    BY <2>1
  <2> HIDE DEF s
  <2>3. s = <<a, b, c, d, e>>
    BY <2>2
  <2> QED BY <2>3 DEF s
<1>2. ASSUME NEW a, NEW b, NEW c, NEW d, NEW e, NEW f
      PROVE  <<a, b, c, d, e>> \o <<f>> = <<a, b, c, d, e, f>>
  <2> DEFINE S == {a, b, c, d, e, f}
             s == <<a, b, c, d, e>> \o <<f>>
  <2>1. <<a, b, c, d, e>> \in Seq(S) /\ <<f>> \in Seq(S)
    OBVIOUS
  <2>2. s \in Seq(S) /\ Len(s) = 6 /\ s[1] = a /\ s[2] = b /\ s[3] = c /\ s[4] = d /\ s[5] = e /\ s[6] = f
    BY <2>1
  <2> HIDE DEF s
  <2>3. s = <<a, b, c, d, e, f>>
    BY <2>2
  <2> QED BY <2>3 DEF s
<1>3. ASSUME NEW a, NEW b, NEW c, NEW d
      PROVE  <<a>> \o <<b, c, d>> = <<a, b, c, d>>
  <2> DEFINE S == {a, b, c, d}
             s == <<a>> \o <<b, c, d>>
  <2>1. <<a>> \in Seq(S) /\ <<b, c, d>> \in Seq(S)
    OBVIOUS
  <2>2. s \in Seq(S) /\ Len(s) = 4 /\ s[1] = a /\ s[2] = b /\ s[3] = c /\ s[4] = d
    BY <2>1
  <2> HIDE DEF s
  <2>3. s = <<a, b, c, d>>
    BY <2>2
  <2> QED BY <2>3 DEF s
<1>4. ASSUME NEW a, NEW b
      PROVE  <<a>> \o <<b>> = <<a, b>>
  <2> DEFINE S == {a, b}
             s == <<a>> \o <<b>>
  <2>1. <<a>> \in Seq(S) /\ <<b>> \in Seq(S)
    OBVIOUS
  <2>2. s \in Seq(S) /\ Len(s) = 2 /\ s[1] = a /\ s[2] = b
    BY <2>1
  <2> HIDE DEF s
  <2>3. s = <<a, b>>
    BY <2>2
  <2> QED BY <2>3 DEF s
<1>5. ASSUME NEW a, NEW b, NEW c
      PROVE  <<a, b>> \o <<c>> = <<a, b, c>> /\ <<a>> \o <<b, c>> = <<a, b, c>>
  <2> DEFINE S == {a, b, c}
             r == <<a, b>> \o <<c>>
             s == <<a>> \o <<b, c>>
  <2>1. <<a>> \in Seq(S) /\ <<b, c>> \in Seq(S) /\ <<a, b>> \in Seq(S) /\ <<c>> \in Seq(S)
    OBVIOUS
  <2>2. s \in Seq(S) /\ Len(s) = 3 /\ s[1] = a /\ s[2] = b /\ s[3] = c
    BY <2>1
  <2>3. r \in Seq(S) /\ Len(r) = 3 /\ r[1] = a /\ r[2] = b /\ r[3] = c
    BY <2>1
  <2> HIDE DEF s, r
  <2>4. s = <<a, b, c>> /\ r = <<a, b, c>>
    BY <2>2, <2>3
  <2> QED BY <2>4 DEF s, r
<1>6. \A a, b, c : <<>> \o <<a, b, c>> = <<a, b, c>>
  OBVIOUS
<1>7. \A a, b : <<>> \o <<a, b>> = <<a, b>>
  OBVIOUS
<1>8. \A a : <<>> \o <<a>> = <<a>> /\ <<a>> \o <<>> = <<a>>
  OBVIOUS
<1>9. <<>> \o <<>> = <<>>
  OBVIOUS
<1>10. ASSUME NEW a, NEW b, NEW c
       PROVE  (<<a>> \o <<b>>) \o <<c>> = <<a, b, c>>
  <2>1. <<a>> \o <<b>> = <<a, b>> /\ <<a, b>> \o <<c>> = <<a, b, c>>
    BY <1>4, <1>5
  <2> QED BY <2>1, Zenon
<1>11. ASSUME NEW a, NEW b
       PROVE  (<<a>> \o <<>>) \o <<b>> = <<a, b>> /\ (<<>> \o <<a>>) \o <<b>> = <<a, b>>
  <2>1. <<a>> \o <<>> = <<a>> /\ <<>> \o <<a>> = <<a>> /\ <<a>> \o <<b>> = <<a, b>>
    BY <1>4, <1>8
  <2> QED BY <2>1, Zenon
<1>12. ASSUME NEW a
       PROVE  (<<>> \o <<>>) \o <<a>> = <<a>>
  BY <1>8, <1>9, Zenon
<1>13. \A a, b, c, d, e : <<a, b, c, d>> \o <<e>> = <<a, b, c, d, e>>
  BY <1>1, Zenon
<1>14. \A a, b, c, d, e, f : <<a, b, c, d, e>> \o <<f>> = <<a, b, c, d, e, f>>
  BY <1>2, Zenon
<1>15. \A a, b, c, d : <<a>> \o <<b, c, d>> = <<a, b, c, d>>
  BY <1>3, Zenon
<1>16. \A a, b, c : <<>> \o <<a, b, c>> = <<a, b, c>>
  BY <1>6, Zenon
<1>17. \A a, b, c : (<<a>> \o <<b>>) \o <<c>> = <<a, b, c>>
  BY <1>10, Zenon
<1>18. \A a, b : (<<a>> \o <<>>) \o <<b>> = <<a, b>>
  BY <1>11, Zenon
<1>19. \A a, b : (<<>> \o <<a>>) \o <<b>> = <<a, b>>
  BY <1>11, Zenon
<1>20. \A a : (<<>> \o <<>>) \o <<a>> = <<a>>
  BY <1>12, Zenon
<1>21. \A a, b, c : <<a>> \o <<b, c>> = <<a, b, c>>
  BY <1>5, Zenon
<1>22. \A a, b : <<a>> \o <<b>> = <<a, b>>
  BY <1>4, Zenon
<1>23. \A a, b : <<>> \o <<a, b>> = <<a, b>>
  BY <1>7, Zenon
<1>24. \A a : <<>> \o <<a>> = <<a>>
  BY <1>8, Zenon
<1> QED BY <1>13, <1>14, <1>15, <1>16, <1>17, <1>18, <1>19, <1>20, <1>21, <1>22, <1>23, <1>24, Zenon

\* A step of the thread that records: nothing is asked of the others.
LEMMA RecorderMoves ==
  ASSUME FileHistoryInv, NEW t \in Thread, holder = t, NEW s, calls' = [calls EXCEPT ![t] = s],
         UNCHANGED <<live, holder, total, stray, cut, raced>>,
         copy' = [u \in Thread |-> copy'[u]], \A u \in Thread \ {t} : copy'[u] = copy[u],
         Names' \subseteq 1..total, index' \subseteq Nat, copy'[t] \subseteq Nat, \A n \in Names' : revs'[n].content \in blobs',
         Records(s, Names', index', blobs', copy'[t], total, Good),
         \A cp \in SUBSET Nat : Good /\ (\E k \in Names : Newer(k, cp)) => \E k \in Names' : Newer(k, cp)
  PROVE  FileHistoryInv'
<1>1. calls' = [u \in Thread |-> calls'[u]] /\ calls'[t] = s /\ \A u \in Thread \ {t} : calls'[u] = calls[u]
  BY DEF FileHistoryInv
<1>2. Good' = Good
  BY DEF Good
<1>3. t # NoThread
  BY FileHistoryAssumption
<1>4. ~Deleting(s)
  BY NotAtDeletion, PruningForms, StepFields
<1>5. Records(calls'[holder'], Names', index', blobs', copy'[holder'], total', Good')
  BY <1>1, <1>2
<1>6. ASSUME NEW u \in Thread
      PROVE  /\ Deleting(calls'[u]) => ~live'
             /\ u # holder' => calls'[u] = <<>> \/ Deleting(calls'[u]) \/ Healing(calls'[u])
  BY <1>1, <1>4 DEF FileHistoryInv
<1>8. \A u \in Thread : copy'[u] \subseteq Nat
  BY DEF FileHistoryInv
<1>7. ASSUME Good
      PROVE  FilesAgree'
  <2>1. ~stray /\ live
    BY <1>3, <1>7 DEF FileHistoryInv, FilesAgree
  <2>2. ASSUME NEW u \in Thread, u # holder', Healing(calls'[u])
        PROVE  \E k \in Names' : Newer(k, copy'[u])
    <3>1. u # t /\ Healing(calls[u]) /\ copy'[u] = copy[u]
      BY <1>1, <2>2
    <3>2. \E k \in Names : Newer(k, copy[u])
      BY <1>7, <3>1 DEF FileHistoryInv, FilesAgree
    <3> QED BY <1>7, <1>8, <3>1, <3>2
  <2> QED BY <1>3, <2>1, <2>2 DEF FilesAgree
<1> QED BY <1>1, <1>2, <1>5, <1>6, <1>7, <1>8 DEF FileHistoryInv

\* A step that the recording makes is made by the thread that has the lock.
LEMMA RecorderHas ==
  ASSUME FileHistoryInv, NEW t \in Thread, calls[t] # <<>>, Head(calls[t]).do \notin {"heal", "rmtree"}
  PROVE  holder = t /\ Records(calls[t], Names, index, blobs, copy[t], total, Good)
<1>1. ~Deleting(calls[t]) /\ ~Healing(calls[t])
  BY PruningForms, StepFields
<1>2. holder = t
  BY <1>1 DEF FileHistoryInv
<1> QED BY <1>2, FileHistoryAssumption DEF FileHistoryInv

LEMMA SaveContentBlobStep ==
  ASSUME FileHistoryInv, NEW t \in Thread, SaveContentBlob(t)
  PROVE  FileHistoryInv'
<1>1. /\ calls[t] # <<>> /\ Head(calls[t]).do = "blob" /\ blobs' = blobs \cup {Head(calls[t]).content}
      /\ calls' = [calls EXCEPT ![t] = Tail(calls[t])]
      /\ UNCHANGED <<live, holder, total, stray, cut, raced, revs, index, copy>>
  BY DEF SaveContentBlob, Does, Idle, Now, OnDisk, Goes, Makes
<1>2. holder = t /\ Records(calls[t], Names, index, blobs, copy[t], total, Good)
  BY <1>1, RecorderHas
<1>3. Names' = Names
  BY <1>1 DEF Names
<1>4. Records(Tail(calls[t]), Names, index, blobs', copy[t], total, Good)
  <2>1. CASE \E n, c, d : n \in 1..total /\ (Good => index = Names /\ n \in Names) /\ Coalescing1(calls[t], n, c, d)
    <3>1. PICK n, c, d : n \in 1..total /\ (Good => index = Names /\ n \in Names) /\ Coalescing1(calls[t], n, c, d)
      BY <2>1
    <3>2. Coalescing2(Tail(calls[t]), n, c, d) /\ c \in blobs'
      BY <1>1, <3>1, RecordingForms, StepFields
    <3> QED BY <3>1, <3>2 DEF Records, Coalesces
  <2>2. CASE \E n, c, do : /\ n \in 1..total /\ do \in {"update", "change"} /\ Newer(n, Names)
                           /\ Good => index = Names
                           /\ Appending1(calls[t], n, c, do)
    <3>1. PICK n, c, do : /\ n \in 1..total /\ do \in {"update", "change"} /\ Newer(n, Names)
                          /\ Good => index = Names
                          /\ Appending1(calls[t], n, c, do)
      BY <2>2
    <3>2. Appending2(Tail(calls[t]), n, c, do) /\ c \in blobs'
      BY <1>1, <3>1, AppendingForms, StepFields
    <3> QED BY <3>1, <3>2 DEF Records, Appends
  <2> QED BY <1>1, <1>2, <2>1, <2>2, AtBlob
<1>5. /\ Names \subseteq 1..total /\ copy = [u \in Thread |-> copy[u]]
      /\ index \subseteq Nat /\ copy[t] \subseteq Nat /\ \A n \in Names : revs[n].content \in blobs
  BY DEF FileHistoryInv
<1> QED BY <1>1, <1>2, <1>3, <1>4, <1>5, RecorderMoves

LEMMA SaveRevisionStep ==
  ASSUME FileHistoryInv, NEW t \in Thread, SaveRevision(t)
  PROVE  FileHistoryInv'
<1> DEFINE h == Head(calls[t])
<1>1. /\ calls[t] # <<>> /\ h.do \in {"update", "change"}
      /\ revs' = [n \in Names \cup {h.rev} |->
                    IF n = h.rev THEN [content |-> h.content, update |-> h.do = "update"] ELSE revs[n]]
      /\ calls' = [calls EXCEPT ![t] = Tail(calls[t])]
      /\ UNCHANGED <<live, holder, total, stray, cut, raced, blobs, index, copy>>
  BY DEF SaveRevision, Does, Idle, Now, OnDisk, Goes, Makes
<1>2. holder = t /\ Records(calls[t], Names, index, blobs, copy[t], total, Good)
  BY <1>1, RecorderHas
<1>3. PICK n, c, do : /\ n \in 1..total /\ do \in {"update", "change"} /\ Newer(n, Names) /\ c \in blobs
                      /\ Good => index = Names
                      /\ Appending2(calls[t], n, c, do)
  BY <1>1, <1>2, AtSave
<1>4. h.rev = n /\ h.content = c /\ Appending3(Tail(calls[t]), n, c)
  BY <1>3, AppendingForms, StepFields
<1> HIDE DEF h
<1>5. Names' = Names \cup {n}
  BY <1>1, <1>4 DEF Names
<1>6. ASSUME NEW m \in Names'
      PROVE  revs'[m].content \in blobs
  BY <1>1, <1>3, <1>4, <1>5 DEF FileHistoryInv
<1>7. Records(Tail(calls[t]), Names', index, blobs, copy[t], total, Good)
  BY <1>3, <1>4, <1>5 DEF Records, Adds
<1>8. Names' \subseteq 1..total /\ copy = [u \in Thread |-> copy[u]] /\ index \subseteq Nat /\ copy[t] \subseteq Nat
  BY <1>3, <1>5 DEF FileHistoryInv
<1> QED BY <1>1, <1>2, <1>5, <1>6, <1>7, <1>8, RecorderMoves

LEMMA IndexStep ==
  ASSUME FileHistoryInv, NEW t \in Thread, LoadIndex(t) \/ AddToIndex(t)
  PROVE  FileHistoryInv'
<1>1. /\ calls[t] # <<>> /\ calls' = [calls EXCEPT ![t] = Tail(calls[t])]
      /\ UNCHANGED <<live, holder, total, stray, cut, raced, revs, blobs>>
  BY DEF LoadIndex, AddToIndex, Does, Idle, Now, OnDisk, Goes, Makes
<1>2. \/ Head(calls[t]).do = "load" /\ copy' = [copy EXCEPT ![t] = index] /\ index' = index
      \/ Head(calls[t]).do = "add" /\ index' = copy[t] \cup {Head(calls[t]).rev} /\ copy' = copy
  <2>1. CASE LoadIndex(t)
    BY <2>1 DEF LoadIndex, Does, Idle, Now, OnDisk, Loads
  <2>2. CASE AddToIndex(t)
    BY <2>2 DEF AddToIndex, Does, Idle, Now, OnDisk
  <2> QED BY <2>1, <2>2
<1>3. holder = t /\ Records(calls[t], Names, index, blobs, copy[t], total, Good)
  BY <1>1, <1>2, RecorderHas
<1>4. /\ Names' = Names /\ copy = [u \in Thread |-> copy[u]] /\ Names \subseteq 1..total
      /\ index \subseteq Nat /\ copy[t] \subseteq Nat /\ \A n \in Names : revs[n].content \in blobs
  BY <1>1 DEF Names, FileHistoryInv
<1>5. copy' = [u \in Thread |-> copy'[u]] /\ \A u \in Thread \ {t} : copy'[u] = copy[u]
  BY <1>2, <1>4
<1>6. Adds(calls[t], Names, index, copy[t], total, Good)
  BY <1>2, <1>3, AtIndex
<1>7. CASE Head(calls[t]).do = "load"
  <2>1. PICK n, c : n \in 1..total /\ Appending3(calls[t], n, c) /\ (Good => Names = index \cup {n} /\ Newer(n, index))
    BY <1>6, <1>7, AppendingForms, StepFields DEF Adds
  <2>2. Appending4(Tail(calls[t]), n, c) /\ copy'[t] = index /\ index' = index
    BY <1>2, <1>4, <1>7, <2>1, AppendingForms
  <2>3. Records(Tail(calls[t]), Names, index', blobs, copy'[t], total, Good)
    BY <2>1, <2>2 DEF Records, Adds
  <2>4. index' \subseteq Nat /\ copy'[t] \subseteq Nat
    BY <1>4, <2>2
  <2> QED BY <1>1, <1>3, <1>4, <1>5, <2>3, <2>4, RecorderMoves
<1>8. CASE Head(calls[t]).do = "add"
  <2>1. PICK n, c : /\ n \in 1..total /\ Appending4(calls[t], n, c)
                    /\ Good => Names = index \cup {n} /\ Newer(n, index) /\ copy[t] = index
    BY <1>6, <1>8, AppendingForms, StepFields DEF Adds
  <2>2. Appending5(Tail(calls[t]), n, c) /\ index' = copy[t] \cup {n}
    BY <1>2, <1>8, <2>1, AppendingForms, StepFields
  <2>3. Good => Names = index' /\ n \in Names /\ Newest(n, Names)
    <3>1. Good => \A m \in Names : m = n \/ m < n
      BY <2>1 DEF Newer
    <3>2. n \in Int
      BY <2>1
    <3>3. \A m \in Names : m \in Int
      BY <1>4
    <3> QED BY <2>1, <2>2, <3>1, <3>2, <3>3 DEF Newest
  <2>4. Records(Tail(calls[t]), Names, index', blobs, copy'[t], total, Good)
    BY <2>1, <2>2, <2>3 DEF Records, Adds
  <2>5. index' \subseteq Nat /\ copy'[t] \subseteq Nat
    BY <1>2, <1>4, <1>8, <2>1, <2>2, StepFields, AppendingForms
  <2> QED BY <1>1, <1>3, <1>4, <1>5, <2>4, <2>5, RecorderMoves
<1> QED BY <1>2, <1>7, <1>8

LEMMA FindRevisionStep ==
  ASSUME FileHistoryInv, NEW t \in Thread, FindRevision(t)
  PROVE  FileHistoryInv'
<1> DEFINE h == Head(calls[t])
           before == IF h.rev \in index THEN <<>> ELSE IF h.rev \in Names THEN <<Step("heal", h.rev, 0)>> ELSE Unlock
           s == before \o Tail(calls[t])
<1>1. /\ calls[t] # <<>> /\ h.do = "find" /\ copy' = [copy EXCEPT ![t] = index]
      /\ calls' = [calls EXCEPT ![t] = s]
      /\ UNCHANGED <<live, holder, total, stray, cut, raced, revs, index, blobs>>
  BY DEF FindRevision, Does, Idle, Now, Makes, Loads
<1>2. holder = t /\ Records(calls[t], Names, index, blobs, copy[t], total, Good)
  BY <1>1, RecorderHas
<1>3. PICK n, c, d : n \in 1..total /\ (Good => index = Names /\ n \in Names) /\ c \in blobs /\ Coalescing2(calls[t], n, c, d)
  BY <1>1, <1>2, AtFind
<1>4. h.rev = n /\ Coalescing3(Tail(calls[t]), n, c, d)
  BY <1>3, RecordingForms, StepFields
<1>5. /\ Names' = Names /\ copy = [u \in Thread |-> copy[u]] /\ Names \subseteq 1..total
      /\ index \subseteq Nat /\ \A m \in Names : revs[m].content \in blobs
  BY <1>1 DEF Names, FileHistoryInv
<1>6. copy' = [u \in Thread |-> copy'[u]] /\ copy'[t] = index /\ \A u \in Thread \ {t} : copy'[u] = copy[u]
  BY <1>1, <1>5
<1>7. Tail(calls[t]) = <<Step("replace", n, c), Step("collect", n, d), LastStep>>
  BY <1>4 DEF Coalescing3
<1> HIDE DEF h
<1>8. Records(s, Names, index, blobs, copy'[t], total, Good)
  <2>1. CASE n \in index
    <3>1. s = Tail(calls[t])
      BY <1>4, <1>7, <2>1, TupleJoins
    <3> QED BY <1>3, <1>4, <3>1 DEF Records, Coalesces
  <2>2. CASE n \notin index /\ n \in Names
    <3>1. s = <<Step("heal", n, 0)>> \o <<Step("replace", n, c), Step("collect", n, d), LastStep>>
      BY <1>4, <1>7, <2>2
    <3> HIDE DEF s, before
    <3>2. Seeking1(s, n, n, c, d)
      BY <3>1, TupleJoins DEF Seeking1
    <3>3. ~Good /\ n \in Nat
      BY <1>3, <2>2
    <3> QED BY <1>3, <3>2, <3>3 DEF Records, Seeks
  <2>3. CASE n \notin index /\ n \notin Names
    <3>1. s = <<LastStep>> \o <<Step("replace", n, c), Step("collect", n, d), LastStep>>
      BY <1>4, <1>7, <2>3 DEF Unlock, LastStep
    <3> HIDE DEF s, before
    <3>2. Seeking2(s, n, c, d)
      BY <3>1, TupleJoins DEF Seeking2
    <3>3. ~Good /\ n \in Nat
      BY <1>3, <2>3
    <3> QED BY <1>3, <3>2, <3>3 DEF Records, Seeks
  <2> QED BY <2>1, <2>2, <2>3
<1> HIDE DEF s
<1> QED BY <1>1, <1>2, <1>5, <1>6, <1>8, RecorderMoves

\* The recorder's own, of a revision it did not find in the index
LEMMA SoughtStep ==
  ASSUME FileHistoryInv, NEW t \in Thread, Heal(t), holder = t
  PROVE  FileHistoryInv'
<1>1. /\ calls[t] # <<>> /\ Head(calls[t]).do = "heal" /\ index' = copy[t] \cup {Head(calls[t]).rev}
      /\ calls' = [calls EXCEPT ![t] = Tail(calls[t])] /\ raced' = (raced \/ index # copy[t] \/ holder \notin {t, NoThread})
      /\ UNCHANGED <<live, holder, total, stray, cut, revs, blobs, copy>>
  BY DEF Heal, Does, Idle, Now, Goes, Makes
<1>2. Records(calls[t], Names, index, blobs, copy[t], total, Good)
  BY FileHistoryAssumption DEF FileHistoryInv
<1>3. PICK m, n, c, d : ~Good /\ m \in Nat /\ n \in 1..total /\ c \in blobs /\ Seeking1(calls[t], m, n, c, d)
  BY <1>1, <1>2, AtHeal
<1>4. Head(calls[t]).rev = m /\ Coalescing3(Tail(calls[t]), n, c, d)
  BY <1>3, RecordingForms, StepFields
<1>5. ~Good' /\ raced' \in BOOLEAN
  BY <1>1, <1>3 DEF Good, FileHistoryInv
<1>6. Records(Tail(calls[t]), Names, index', blobs, copy[t], total, FALSE)
  BY <1>3, <1>4 DEF Records, Coalesces
<1>7. /\ Names' = Names /\ index' \subseteq Nat
      /\ calls' = [u \in Thread |-> calls'[u]] /\ calls'[t] = Tail(calls[t]) /\ \A u \in Thread \ {t} : calls'[u] = calls[u]
  BY <1>1, <1>3, <1>4 DEF FileHistoryInv, Names
<1>8. ~Deleting(calls'[t])
  <2>1. Head(Tail(calls[t])).do # "rmtree"
    BY <1>6, NotAtDeletion
  <2>2. \A x : Deleting(x) => Head(x).do = "rmtree"
    BY PruningForms, StepFields
  <2> QED BY <1>7, <2>1, <2>2
<1>9. Records(calls'[holder'], Names', index', blobs', copy'[holder'], total', FALSE)
  BY <1>1, <1>6, <1>7
<1>10. Good' = FALSE
  BY <1>5 DEF Good
<1> QED BY <1>1, <1>5, <1>7, <1>8, <1>9, <1>10 DEF FileHistoryInv

LEMMA UpdateRevisionStep ==
  ASSUME FileHistoryInv, NEW t \in Thread, UpdateRevision(t)
  PROVE  FileHistoryInv'
<1> DEFINE h == Head(calls[t])
<1>1. /\ calls[t] # <<>> /\ h.do = "replace"
      /\ UNCHANGED <<live, holder, total, stray, cut, raced, index, blobs, copy>>
  BY DEF UpdateRevision, Does, Idle, Now
<1>2. holder = t /\ Records(calls[t], Names, index, blobs, copy[t], total, Good)
  BY <1>1, RecorderHas
<1>3. PICK n, c, d : n \in 1..total /\ (Good => index = Names /\ n \in Names) /\ c \in blobs /\ Coalescing3(calls[t], n, c, d)
  BY <1>1, <1>2, AtReplace
<1>4. h.rev = n /\ h.content = c /\ Coalescing4(Tail(calls[t]), n, d)
  BY <1>3, RecordingForms, StepFields
<1>5. /\ copy = [u \in Thread |-> copy[u]] /\ Names \subseteq 1..total
      /\ index \subseteq Nat /\ copy[t] \subseteq Nat /\ \A m \in Names : revs[m].content \in blobs
  BY DEF FileHistoryInv
<1>6. CASE Names \cup index # {}
  <2>1. /\ revs' = [m \in Names \cup {n} |-> IF m = n THEN [content |-> c, update |-> TRUE] ELSE revs[m]]
        /\ calls' = [calls EXCEPT ![t] = Tail(calls[t])]
    BY <1>4, <1>6 DEF UpdateRevision, Now, Goes, Makes
  <2>2. Names' = Names \cup {n}
    BY <2>1 DEF Names
  <2>3. \A m \in Names' : revs'[m].content \in blobs
    BY <1>3, <1>5, <2>1, <2>2
  <2>4. Names' \subseteq 1..total /\ (Good => index = Names' /\ n \in Names')
    BY <1>3, <1>5, <2>2
  <2>5. Records(Tail(calls[t]), Names', index, blobs, copy[t], total, Good)
    BY <1>3, <1>4, <2>4 DEF Records, Coalesces
  <2> HIDE DEF h
  <2> QED BY <1>1, <1>2, <1>5, <2>1, <2>2, <2>3, <2>4, <2>5, RecorderMoves
<1>7. CASE Names \cup index = {}
  <2>1. calls' = [calls EXCEPT ![t] = Unlock] /\ revs' = revs
    BY <1>7 DEF UpdateRevision, Makes
  <2>2. Names' = Names
    BY <2>1 DEF Names
  <2>3. Records(Unlock, Names, index, blobs, copy[t], total, Good)
    BY <1>7 DEF Records, Over, Unlock, LastStep
  <2> QED BY <1>1, <1>2, <1>5, <2>1, <2>2, <2>3, RecorderMoves
<1> QED BY <1>6, <1>7

LEMMA CollectStep ==
  ASSUME FileHistoryInv, NEW t \in Thread, DeleteContentBlobIfUnreferenced(t)
  PROVE  FileHistoryInv'
<1> DEFINE h == Head(calls[t])
<1>1. /\ calls[t] # <<>> /\ h.do = "collect" /\ calls' = [calls EXCEPT ![t] = Tail(calls[t])]
      /\ blobs' = IF \E n \in Names : revs[n].content = h.content THEN blobs ELSE blobs \ {h.content}
      /\ UNCHANGED <<live, holder, total, stray, cut, raced, revs, index, copy>>
  BY DEF DeleteContentBlobIfUnreferenced, Does, Idle, Now, OnDisk, Goes, Makes
<1>2. holder = t /\ Records(calls[t], Names, index, blobs, copy[t], total, Good)
  BY <1>1, RecorderHas
<1>3. PICK n, d : n \in 1..total /\ (Good => index = Names /\ n \in Names) /\ Coalescing4(calls[t], n, d)
  BY <1>1, <1>2, AtCollect
<1>4. Over(Tail(calls[t]))
  BY <1>3, RecordingForms
<1>5. /\ copy = [u \in Thread |-> copy[u]] /\ Names \subseteq 1..total /\ Names' = Names
      /\ index \subseteq Nat /\ copy[t] \subseteq Nat /\ \A m \in Names : revs[m].content \in blobs
  BY <1>1 DEF FileHistoryInv, Names
<1> HIDE DEF h
<1>6. \A m \in Names : revs[m].content \in blobs'
  BY <1>1, <1>5
<1>7. Records(Tail(calls[t]), Names, index, blobs', copy[t], total, Good)
  BY <1>3, <1>4 DEF Records
<1> QED BY <1>1, <1>2, <1>5, <1>6, <1>7, RecorderMoves

LEMMA PruneRevisionsStep ==
  ASSUME FileHistoryInv, NEW t \in Thread, PruneRevisions(t)
  PROVE  FileHistoryInv'
<1> DEFINE old == {n \in Names : Cardinality({m \in Names : m > n}) >= MaxHistory}
           keep == IF old \cap index = {} THEN <<>> ELSE <<Step("keep", 0, 0)>>
           s == (Removal(old) \o keep) \o Tail(calls[t])
<1>1. /\ calls[t] # <<>> /\ Head(calls[t]).do = "prune" /\ copy' = [copy EXCEPT ![t] = index]
      /\ calls' = [calls EXCEPT ![t] = s]
      /\ UNCHANGED <<live, holder, total, stray, cut, raced, revs, index, blobs>>
  BY DEF PruneRevisions, Does, Idle, Now, Makes, Loads
<1>2. holder = t /\ Records(calls[t], Names, index, blobs, copy[t], total, Good)
  BY <1>1, RecorderHas
<1>3. /\ copy = [u \in Thread |-> copy[u]] /\ Names \subseteq 1..total /\ Names' = Names
      /\ index \subseteq Nat /\ \A m \in Names : revs[m].content \in blobs
  BY <1>1 DEF FileHistoryInv, Names
<1>4. copy' = [u \in Thread |-> copy'[u]] /\ copy'[t] = index /\ \A u \in Thread \ {t} : copy'[u] = copy[u]
  BY <1>1, <1>3
<1>5. PICK n, c : /\ n \in 1..total /\ Appending5(calls[t], n, c)
                  /\ Good => Names = index /\ n \in Names /\ Newest(n, Names)
  <2>1. Adds(calls[t], Names, index, copy[t], total, Good)
    BY <1>1, <1>2, AtIndex
  <2> QED BY <1>1, <2>1, AppendingForms, StepFields DEF Adds
<1>6. Tail(calls[t]) = <<LastStep>>
  BY <1>5, AppendingForms DEF Over
<1>7. ASSUME Good
      PROVE  Newer(n, old)
  <2>1. \A k \in Names : k <= n
    BY <1>5, <1>7 DEF Newest
  <2>2. {m \in Names : m > n} = {}
    BY <1>3, <1>5, <2>1
  <2>3. Cardinality({m \in Names : m > n}) = 0
    BY <2>2, FS_EmptySet
  <2>4. n \notin old
    BY <2>3, FileHistoryAssumption
  <2>5. \A m \in old : m \in Names /\ m # n /\ m \in Int
    BY <1>3, <2>4
  <2> HIDE DEF old
  <2> QED BY <1>5, <2>1, <2>5 DEF Newer
<1>8. old \subseteq Nat /\ (Good => old \subseteq index)
  BY <1>3, <1>5
<1> HIDE DEF old
<1>9. Records(s, Names, index, blobs, copy'[t], total, Good)
  <2>1. CASE old = {}
    <3>1. s = (<<>> \o <<>>) \o <<LastStep>>
      BY <1>6, <2>1 DEF Removal
    <3> HIDE DEF s
    <3>2. Over(s)
      BY <3>1, TupleJoins DEF Over
    <3> QED BY <1>5, <3>2 DEF Records
  <2>2. CASE old # {} /\ old \cap index = {}
    <3>1. s = (<<Step("remove", old, 0)>> \o <<>>) \o <<LastStep>>
      BY <1>6, <2>2 DEF Removal
    <3> HIDE DEF s
    <3>2. Pruning2(s, old)
      BY <3>1, TupleJoins DEF Pruning2
    <3>3. ~Good
      BY <1>8, <2>2
    <3> QED BY <1>8, <2>2, <3>2, <3>3 DEF Records, Prunes
  <2>3. CASE old # {} /\ old \cap index # {}
    <3>1. s = (<<Step("remove", old, 0)>> \o <<Step("keep", 0, 0)>>) \o <<LastStep>>
      BY <1>6, <2>3 DEF Removal
    <3> HIDE DEF s
    <3>2. Pruning1(s, old)
      BY <3>1, TupleJoins DEF Pruning1
    <3>3. Good => copy'[t] = Names /\ Names \subseteq index /\ \E k \in Names : Newer(k, old)
      BY <1>4, <1>5, <1>7
    <3> QED BY <1>8, <2>3, <3>2, <3>3 DEF Records, Prunes
  <2> QED BY <2>1, <2>2, <2>3
<1> HIDE DEF s
<1> QED BY <1>1, <1>2, <1>3, <1>4, <1>9, RecorderMoves

LEMMA RemoveFileStep ==
  ASSUME FileHistoryInv, NEW t \in Thread, RemoveFile(t)
  PROVE  FileHistoryInv'
<1> DEFINE old == Head(calls[t]).rev
<1>1. PICK n \in old :
        /\ \A m \in old : m <= n
        /\ revs' = [m \in Names \ {n} |-> revs[m]] /\ copy' = [copy EXCEPT ![t] = @ \ {n}]
        /\ calls' = [calls EXCEPT ![t] = Removal(old \ {n}) \o Tail(calls[t])]
  BY DEF RemoveFile, Now, Makes, Removed
<1>2. /\ calls[t] # <<>> /\ Head(calls[t]).do = "remove"
      /\ UNCHANGED <<live, holder, total, stray, cut, raced, index, blobs>>
  BY DEF RemoveFile, Does, Idle, Now
<1>3. holder = t /\ Records(calls[t], Names, index, blobs, copy[t], total, Good)
  BY <1>2, RecorderHas
<1>4. Prunes(calls[t], Names, index, copy[t], Good)
  BY <1>2, <1>3, AtPruning
<1>5. /\ old # {} /\ old \subseteq Nat
      /\ Good => copy[t] = Names /\ Names \subseteq index /\ \E k \in Names : Newer(k, old)
      /\ Pruning1(calls[t], old) \/ (Pruning2(calls[t], old) /\ ~Good)
  BY <1>2, <1>4, PruningForms, StepFields DEF Prunes
<1> HIDE DEF old
<1>6. /\ copy = [u \in Thread |-> copy[u]] /\ Names \subseteq 1..total /\ Names' = Names \ {n}
      /\ index \subseteq Nat /\ copy[t] \subseteq Nat /\ \A m \in Names : revs[m].content \in blobs
  BY <1>1 DEF FileHistoryInv, Names
<1>7. /\ copy' = [u \in Thread |-> copy'[u]] /\ copy'[t] = copy[t] \ {n} /\ \A u \in Thread \ {t} : copy'[u] = copy[u]
  BY <1>1, <1>6
<1>8. ASSUME Good
      PROVE  \E k \in Names \ {n} : Newer(k, old)
  <2>1. PICK k \in Names : Newer(k, old)
    BY <1>5, <1>8
  <2>2. n < k
    BY <1>1, <2>1 DEF Newer
  <2>3. k # n
    BY <1>1, <1>5, <2>2
  <2> QED BY <2>1, <2>3
<1>9. ASSUME NEW cp \in SUBSET Nat, Good, \E k \in Names : Newer(k, cp)
      PROVE  \E k \in Names' : Newer(k, cp)
  <2>1. PICK k \in Names : Newer(k, cp)
    BY <1>9
  <2>2. PICK j \in Names \ {n} : Newer(j, old)
    BY <1>8, <1>9
  <2>3. CASE k = n
    <3>1. n < j /\ n \in Nat /\ j \in Nat
      BY <1>1, <1>5, <1>6, <2>2 DEF Newer
    <3>2. \A m \in cp : m < n /\ m \in Nat
      BY <2>1, <2>3 DEF Newer
    <3>3. Newer(j, cp)
      BY <3>1, <3>2 DEF Newer
    <3> QED BY <1>6, <2>2, <3>3
  <2> QED BY <1>6, <2>1, <2>3
<1>10. Good => copy'[t] = Names' /\ Names' \subseteq index /\ \E k \in Names' : Newer(k, old \ {n})
  BY <1>5, <1>6, <1>7, <1>8 DEF Newer
<1> DEFINE rest == old \ {n}
           s == Removal(rest) \o Tail(calls[t])
<1>11. rest \subseteq Nat
  BY <1>5
<1> HIDE DEF rest
<1>12. Records(s, Names', index, blobs, copy'[t], total, Good)
  <2>1. CASE Pruning1(calls[t], old)
    <3>1. Tail(calls[t]) = <<Step("keep", 0, 0), LastStep>>
      BY <2>1, PruningForms DEF Pruning3
    <3>2. CASE rest = {}
      <4>1. s = <<>> \o <<Step("keep", 0, 0), LastStep>>
        BY <3>1, <3>2 DEF Removal
      <4> HIDE DEF s
      <4>2. Pruning3(s)
        BY <4>1, TupleJoins DEF Pruning3
      <4> QED BY <1>10, <4>2 DEF Records, Prunes
    <3>3. CASE rest # {}
      <4>1. s = <<Step("remove", rest, 0)>> \o <<Step("keep", 0, 0), LastStep>>
        BY <3>1, <3>3 DEF Removal
      <4> HIDE DEF s
      <4>2. Pruning1(s, rest)
        BY <4>1, TupleJoins DEF Pruning1
      <4> QED BY <1>10, <1>11, <3>3, <4>2 DEF Records, Prunes, rest
    <3> QED BY <3>2, <3>3
  <2>2. CASE Pruning2(calls[t], old) /\ ~Good
    <3>1. Tail(calls[t]) = <<LastStep>>
      BY <2>2, PruningForms DEF Over
    <3>2. CASE rest = {}
      <4>1. s = <<>> \o <<LastStep>>
        BY <3>1, <3>2 DEF Removal
      <4> HIDE DEF s
      <4>2. Over(s)
        BY <4>1, TupleJoins DEF Over
      <4> QED BY <2>2, <4>2 DEF Records
    <3>3. CASE rest # {}
      <4>1. s = <<Step("remove", rest, 0)>> \o <<LastStep>>
        BY <3>1, <3>3 DEF Removal
      <4> HIDE DEF s
      <4>2. Pruning2(s, rest)
        BY <4>1, TupleJoins DEF Pruning2
      <4> QED BY <1>11, <2>2, <3>3, <4>2 DEF Records, Prunes
    <3> QED BY <3>2, <3>3
  <2> QED BY <1>5, <2>1, <2>2
<1>13. calls' = [calls EXCEPT ![t] = s]
  BY <1>1 DEF rest
<1> HIDE DEF s
<1>14. \A m \in Names' : revs'[m].content \in blobs
  BY <1>1, <1>6
<1>15. Names' \subseteq 1..total /\ copy'[t] \subseteq Nat
  BY <1>6, <1>7
<1> QED BY <1>2, <1>3, <1>6, <1>7, <1>9, <1>12, <1>13, <1>14, <1>15, RecorderMoves

LEMMA SaveIndexStep ==
  ASSUME FileHistoryInv, NEW t \in Thread, SaveIndex(t)
  PROVE  FileHistoryInv'
<1>1. /\ calls[t] # <<>> /\ Head(calls[t]).do = "keep" /\ index' = copy[t]
      /\ calls' = [calls EXCEPT ![t] = Tail(calls[t])]
      /\ UNCHANGED <<live, holder, total, stray, cut, raced, revs, blobs, copy>>
  BY DEF SaveIndex, Does, Idle, Now, OnDisk, Goes, Makes
<1>2. holder = t /\ Records(calls[t], Names, index, blobs, copy[t], total, Good)
  BY <1>1, RecorderHas
<1>3. Pruning3(calls[t]) /\ (Good => copy[t] = Names)
  <2>1. Prunes(calls[t], Names, index, copy[t], Good)
    BY <1>1, <1>2, AtPruning
  <2> QED BY <1>1, <2>1, PruningForms, StepFields DEF Prunes
<1>4. Records(Tail(calls[t]), Names, index', blobs, copy[t], total, Good)
  BY <1>1, <1>3, PruningForms DEF Records
<1>5. /\ copy = [u \in Thread |-> copy[u]] /\ Names \subseteq 1..total /\ Names' = Names
      /\ copy[t] \subseteq Nat /\ \A m \in Names : revs[m].content \in blobs
  BY <1>1 DEF FileHistoryInv, Names
<1> QED BY <1>1, <1>2, <1>4, <1>5, RecorderMoves

LEMMA ReleaseStep ==
  ASSUME FileHistoryInv, NEW t \in Thread, Release(t)
  PROVE  FileHistoryInv'
<1>1. /\ calls[t] # <<>> /\ Head(calls[t]).do = "unlock" /\ calls' = [calls EXCEPT ![t] = <<>>]
      /\ holder' = NoThread /\ copy' = [copy EXCEPT ![t] = {}]
      /\ UNCHANGED <<revs, index, blobs, live, total, stray, cut, raced>>
  BY DEF Release, Does, Idle, Now, Makes
<1>2. holder = t /\ Records(calls[t], Names, index, blobs, copy[t], total, Good)
  BY <1>1, RecorderHas
<1>3. Good => index = Names
  BY <1>1, <1>2, AtUnlock
<1>4. /\ Names' = Names /\ Good' = Good /\ t # NoThread
      /\ calls' = [u \in Thread |-> calls'[u]] /\ calls'[t] = <<>> /\ \A u \in Thread \ {t} : calls'[u] = calls[u]
      /\ copy' = [u \in Thread |-> copy'[u]] /\ copy'[t] = {} /\ \A u \in Thread \ {t} : copy'[u] = copy[u]
  BY <1>1, FileHistoryAssumption DEF FileHistoryInv, Names, Good
<1>5. ~Deleting(<<>>) /\ ~Healing(<<>>)
  BY PruningForms
<1>6. ASSUME NEW u \in Thread
      PROVE  /\ Deleting(calls'[u]) => ~live'
             /\ calls'[u] = <<>> \/ Deleting(calls'[u]) \/ Healing(calls'[u])
             /\ copy'[u] \subseteq Nat
  <2>1. CASE u = t
    BY <1>4, <1>5, <2>1
  <2>2. CASE u # t
    BY <1>1, <1>2, <1>4, <2>2 DEF FileHistoryInv
  <2> QED BY <2>1, <2>2
<1>7. ASSUME Good
      PROVE  FilesAgree'
  <2>1. ~stray /\ live
    BY <1>2, <1>4, <1>7 DEF FileHistoryInv, FilesAgree
  <2>2. ASSUME NEW u \in Thread, Healing(calls'[u])
        PROVE  \E k \in Names' : Newer(k, copy'[u])
    <3>1. u # t /\ Healing(calls[u]) /\ copy'[u] = copy[u]
      BY <1>4, <1>5, <2>2
    <3> QED BY <1>2, <1>4, <1>7, <3>1 DEF FileHistoryInv, FilesAgree
  <2> QED BY <1>1, <1>3, <1>4, <1>7, <2>1, <2>2 DEF FilesAgree
<1> QED BY <1>1, <1>4, <1>6, <1>7 DEF FileHistoryInv

LEMMA BeginStep ==
  ASSUME FileHistoryInv, NEW t \in Thread, NEW do, NEW c, do \in {"content", "structure"}, Begin(t, do, c)
  PROVE  FileHistoryInv'
<1>1. /\ live /\ calls[t] = <<>> /\ holder = NoThread /\ holder' = t
      /\ UNCHANGED <<revs, index, blobs, live, copy, stray, cut, raced>>
  BY DEF Begin, Idle
<1>2. /\ Names' = Names /\ Good' = Good /\ t # NoThread
      /\ total \in Nat /\ Names \subseteq 1..total
  BY <1>1, FileHistoryAssumption DEF FileHistoryInv, Names, Good
<1>3. Good => index = Names
  BY <1>1 DEF FileHistoryInv, FilesAgree
<1>4. \E s : /\ calls' = [calls EXCEPT ![t] = s] /\ total' \in Nat /\ Names \subseteq 1..total'
             /\ Records(s, Names, index, blobs, copy[t], total', Good)
  <2>1. CASE \E n \in Names : calls' = [calls EXCEPT ![t] = Coalesced(n, c) \o Unlock] /\ total' = total
    <3>1. PICK n \in Names : calls' = [calls EXCEPT ![t] = Coalesced(n, c) \o Unlock] /\ total' = total
      BY <2>1
    <3> DEFINE d == revs[n].content
               s == <<Step("blob", n, c), Step("find", n, c), Step("replace", n, c), Step("collect", n, d)>> \o <<LastStep>>
    <3>2. calls' = [calls EXCEPT ![t] = s]
      BY <3>1 DEF Coalesced, Unlock, LastStep
    <3> HIDE DEF d
    <3>3. s = <<Step("blob", n, c), Step("find", n, c), Step("replace", n, c), Step("collect", n, d), LastStep>>
      BY TupleJoins
    <3> HIDE DEF s
    <3>4. Coalescing1(s, n, c, d)
      BY <3>3 DEF Coalescing1
    <3>5. Records(s, Names, index, blobs, copy[t], total, Good)
      BY <1>2, <1>3, <3>4 DEF Records, Coalesces
    <3> QED BY <1>2, <3>1, <3>2, <3>5
  <2>2. CASE calls' = [calls EXCEPT ![t] = Appended(total + 1, c, do = "content") \o Unlock] /\ total' = total + 1
    <3> DEFINE n == total + 1
               as == IF do = "content" THEN "update" ELSE "change"
               a1 == Step("blob", n, c)
               a2 == Step(as, n, c)
               a3 == Step("load", n, c)
               a4 == Step("add", n, c)
               a5 == Step("prune", n, c)
               s == <<a1, a2, a3, a4, a5>> \o <<LastStep>>
    <3>1. calls' = [calls EXCEPT ![t] = s]
      BY <2>2 DEF Appended, Unlock, LastStep
    <3>2. as \in {"update", "change"}
      OBVIOUS
    <3>3. n \in 1..total' /\ total' \in Nat /\ Names \subseteq 1..total' /\ Newer(n, Names)
      BY <1>2, <2>2 DEF Newer
    <3> HIDE DEF n, as
    <3> HIDE DEF a1, a2, a3, a4, a5
    <3>4. s = <<a1, a2, a3, a4, a5, LastStep>>
      BY TupleJoins
    <3> HIDE DEF s
    <3>5. Appending1(s, n, c, as)
      BY <3>4 DEF Appending1, a1, a2, a3, a4, a5
    <3>6. Records(s, Names, index, blobs, copy[t], total', Good)
      BY <1>3, <3>2, <3>3, <3>5 DEF Records, Appends
    <3> QED BY <3>1, <3>3, <3>6
  <2> QED BY <2>1, <2>2 DEF Begin, Makes
<1>5. PICK s : /\ calls' = [calls EXCEPT ![t] = s] /\ total' \in Nat /\ Names \subseteq 1..total'
               /\ Records(s, Names, index, blobs, copy[t], total', Good)
  BY <1>4
<1>6. calls' = [u \in Thread |-> calls'[u]] /\ calls'[t] = s /\ \A u \in Thread \ {t} : calls'[u] = calls[u]
  BY <1>5 DEF FileHistoryInv
<1>7. Records(calls'[holder'], Names', index', blobs', copy'[holder'], total', Good')
  BY <1>1, <1>2, <1>5, <1>6
<1>8. ~Deleting(s)
  BY <1>5, NotAtDeletion, PruningForms, StepFields
<1>9. ASSUME NEW u \in Thread
      PROVE  /\ Deleting(calls'[u]) => ~live'
             /\ u # holder' => calls'[u] = <<>> \/ Deleting(calls'[u]) \/ Healing(calls'[u])
  BY <1>1, <1>2, <1>6, <1>8, FileHistoryAssumption DEF FileHistoryInv
<1>10. ASSUME Good
       PROVE  FilesAgree'
  <2>1. ~stray
    BY <1>10 DEF FileHistoryInv, FilesAgree
  <2>2. ASSUME NEW u \in Thread, u # holder', Healing(calls'[u])
        PROVE  \E k \in Names' : Newer(k, copy'[u])
    <3>1. u # t /\ u # holder /\ Healing(calls[u]) /\ copy'[u] = copy[u]
      BY <1>1, <1>2, <1>6, <2>2, FileHistoryAssumption
    <3> QED BY <1>2, <1>10, <3>1 DEF FileHistoryInv, FilesAgree
  <2> QED BY <1>1, <1>2, <2>1, <2>2 DEF FilesAgree
<1> QED BY <1>1, <1>2, <1>5, <1>6, <1>7, <1>9, <1>10 DEF FileHistoryInv

\* Without the lock: what the thread that has it is at does not change, but may be disturbed.
LEMMA OtherMoves ==
  ASSUME FileHistoryInv, NEW t \in Thread, holder # t, NEW s, calls' = [calls EXCEPT ![t] = s],
         UNCHANGED <<holder, total, blobs>>, copy' = [u \in Thread |-> copy'[u]],
         \A u \in Thread \ {t} : copy'[u] = copy[u], copy'[t] \subseteq Nat,
         Names' \subseteq Names, \A n \in Names' : revs'[n] = revs[n], index' \subseteq Nat,
         {live, stray, cut, raced}' \subseteq BOOLEAN,
         s = <<>> \/ Deleting(s) \/ Healing(s), live' => live, Deleting(s) => ~live',
         Good' => Good, holder # NoThread /\ Good' => Names' = Names /\ index' = index,
         Good' => FilesAgree'
  PROVE  FileHistoryInv'
<1>1. calls' = [u \in Thread |-> calls'[u]] /\ calls'[t] = s /\ \A u \in Thread \ {t} : calls'[u] = calls[u]
  BY DEF FileHistoryInv
<1>2. Names' \subseteq 1..total' /\ \A n \in Names' : revs'[n].content \in blobs'
  BY DEF FileHistoryInv
<1>3. ASSUME NEW u \in Thread
      PROVE  /\ Deleting(calls'[u]) => ~live'
             /\ u # holder' => calls'[u] = <<>> \/ Deleting(calls'[u]) \/ Healing(calls'[u])
             /\ copy'[u] \subseteq Nat
  BY <1>1 DEF FileHistoryInv
<1>4. ASSUME holder # NoThread
      PROVE  Records(calls'[holder'], Names', index', blobs', copy'[holder'], total', Good')
  <2>1. holder \in Thread \ {t} /\ Records(calls[holder], Names, index, blobs, copy[holder], total, Good)
    BY <1>4 DEF FileHistoryInv
  <2>2. calls'[holder'] = calls[holder] /\ copy'[holder'] = copy[holder]
    BY <1>1, <2>1
  <2>3. CASE Good'
    <3>1. Good' = TRUE /\ Good = TRUE
      BY <2>3 DEF Good
    <3> QED BY <1>4, <2>1, <2>2, <2>3, <3>1
  <2>4. CASE ~Good'
    <3>1. Good' = FALSE
      BY <2>4 DEF Good
    <3>2. Records(calls[holder], Names', index', blobs, copy[holder], total, FALSE)
      BY <2>1, RecordsDisturbed
    <3> QED BY <2>2, <3>1, <3>2
  <2> QED BY <2>3, <2>4
<1> QED BY <1>1, <1>2, <1>3, <1>4 DEF FileHistoryInv

LEMMA DeletePageDataStep ==
  ASSUME FileHistoryInv, NEW t \in Thread, DeletePageData(t)
  PROVE  FileHistoryInv'
<1> DEFINE s == <<Step("rmtree", 0, 0)>>
<1>1. /\ live /\ calls[t] = <<>> /\ live' = FALSE /\ calls' = [calls EXCEPT ![t] = s]
      /\ raced' = (raced \/ holder # NoThread \/ \E u \in Thread : Does(u, "heal"))
      /\ UNCHANGED <<revs, index, blobs, holder, copy, total, stray, cut>>
  BY DEF DeletePageData, Idle, Makes
<1>2. Deleting(s)
  BY DEF Deleting
<1> HIDE DEF s
<1>3. holder # t
  BY <1>1, NotAtDeletion, FileHistoryAssumption DEF FileHistoryInv
<1>4. Names' = Names /\ index \subseteq Nat /\ copy = [u \in Thread |-> copy[u]] /\ copy[t] \subseteq Nat
      /\ {live, stray, cut, raced}' \subseteq BOOLEAN
  BY <1>1 DEF Names, FileHistoryInv
<1>5. Good' => Good /\ holder = NoThread /\ \A u \in Thread : ~Does(u, "heal")
  BY <1>1 DEF Good
<1>6. calls'[t] = s /\ \A u \in Thread \ {t} : calls'[u] = calls[u]
  BY <1>1 DEF FileHistoryInv
<1>7. ASSUME Good'
      PROVE  FilesAgree'
  <2>1. ~stray
    BY <1>5, <1>7 DEF FileHistoryInv, FilesAgree
  <2>2. ASSUME NEW u \in Thread
        PROVE  ~Healing(calls'[u])
    <3>1. CASE u = t
      BY <1>2, <1>6, <3>1, PruningForms, StepFields
    <3>2. CASE u # t
      BY <1>5, <1>6, <1>7, <3>2, PruningForms DEF Does, Idle, Now
    <3> QED BY <3>1, <3>2
  <2>3. \E u \in Thread : Deleting(calls'[u])
    BY <1>2, <1>6
  <2> QED BY <1>1, <1>5, <1>7, <2>1, <2>2, <2>3 DEF FilesAgree
<1> QED BY <1>1, <1>2, <1>3, <1>4, <1>5, <1>7, OtherMoves

LEMMA GetRevisionStep ==
  ASSUME FileHistoryInv, NEW t \in Thread, NEW n, GetRevision(t, n)
  PROVE  FileHistoryInv'
<1> DEFINE s == <<Step("heal", n, 0)>>
<1>1. /\ calls[t] = <<>> /\ n \in Names \ index /\ copy' = [copy EXCEPT ![t] = index] /\ raced' = (raced \/ ~live)
      /\ calls' = [calls EXCEPT ![t] = s]
      /\ UNCHANGED <<revs, index, blobs, live, holder, total, stray, cut>>
  BY DEF GetRevision, Idle, Loads, Makes
<1>2. /\ Names' = Names /\ index \subseteq Nat /\ Names \subseteq 1..total /\ copy = [u \in Thread |-> copy[u]]
      /\ {live, stray, cut, raced}' \subseteq BOOLEAN
  BY <1>1 DEF Names, FileHistoryInv
<1>3. Healing(s)
  BY <1>1, <1>2 DEF Healing
<1> HIDE DEF s
<1>4. holder # t
  BY <1>1, NotAtDeletion, FileHistoryAssumption DEF FileHistoryInv
<1>5. Good' => Good /\ live
  BY <1>1 DEF Good
<1>6. /\ calls'[t] = s /\ \A u \in Thread \ {t} : calls'[u] = calls[u]
      /\ copy' = [u \in Thread |-> copy'[u]] /\ copy'[t] = index /\ \A u \in Thread \ {t} : copy'[u] = copy[u]
  BY <1>1, <1>2 DEF FileHistoryInv
<1>7. ASSUME Good', Good, live
      PROVE  FilesAgree'
  <2>1. /\ ~stray /\ (holder = NoThread => index = Names)
        /\ \A u \in Thread : u # holder /\ Healing(calls[u]) => \E k \in Names : Newer(k, copy[u])
    BY <1>7 DEF FileHistoryInv, FilesAgree
  <2>2. holder # NoThread /\ Records(calls[holder], Names, index, blobs, copy[holder], total, TRUE)
    <3>1. holder # NoThread
      BY <1>1, <2>1
    <3>2. Good = TRUE
      BY <1>7 DEF Good
    <3> QED BY <3>1, <3>2 DEF FileHistoryInv
  <2>3. \E k \in Names : Newer(k, index)
    BY <1>1, <2>2 DEF Records, Coalesces, Seeks, Appends, Adds, Prunes
  <2>4. ASSUME NEW u \in Thread, u # holder', Healing(calls'[u])
        PROVE  \E k \in Names' : Newer(k, copy'[u])
    BY <1>1, <1>2, <1>6, <2>1, <2>3, <2>4
  <2> QED BY <1>1, <1>7, <2>1, <2>2, <2>4 DEF FilesAgree
<1>8. ~Deleting(s)
  BY <1>3, PruningForms, StepFields
<1> QED BY <1>1, <1>2, <1>3, <1>4, <1>5, <1>6, <1>7, <1>8, OtherMoves

\* What a reader writes back was changed since, unless the page is gone.
LEMMA ReaderHealsStep ==
  ASSUME FileHistoryInv, NEW t \in Thread, Heal(t), holder # t
  PROVE  FileHistoryInv'
<1>1. /\ calls[t] # <<>> /\ Head(calls[t]).do = "heal" /\ index' = copy[t] \cup {Head(calls[t]).rev}
      /\ calls' = [calls EXCEPT ![t] = Tail(calls[t])] /\ raced' = (raced \/ index # copy[t] \/ holder \notin {t, NoThread})
      /\ UNCHANGED <<live, holder, total, stray, cut, revs, blobs, copy>>
  BY DEF Heal, Does, Idle, Now, Goes, Makes
<1>2. Healing(calls[t])
  BY <1>1, PruningForms, StepFields DEF FileHistoryInv
<1>3. Tail(calls[t]) = <<>> /\ Head(calls[t]).rev \in Nat
  BY <1>2, PruningForms, Tuples, StepFields DEF Healing
<1>4. /\ Names' = Names /\ copy = [u \in Thread |-> copy[u]] /\ copy[t] \subseteq Nat /\ index' \subseteq Nat
      /\ {live, stray, cut, raced}' \subseteq BOOLEAN /\ Names \subseteq 1..total
  BY <1>1, <1>3 DEF Names, FileHistoryInv
<1>5. ~Good'
  <2>1. SUFFICES ASSUME Good'
                 PROVE  FALSE
    OBVIOUS
  <2>2. Good /\ index = copy[t] /\ holder = NoThread
    BY <1>1, <2>1 DEF Good
  <2>3. live /\ \E k \in Names : Newer(k, copy[t])
    BY <1>2, <2>2 DEF FileHistoryInv, FilesAgree
  <2>4. index = Names
    BY <2>2, <2>3 DEF FileHistoryInv, FilesAgree
  <2>5. \E k \in Names : k < k
    BY <2>2, <2>3, <2>4 DEF Newer
  <2> QED BY <1>4, <2>5
<1>6. ~Deleting(<<>>)
  BY PruningForms
<1> QED BY <1>1, <1>3, <1>4, <1>5, <1>6, OtherMoves

LEMMA RemoveEntryStep ==
  ASSUME FileHistoryInv, NEW t \in Thread, RemoveEntry(t)
  PROVE  FileHistoryInv'
<1>1. /\ calls[t] # <<>> /\ Head(calls[t]).do = "rmtree"
      /\ UNCHANGED <<blobs, live, holder, copy, total, cut, raced>>
  BY DEF RemoveEntry, Does, Idle, Now
<1>2. Deleting(calls[t]) /\ ~live /\ holder # t
  <2>1. holder # t
    BY <1>1, NotAtDeletion, FileHistoryAssumption DEF FileHistoryInv
  <2>2. Deleting(calls[t])
    BY <1>1, <2>1, PruningForms DEF FileHistoryInv
  <2> QED BY <2>1, <2>2 DEF FileHistoryInv
<1>3. /\ copy = [u \in Thread |-> copy[u]] /\ copy[t] \subseteq Nat /\ index \subseteq Nat /\ Names \subseteq 1..total
      /\ {live, stray, cut, raced} \subseteq BOOLEAN /\ Good' = Good /\ calls = [u \in Thread |-> calls[u]]
  BY <1>1 DEF FileHistoryInv, Good
<1>4. Good => holder = NoThread /\ ~stray /\ \A u \in Thread : ~Healing(calls[u])
  BY <1>2, FileHistoryAssumption DEF FileHistoryInv, FilesAgree
<1>5. ASSUME index' \in {index, {}}, Names' \subseteq Names, \A n \in Names' : revs'[n] = revs[n], calls' = calls, stray' = stray
      PROVE  FileHistoryInv'
  <2>1. calls' = [calls EXCEPT ![t] = calls[t]] /\ index' \subseteq Nat /\ {live, stray, cut, raced}' \subseteq BOOLEAN
    BY <1>1, <1>3, <1>5
  <2>2. Good => FilesAgree'
    BY <1>1, <1>2, <1>4, <1>5 DEF FilesAgree
  <2> QED BY <1>1, <1>2, <1>3, <1>4, <1>5, <2>1, <2>2, OtherMoves
<1>6. CASE \E n \in Names : Removed(t, {n}) /\ UNCHANGED <<index, calls, stray>>
  <2>1. PICK n \in Names : revs' = [m \in Names \ {n} |-> revs[m]] /\ UNCHANGED <<index, calls, stray>>
    BY <1>6 DEF Removed
  <2>2. Names' \subseteq Names /\ \A m \in Names' : revs'[m] = revs[m]
    BY <2>1 DEF Names
  <2> QED BY <1>5, <2>1, <2>2
<1>7. CASE index # {} /\ index' = {} /\ UNCHANGED <<revs, calls, stray>>
  BY <1>5, <1>7 DEF Names
<1>8. CASE Names = {} /\ index = {} /\ stray' = FALSE /\ Goes(t) /\ UNCHANGED <<revs, index>>
  <2>1. calls' = [calls EXCEPT ![t] = <<>>] /\ Names' = Names /\ index' = index
    BY <1>2, <1>8, PruningForms DEF Goes, Makes, Names
  <2>2. ~Deleting(<<>>) /\ ~Healing(<<>>)
    BY PruningForms
  <2>3. {live, stray, cut, raced}' \subseteq BOOLEAN
    BY <1>1, <1>3, <1>8
  <2>4. \A u \in Thread : calls'[u] = <<>> \/ calls'[u] = calls[u]
    BY <1>3, <2>1
  <2>5. Good => FilesAgree'
    BY <1>1, <1>2, <1>4, <1>8, <2>1, <2>2, <2>4 DEF FilesAgree
  <2> QED BY <1>1, <1>2, <1>3, <1>8, <2>1, <2>2, <2>3, <2>5, OtherMoves
<1> QED BY <1>6, <1>7, <1>8 DEF RemoveEntry

\* What is a call, of a thread that records and of one that does not
LEMMA IdleOrCalling ==
  ASSUME FileHistoryInv, NEW t \in Thread, calls[t] # <<>>, ~IsCall(t)
  PROVE  holder = t /\ Head(calls[t]).do = "unlock"
<1>1. Head(calls[t]).do \notin {"update", "change", "add", "heal", "replace", "keep", "blob", "load", "find", "collect",
                               "prune", "remove", "rmtree"}
  BY DEF IsCall, Writes, Does, Idle, Now
<1>2. holder = t /\ Records(calls[t], Names, index, blobs, copy[t], total, Good)
  BY <1>1, RecorderHas
<1> QED BY <1>1, <1>2, RecordingForms, AppendingForms, PruningForms, StepFields
        DEF Records, Coalesces, Seeks, Appends, Adds, Prunes, LastStep

LEMMA FailStep ==
  ASSUME FileHistoryInv, NEW t \in Thread, Fail(t)
  PROVE  FileHistoryInv'
<1> DEFINE s == IF Does(t, "heal") THEN Tail(calls[t]) ELSE IF holder = t THEN Unlock ELSE <<>>
<1>1. /\ calls[t] # <<>> /\ calls' = [calls EXCEPT ![t] = s] /\ cut' = (cut \/ ~Does(t, "blob"))
      /\ UNCHANGED <<revs, index, blobs, live, holder, copy, total, stray, raced>>
  BY DEF Fail, IsCall, Writes, Does, Idle, Makes
<1>2. /\ Names' = Names /\ copy = [u \in Thread |-> copy[u]] /\ copy[t] \subseteq Nat /\ index \subseteq Nat
      /\ {live, stray, cut, raced}' \subseteq BOOLEAN /\ calls = [u \in Thread |-> calls[u]]
      /\ Names \subseteq 1..total /\ \A n \in Names : revs[n].content \in blobs
  BY <1>1 DEF Names, FileHistoryInv
<1>3. Good' => Good /\ Does(t, "blob")
  BY <1>1 DEF Good
<1>4. CASE holder # t
  <2>1. s = <<>>
    <3>1. Does(t, "heal") => Healing(calls[t])
      BY <1>4, PruningForms, StepFields DEF FileHistoryInv, Does, Idle, Now
    <3> QED BY <1>4, <3>1, PruningForms
  <2> HIDE DEF s
  <2>2. ~Does(t, "blob")
    BY <1>1, <1>4, RecorderHas DEF Does, Idle, Now
  <2>3. ~Good' /\ ~Deleting(<<>>)
    BY <1>3, <2>2, PruningForms
  <2> QED BY <1>1, <1>2, <1>4, <2>1, <2>3, OtherMoves
<1>5. CASE holder = t
  <2>1. Records(calls[t], Names, index, blobs, copy[t], total, Good) /\ t # NoThread
    BY <1>5, FileHistoryAssumption DEF FileHistoryInv
  <2>2. ASSUME Good'
        PROVE  index = Names
    <3>1. Head(calls[t]).do = "blob" /\ Good
      BY <1>3, <2>2 DEF Does, Now
    <3> QED BY <2>1, <3>1, AtBlob
  <2>3. Records(s, Names, index, blobs, copy[t], total, Good')
    <3>1. CASE Does(t, "heal")
      <4>1. PICK m, n, c, d : n \in 1..total /\ c \in blobs /\ Seeking1(calls[t], m, n, c, d)
        BY <2>1, <3>1, AtHeal DEF Does, Now
      <4>2. Coalescing3(s, n, c, d)
        BY <3>1, <4>1, RecordingForms
      <4>3. ~Good'
        BY <1>3, <3>1 DEF Does, Now
      <4> HIDE DEF s
      <4> QED BY <4>1, <4>2, <4>3 DEF Records, Coalesces
    <3>2. CASE ~Does(t, "heal")
      <4>1. Over(s)
        BY <1>5, <3>2 DEF Over, Unlock, LastStep
      <4> HIDE DEF s
      <4> QED BY <2>2, <4>1 DEF Records
    <3> QED BY <3>1, <3>2
  <2>4. ~Deleting(s)
    BY <2>3, NotAtDeletion, PruningForms, StepFields
  <2> HIDE DEF s
  <2>5. calls' = [u \in Thread |-> calls'[u]] /\ calls'[t] = s /\ \A u \in Thread \ {t} : calls'[u] = calls[u]
    BY <1>1, <1>2
  <2>6. ASSUME NEW u \in Thread
        PROVE  /\ Deleting(calls'[u]) => ~live'
               /\ u # holder' => calls'[u] = <<>> \/ Deleting(calls'[u]) \/ Healing(calls'[u])
    BY <1>1, <1>5, <2>4, <2>5 DEF FileHistoryInv
  <2>7. Records(calls'[holder'], Names', index', blobs', copy'[holder'], total', Good')
    BY <1>1, <1>2, <1>5, <2>3, <2>5
  <2>8. ASSUME Good'
        PROVE  FilesAgree'
    <3>1. live /\ ~stray
      BY <1>3, <1>5, <2>1, <2>8 DEF FileHistoryInv, FilesAgree
    <3>2. ASSUME NEW u \in Thread, u # holder', Healing(calls'[u])
          PROVE  \E k \in Names' : Newer(k, copy'[u])
      <4>1. u # holder /\ Healing(calls[u]) /\ copy'[u] = copy[u]
        BY <1>1, <1>5, <2>5, <3>2
      <4> QED BY <1>2, <1>3, <2>8, <4>1 DEF FileHistoryInv, FilesAgree
    <3> QED BY <1>1, <1>5, <2>1, <3>1, <3>2 DEF FilesAgree
  <2> QED BY <1>1, <1>2, <2>5, <2>6, <2>7, <2>8 DEF FileHistoryInv
<1> QED BY <1>4, <1>5

LEMMA CrashStep == FileHistoryInv /\ Crash => FileHistoryInv'
<1> SUFFICES ASSUME FileHistoryInv, Crash
             PROVE  FileHistoryInv'
  OBVIOUS
<1>1. /\ calls' = [t \in Thread |-> <<>>] /\ holder' = NoThread
      /\ stray' \in {stray, stray \/ \E t \in Thread : Writes(t)}
      /\ cut' = (cut \/ \E t \in Thread : IsCall(t) /\ ~Does(t, "blob"))
      /\ UNCHANGED <<revs, index, blobs, live, copy, total, raced>>
  BY DEF Crash
<1>2. Names' = Names /\ ~Deleting(<<>>) /\ ~Healing(<<>>)
  BY <1>1, PruningForms DEF Names
<1>3. {live, stray, cut, raced}' \subseteq BOOLEAN
  BY <1>1 DEF FileHistoryInv
<1>4. \A t \in Thread : calls'[t] = <<>>
  BY <1>1
<1>5. ASSUME Good'
      PROVE  FilesAgree'
  <2>1. Good /\ \A t \in Thread : IsCall(t) => Does(t, "blob")
    BY <1>1, <1>5 DEF Good
  <2>2. FilesAgree
    BY <2>1 DEF FileHistoryInv
  <2>3. \A t \in Thread : ~Writes(t)
    BY <2>1 DEF IsCall, Writes, Does
  <2>4. ~stray'
    BY <1>1, <2>2, <2>3 DEF FilesAgree
  <2>5. \A t \in Thread : ~Deleting(calls[t])
    <3>1. \A t \in Thread : Deleting(calls[t]) => IsCall(t) /\ ~Does(t, "blob")
      BY PruningForms, StepFields DEF IsCall, Does, Idle, Now
    <3> QED BY <2>1, <3>1
  <2>6. holder # NoThread => index = Names
    <3>1. SUFFICES ASSUME holder # NoThread
                   PROVE  index = Names
      OBVIOUS
    <3>2. holder \in Thread /\ Records(calls[holder], Names, index, blobs, copy[holder], total, Good)
      BY <3>1 DEF FileHistoryInv
    <3>3. Head(calls[holder]).do \in {"blob", "unlock"}
      BY <2>1, <3>2, IdleOrCalling, NotAtDeletion DEF Does, Now
    <3> QED BY <2>1, <3>2, <3>3, AtBlob, AtUnlock
  <2>7. live \/ (Names = {} /\ index = {})
    BY <2>2, <2>5 DEF FilesAgree
  <2> QED BY <1>1, <1>2, <1>4, <2>2, <2>4, <2>6, <2>7 DEF FilesAgree
<1> QED BY <1>1, <1>2, <1>3, <1>4, <1>5 DEF FileHistoryInv

LEMMA FileHistoryInvInit == FileHistoryInit => FileHistoryInv
<1> SUFFICES ASSUME FileHistoryInit
             PROVE  FileHistoryInv
  OBVIOUS
<1>1. Names = {} /\ index = {} /\ holder = NoThread /\ \A t \in Thread : calls[t] = <<>> /\ copy[t] = {}
  BY DEF FileHistoryInit, Names
<1>2. ~Deleting(<<>>) /\ ~Healing(<<>>)
  BY PruningForms
<1> QED BY <1>1, <1>2 DEF FileHistoryInit, FileHistoryInv, FilesAgree

LEMMA FileHistoryInvNext == FileHistoryInv /\ FileHistoryNext => FileHistoryInv'
<1>1. ASSUME FileHistoryInv, NEW t \in Thread, Asks(t)
      PROVE  FileHistoryInv'
  BY <1>1, BeginStep, DeletePageDataStep, GetRevisionStep DEF Asks
<1>2. ASSUME FileHistoryInv, NEW t \in Thread, Runs(t)
      PROVE  FileHistoryInv'
  BY <1>2, SaveContentBlobStep, SaveRevisionStep, IndexStep, FindRevisionStep, SoughtStep, ReaderHealsStep,
     UpdateRevisionStep, CollectStep, PruneRevisionsStep, RemoveFileStep, SaveIndexStep, ReleaseStep, RemoveEntryStep
     DEF Runs
<1> QED BY <1>1, <1>2, FailStep, CrashStep DEF FileHistoryNext

LEMMA FileHistoryInvStutter == FileHistoryInv /\ UNCHANGED fileHistoryVars => FileHistoryInv'
<1> SUFFICES ASSUME FileHistoryInv, UNCHANGED fileHistoryVars
             PROVE  FileHistoryInv'
  OBVIOUS
<1>1. Names' = Names /\ Good' = Good
  BY DEF fileHistoryVars, Names, Good
<1> QED BY <1>1 DEF fileHistoryVars, FileHistoryInv, FilesAgree

\* While a revision is recorded, the directory and the index differ by what its thread is at,
\* as long as nothing failed and nobody interfered; a reader that writes the index back
\* interferes, because what it loaded lacks the newest revision.
THEOREM FileHistoryInvariant == FileHistorySpec => []FileHistoryInv
BY FileHistoryInvInit, FileHistoryInvNext, FileHistoryInvStutter, PTL DEF FileHistorySpec

\* HistoryImports, for any threads, contents, limits and faults: however recording,
\* coalescing, pruning, reading and deleting in internal/core/revision interleave, fail and
\* are cut, a revision that is there has its content, and an instance that was stopped in good
\* order passes the inspection of internal/transfer.
THEOREM HistoriesImport == FileHistorySpec => []HistoryImports
<1>1. FileHistoryInv => HistoryImports
  <2> SUFFICES ASSUME FileHistoryInv, \A t \in Thread : Idle(t), ~cut, ~raced
               PROVE  Accepted
    BY DEF HistoryImports, FileHistoryInv
  <2>1. FilesAgree
    BY DEF FileHistoryInv, Good
  <2>2. \A t \in Thread : calls[t] = <<>>
    BY DEF Idle
  <2>3. holder = NoThread
    BY <2>2, NotAtDeletion DEF FileHistoryInv
  <2>4. \A t \in Thread : ~Deleting(calls[t])
    BY <2>2, PruningForms
  <2>5. (Names # {} => live) /\ index = Names /\ ~stray
    BY <2>1, <2>3, <2>4 DEF FilesAgree
  <2> QED BY <2>5 DEF Accepted, FileHistoryInv
<1> QED BY <1>1, FileHistoryInvariant, PTL
=============================================================================
