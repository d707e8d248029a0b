---------------------------- MODULE MCFileStore ----------------------------
(* What keeps or moves data in files: the page tree, the history of a page,  *)
(* the migration of an old tree, the import of a workspace of files into the *)
(* database, and the restore of a snapshot.  The five share no state, and    *)
(* each part of the run has one of them.  A page that was deleted while its  *)
(* history was in use is not followed further, and once a conversion was cut *)
(* in two only the next start is.                                            *)
EXTENDS FileTree, FileHistory, TreeMigration, LegacyImport, LegacyRestore, TLC

CONSTANTS t1, t2, i1, i2

VARIABLE part

Threads == {t1, t2}
Importers == {i1, i2}
Alike == Permutations(Threads) \cup Permutations(Importers)

Untorn == "conversion" \in torn => todo' = <<>> \/ todo # <<>>
NotRaced == ~raced

PartsInit ==
  /\ part \in {"tree", "history", "migration", "import", "restore"}
  /\ FileTreeInit /\ FileHistoryInit /\ LegacyInit /\ MigrationInit /\ RestoreInit
  /\ part # "migration" => had = {} /\ \A n \in Page : snapshot[n].kind = ""
  /\ part # "restore" => disk["branding"] # Absent

PartsNext ==
  /\ UNCHANGED part
  /\ \/ part = "tree" /\ FileTreeNext
        /\ UNCHANGED <<fileHistoryVars, migrationVars, legacyVars, restoreVars>>
     \/ part = "history" /\ FileHistoryNext
        /\ UNCHANGED <<treeFileVars, migrationVars, legacyVars, restoreVars>>
     \/ part = "migration" /\ MigrationNext
        /\ UNCHANGED <<treeFileVars, fileHistoryVars, legacyVars, restoreVars>>
     \/ part = "import" /\ LegacyNext
        /\ UNCHANGED <<treeFileVars, fileHistoryVars, migrationVars, restoreVars>>
     \/ part = "restore" /\ RestoreNext
        /\ UNCHANGED <<treeFileVars, fileHistoryVars, migrationVars, legacyVars>>

Parts ==
  PartsInit /\ [][PartsNext]_<<treeFileVars, fileHistoryVars, migrationVars, legacyVars, restoreVars, part>>
=============================================================================
