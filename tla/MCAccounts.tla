----------------------------- MODULE MCAccounts -----------------------------
(* What the locks of the database guard.  Two requests change accounts: two   *)
(* admins that demote each other, the last place for an editor taken twice, a *)
(* token confirmed twice.  Or they log in, refresh and change the second      *)
(* factor of one account; these two parts share no column of a user, and what *)
(* both hold is the lock of its table, which each of them models.  Or         *)
(* processes of four releases migrate, serve, back up and restore; a restore  *)
(* that a migration came into is not followed further.                        *)
EXTENDS Accounts, Sessions, SchemaMigrations, TLC

CONSTANTS c1, c2, v1, v2, v3, forked
Alike == Permutations({c1, c2})

VersionOf == [s \in {"a", "b", "c", "d"} |-> CASE s = "a" -> 1 [] s = "d" -> 3 [] OTHER -> 2]
ScriptsOf ==
  [p \in {v1, v2, v3, forked} |->
     CASE p = v1 -> {"a"} [] p = v2 -> {"a", "b"} [] p = v3 -> {"a", "b", "d"} [] p = forked -> {"a", "c"}]

VARIABLE part

NotOvertaken == ~overtaken

SideBySideInit ==
  /\ part \in {"accounts", "sessions", "schema"}
  /\ AccountsInit /\ SessionsInit /\ SchemaInit
  /\ part # "schema" => archive = NoArchive

SideBySideNext ==
  /\ UNCHANGED part
  /\ \/ part = "accounts" /\ AccountsNext /\ UNCHANGED <<sessionVars, schemaVars>>
     \/ part = "sessions" /\ SessionsNext /\ UNCHANGED <<accountVars, schemaVars>>
     \/ part = "schema" /\ SchemaNext /\ UNCHANGED <<accountVars, sessionVars>>

SideBySide == SideBySideInit /\ [][SideBySideNext]_<<accountVars, sessionVars, schemaVars, part>>
=============================================================================
