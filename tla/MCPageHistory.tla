---------------------------- MODULE MCPageHistory ----------------------------
(* What the changes of a page leave behind.  In one part of the states that    *)
(* is its history: two pages, of which one is refactored while two users save  *)
(* both, or one page that is created, attached files to, restored and deleted. *)
(* In the other part it is the rows of its tags and properties: two requests   *)
(* change a page next to a resync and restarts.                                *)
EXTENDS PageHistory, MetadataIndex, TLC

CONSTANTS target, other, u1, u2, n1, n2, d1, d2, t1, t2
VARIABLE part

Pair == {target, other}
Flat == [p \in Pair |-> {p}]
Users == {u1, u2}
Threads == {t1, t2}
Alike ==
  Permutations(Users) \cup Permutations({n1, n2}) \cup Permutations({d1, d2}) \cup Permutations(Threads)

OnePage == INSTANCE PageHistory WITH
  Page <- {other}, Below <- [p \in {other} |-> {p}], Initial <- {}, LinksOld <- {FALSE},
  Name <- {n1, n2}, Data <- {d1, d2}, Target <- {}, Restorable <- {other},
  MaxSaves <- 3, MaxUploads <- 2

TextsOrFilesNext ==
  \/ target \in used /\ HistoryNext
  \/ target \notin used /\ OnePage!HistoryNext

PartsInit ==
  /\ MetadataInit
  /\ \/ part = "history" /\ (HistoryInit \/ OnePage!HistoryInit)
     \/ part = "metadata" /\ HistoryInit

PartsNext ==
  /\ UNCHANGED part
  /\ \/ part = "history" /\ TextsOrFilesNext /\ UNCHANGED metadataVars
     \/ part = "metadata" /\ MetadataNext /\ UNCHANGED historyVars

Parts == PartsInit /\ [][PartsNext]_<<historyVars, metadataVars, part>>
=============================================================================
