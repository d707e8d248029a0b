--------------------------- MODULE MCSearchIndex ----------------------------
(* Two requests next to the rebuild at start: on a page to which everything   *)
(* can happen, on a page with a restart or a resync besides, or on two pages  *)
(* whose batches lock one and wait for the other.                             *)
EXTENDS SearchIndex, TLC

CONSTANTS t1, t2, place1, place2
VARIABLE part

Threads == {t1, t2}
Alike == Permutations(Threads) \cup Permutations({place1, place2})

OnePage(maxStamp, maxRebuilds) == INSTANCE SearchIndex WITH
  Page <- {1}, MaxStamp <- maxStamp, MaxRebuilds <- maxRebuilds,
  EffectsFail <- TRUE, Bare <- {"pin", "convert", "refactor"}

PartsInit == IndexInit /\ part \in {"page", "rebuilds", "batches"}

PartsNext ==
  /\ UNCHANGED part
  /\ \/ part = "page" /\ OnePage(3, 0)!IndexNext
     \/ part = "rebuilds" /\ OnePage(2, 1)!IndexNext
     \/ part = "batches" /\ IndexNext

Parts == PartsInit /\ [][PartsNext]_<<indexVars, part>>
==============================================================================
