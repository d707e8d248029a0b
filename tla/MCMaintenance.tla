---------------------------- MODULE MCMaintenance ----------------------------
(***************************************************************************)
(* The gate on its own: three gated requests and an exempt one against a   *)
(* snapshot and a restore that both call Freeze.  And the gate in its      *)
(* place: two gated requests, an import in the background, two             *)
(* administrators, and the scheduler, over a document of each kind of      *)
(* writer.                                                                 *)
(***************************************************************************)
EXTENDS Maintenance

CONSTANTS r1, r2, r3, login, page, imported, a1, a2

VARIABLE part

MCRequest == {r1, r2, r3, login}
MCExempt == {login}
MCOperation == {snapshot, restore}
MCGatedDoc == {page}
MCImportDoc == {imported}
MCAdmin == {a1, a2}

\* The gate outside a server: nothing else of a process is there.
GateAlone ==
  /\ GateInit /\ ProcessInit
  /\ up = FALSE /\ dirtyRows = {} /\ dirtyFiles = {}
  /\ pending = FALSE /\ swapped = {} /\ loaded = FALSE

PartsInit ==
  \/ part = "gate" /\ GateAlone
  \/ part = "maintenance" /\ MaintInit

PartsNext ==
  /\ UNCHANGED part
  /\ \/ part = "gate" /\ GateNext /\ UNCHANGED <<up, processVars, dirtyVars, durableVars>>
     \/ part = "maintenance" /\ MaintNext /\ request'[r3] = "out"

Parts ==
  /\ PartsInit /\ [][PartsNext]_<<maintVars, part>>
  /\ part = "gate" => GateFairness
  /\ part = "maintenance" => MaintFairness
=============================================================================
