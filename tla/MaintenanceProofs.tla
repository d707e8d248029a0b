-------------------------- MODULE MaintenanceProofs --------------------------
(***************************************************************************)
(* The write gate for any finite set of requests and any set of operations *)
(* (its invariants, and that it implements ExclusiveWindow), and backup    *)
(* and restore, for any finite sets of requests and documents and any      *)
(* number of administrators: what a crash, a failure or a refused trigger  *)
(* may leave behind.                                                       *)
(*                                                                         *)
(* The restore without PostgreSQL, for any number of restores and of       *)
(* failures, wherever it is cut.  The steps that are left are the end of a *)
(* script, and they say by themselves how far each item, each store and    *)
(* the gate are: what is still to be moved aside is as it was, what is     *)
(* still to be committed has its original beside it, and what is still to  *)
(* be opened is closed.  So a failure at any step finds all it puts back.  *)
(***************************************************************************)
EXTENDS Maintenance, LegacyRestore, FiniteSetTheorems, TLAPS

-----------------------------------------------------------------------------
(* The write gate *)

\* The counter read by the drain is the number of admitted requests.
InflightCountsActive == inflight = Cardinality(ActiveRequests)

\* Whoever is inside Freeze holds the operation mutex.
InFreezeHolds == \A o \in Operation : freeze[o] # "idle" => holder = o

\* From Engage until Release or GiveUp the gate is shut.
DrainingEngaged ==
  \A o \in Operation : freeze[o] \in {"draining", "frozen"} => engaged

\* The drain that ended stays ended: nobody enters while the gate is shut.
FrozenDrained == \A o \in Operation : freeze[o] = "frozen" => inflight = 0

GateInv ==
  /\ GateTypeOK
  /\ InflightCountsActive
  /\ InFreezeHolds
  /\ DrainingEngaged
  /\ EngagedHasOwner
  /\ FrozenDrained

-----------------------------------------------------------------------------
\* The set the counter counts is finite, so its cardinality is a number.
LEMMA ActiveFinite ==
  ASSUME GateTypeOK
  PROVE  IsFiniteSet(ActiveRequests)
<1>1. ActiveRequests \subseteq Request  BY DEF ActiveRequests, Gated
<1>2. QED  BY <1>1, FS_Subset, GateAssumption

\* What the two counting steps do to the set of admitted requests.
LEMMA EnterAdds ==
  ASSUME GateTypeOK, NEW r \in Request, TryEnter(r)
  PROVE  ActiveRequests' = ActiveRequests \cup {r} /\ r \notin ActiveRequests
BY DEF GateTypeOK, TryEnter, ActiveRequests, Gated

LEMMA LeaveRemoves ==
  ASSUME GateTypeOK, NEW r \in Request, Leave(r)
  PROVE  ActiveRequests' = ActiveRequests \ {r} /\ r \in ActiveRequests
BY DEF GateTypeOK, Leave, ActiveRequests, Gated

\* A request that bypasses the gate, and every operation step, leave the set
\* of admitted requests alone.
LEMMA BypassKeeps ==
  ASSUME GateTypeOK, NEW r \in Request, BypassGate(r)
  PROVE  ActiveRequests' = ActiveRequests
BY DEF GateTypeOK, BypassGate, ActiveRequests, Gated

LEMMA OperationKeeps ==
  ASSUME NEW o \in Operation, OperationStep(o)
  PROVE  request' = request /\ inflight' = inflight
         /\ ActiveRequests' = ActiveRequests
BY DEF OperationStep, TryLock, CheckEngaged, Engage, Drained, GiveUp, Release,
       Unlock, ActiveRequests, Gated

-----------------------------------------------------------------------------
LEMMA GateInit_Inv == GateInit => GateInv
<1> SUFFICES ASSUME GateInit PROVE GateInv  OBVIOUS
<1>1. GateTypeOK  BY DEF GateInit, GateTypeOK, FreezeStep
<1>2. ActiveRequests = {}  BY DEF GateInit, ActiveRequests, Gated
<1>3. InflightCountsActive
  BY <1>2, FS_EmptySet DEF GateInit, InflightCountsActive
<1>4. QED
  BY <1>1, <1>3 DEF GateInit, GateInv, InFreezeHolds, DrainingEngaged,
     EngagedHasOwner, FrozenDrained

LEMMA Request_Inv ==
  ASSUME GateInv, NEW r \in Request, RequestStep(r)
  PROVE  GateInv'
<1> USE DEF GateInv
<1>f. IsFiniteSet(ActiveRequests)  BY ActiveFinite
<1>1. CASE TryEnter(r)
  <2>1. GateTypeOK'  BY <1>1 DEF GateTypeOK, TryEnter, FreezeStep
  <2>2. InflightCountsActive'
    BY <1>1, <1>f, EnterAdds, FS_AddElement DEF InflightCountsActive, TryEnter
  <2>3. QED
    BY <1>1, <2>1, <2>2 DEF TryEnter, InFreezeHolds, DrainingEngaged,
       EngagedHasOwner, FrozenDrained
<1>2. CASE Leave(r)
  <2>1. Cardinality(ActiveRequests) \in Nat  BY <1>f, FS_CardinalityType
  <2>2. Cardinality(ActiveRequests') = Cardinality(ActiveRequests) - 1
    BY <1>2, <1>f, LeaveRemoves, FS_RemoveElement
  <2>3. Cardinality(ActiveRequests) # 0
    BY <1>2, <1>f, LeaveRemoves, FS_EmptySet
  <2>4. GateTypeOK' /\ InflightCountsActive'
    BY <1>2, <2>1, <2>2, <2>3
       DEF GateTypeOK, Leave, FreezeStep, InflightCountsActive
  <2>5. inflight # 0  BY <2>3 DEF InflightCountsActive
  <2>6. QED
    BY <1>2, <2>4, <2>5 DEF Leave, InFreezeHolds, DrainingEngaged,
       EngagedHasOwner, FrozenDrained
<1>3. CASE BypassGate(r)
  <2>1. GateTypeOK'  BY <1>3 DEF GateTypeOK, BypassGate, FreezeStep
  <2>2. InflightCountsActive'
    BY <1>3, BypassKeeps DEF InflightCountsActive, BypassGate
  <2>3. QED
    BY <1>3, <2>1, <2>2 DEF BypassGate, InFreezeHolds, DrainingEngaged,
       EngagedHasOwner, FrozenDrained
<1>4. QED  BY <1>1, <1>2, <1>3 DEF RequestStep

LEMMA Operation_Inv ==
  ASSUME GateInv, NEW o \in Operation, OperationStep(o)
  PROVE  GateInv'
<1> USE GateAssumption DEF GateInv
<1>1. InflightCountsActive'
  BY OperationKeeps DEF InflightCountsActive
<1> DEFINE Rest == /\ GateTypeOK /\ InFreezeHolds /\ DrainingEngaged
                   /\ EngagedHasOwner /\ FrozenDrained
<1> USE DEF GateTypeOK, FreezeStep, InFreezeHolds, DrainingEngaged,
            EngagedHasOwner, FrozenDrained
<1>2. CASE TryLock(o)       BY <1>1, <1>2 DEF TryLock
<1>3. CASE CheckEngaged(o)  BY <1>1, <1>3 DEF CheckEngaged
<1>4. CASE Engage(o)        BY <1>1, <1>4 DEF Engage
<1>5. CASE Drained(o)       BY <1>1, <1>5 DEF Drained
<1>6. CASE GiveUp(o)        BY <1>1, <1>6 DEF GiveUp
<1>7. CASE Release(o)       BY <1>1, <1>7 DEF Release
<1>8. CASE Unlock(o)        BY <1>1, <1>8 DEF Unlock
<1>9. QED
  BY <1>2, <1>3, <1>4, <1>5, <1>6, <1>7, <1>8 DEF OperationStep

LEMMA Stutter_Inv == GateInv /\ UNCHANGED gateVars => GateInv'
BY DEF gateVars, GateInv, GateTypeOK, InflightCountsActive, ActiveRequests,
       InFreezeHolds, DrainingEngaged, EngagedHasOwner, FrozenDrained

\* The gate's invariant: the counter is exact, Freeze is exclusive, and an
\* engaged gate has an owner that is still draining or frozen.
THEOREM GateInvariant == GateSpec => []GateInv
<1>1. GateInit => GateInv  BY GateInit_Inv
<1>2. GateInv /\ [GateNext]_gateVars => GateInv'
  BY Request_Inv, Operation_Inv, Stutter_Inv DEF GateNext
<1>3. QED  BY <1>1, <1>2, PTL DEF GateSpec

-----------------------------------------------------------------------------
\* An empty count is an empty set of admitted requests.
LEMMA ZeroIsQuiet ==
  ASSUME GateInv, inflight = 0
  PROVE  ActiveRequests = {}
<1>1. IsFiniteSet(ActiveRequests)  BY ActiveFinite DEF GateInv
<1>2. QED  BY <1>1, FS_EmptySet DEF GateInv, InflightCountsActive

\* Every variable of the gate stays in its type.
THEOREM GateTypes == GateSpec => []GateTypeOK
<1>1. GateInv => GateTypeOK  BY DEF GateInv
<1>2. QED  BY <1>1, GateInvariant, PTL

\* While an operation is frozen, no gated handler runs, the gate is shut and
\* the operation holds the mutex: what CreateBackup and RestoreBackup require
\* of their caller.
THEOREM GateQuiet == GateSpec => []FrozenMeansQuiet
<1>1. GateInv => FrozenMeansQuiet
  <2> SUFFICES ASSUME GateInv, NEW o \in Operation, freeze[o] = "frozen"
               PROVE  engaged /\ holder = o /\ ActiveRequests = {}
    BY DEF FrozenMeansQuiet
  <2>1. engaged /\ holder = o /\ inflight = 0
    BY DEF GateInv, DrainingEngaged, InFreezeHolds, FrozenDrained
  <2>2. QED  BY <2>1, ZeroIsQuiet
<1>2. QED  BY <1>1, GateInvariant, PTL

\* The gate is never left shut by an operation that is gone.
THEOREM GateOwned == GateSpec => []EngagedHasOwner
<1>1. GateInv => EngagedHasOwner  BY DEF GateInv
<1>2. QED  BY <1>1, GateInvariant, PTL

-----------------------------------------------------------------------------
\* A request step is Begin, End or a stutter of the window.
LEMMA RequestRefines ==
  ASSUME GateInv, NEW r \in Request, RequestStep(r)
  PROVE  [Window!WNext]_(Window!windowVars)
<1> USE DEF GateInv
<1>1. CASE TryEnter(r)
  <2>1. r \in Gated /\ ~engaged /\ FrozenBy' = FrozenBy
    BY <1>1 DEF TryEnter, FrozenBy
  <2>2. FrozenBy = NoOp
    BY <2>1 DEF FrozenBy, GateTypeOK, DrainingEngaged
  <2>3. Window!Begin(r)
    BY <1>1, <2>1, <2>2, EnterAdds DEF Window!Begin
  <2>4. QED  BY <2>1, <2>3 DEF Window!WNext
<1>2. CASE Leave(r)
  <2>1. r \in Gated /\ FrozenBy' = FrozenBy  BY <1>2 DEF Leave, FrozenBy
  <2>2. Window!End(r)  BY <1>2, <2>1, LeaveRemoves DEF Window!End
  <2>3. QED  BY <2>1, <2>2 DEF Window!WNext
<1>3. CASE BypassGate(r)
  <2>1. FrozenBy' = FrozenBy  BY <1>3 DEF BypassGate, FrozenBy
  <2>2. QED  BY <1>3, <2>1, BypassKeeps DEF Window!windowVars
<1>4. QED  BY <1>1, <1>2, <1>3 DEF RequestStep

\* An operation step opens the window (Drained), closes it (Release) or is a
\* stutter of it.
LEMMA OperationRefines ==
  ASSUME GateInv, NEW o \in Operation, OperationStep(o)
  PROVE  [Window!WNext]_(Window!windowVars)
<1> USE GateAssumption DEF GateInv, GateTypeOK, FreezeStep
<1>a. ActiveRequests' = ActiveRequests  BY OperationKeeps
<1>1. CASE Drained(o)
  <2>1. holder = o /\ FrozenBy = NoOp /\ FrozenBy' = o
    BY <1>1 DEF Drained, FrozenBy, InFreezeHolds
  <2>2. ActiveRequests = {}  BY <1>1, ZeroIsQuiet DEF Drained
  <2>3. Window!Open(o)  BY <1>a, <2>1, <2>2 DEF Window!Open
  <2>4. QED  BY <2>3 DEF Window!WNext
<1>2. CASE Release(o)
  <2>1. FrozenBy = o /\ FrozenBy' = NoOp
    BY <1>2 DEF Release, FrozenBy, InFreezeHolds
  <2>2. Window!Close  BY <1>a, <2>1 DEF Window!Close
  <2>3. QED  BY <2>2 DEF Window!WNext
<1>3. CASE TryLock(o) \/ CheckEngaged(o) \/ Engage(o) \/ GiveUp(o) \/ Unlock(o)
  <2>1. FrozenBy' = FrozenBy
    BY <1>3 DEF TryLock, CheckEngaged, Engage, GiveUp, Unlock, FrozenBy,
       InFreezeHolds
  <2>2. QED  BY <1>a, <2>1 DEF Window!windowVars
<1>4. QED  BY <1>1, <1>2, <1>3 DEF OperationStep

\* The gate implements ExclusiveWindow for every set of requests and
\* operations.
THEOREM GateImplementsWindow == GateSpec => ImplementsWindow
<1>1. GateInit => Window!WInit
  <2> SUFFICES ASSUME GateInit PROVE Window!WInit  OBVIOUS
  <2>1. ActiveRequests = {} /\ FrozenBy = NoOp
    BY DEF GateInit, ActiveRequests, Gated, FrozenBy
  <2>2. QED  BY <2>1 DEF Window!WInit
<1>2. GateInv /\ [GateNext]_gateVars => [Window!WNext]_(Window!windowVars)
  <2>1. GateInv /\ GateNext => [Window!WNext]_(Window!windowVars)
    BY RequestRefines, OperationRefines DEF GateNext
  <2>2. UNCHANGED gateVars => UNCHANGED Window!windowVars
    BY DEF gateVars, Window!windowVars, ActiveRequests, FrozenBy
  <2>3. QED  BY <2>1, <2>2
<1>3. QED
  BY <1>1, <1>2, GateInvariant, PTL DEF GateSpec, ImplementsWindow, Window!WSpec

-----------------------------------------------------------------------------
(* Backup and restore *)

\* A stopped process has no gate, no job and no goroutine.
DownIsClean ==
  ~up => GateInit /\ job = NoJob /\ rest = "idle" /\ snap = "idle"

\* Where each goroutine is tells where its Freeze is.  A restore that has
\* given up leaves it frozen.
SnapInFreeze ==
  /\ snap \in {"idle", "starting"} => freeze[snapshot] = "idle"
  /\ snap \in {"dumping", "copying", "checking", "publishing"}
       => freeze[snapshot] = "frozen"
  /\ snap = "releasing" => freeze[snapshot] \in {"unlocking", "idle"}

RestInFreeze ==
  /\ rest \in {"idle", "starting"} => freeze[restore] \in {"idle", "frozen"}
  /\ rest \in {"staging", "swapping", "loading", "rebuilding", "reloading", "unjournaling"}
       => freeze[restore] = "frozen"
  /\ rest = "releasing" => freeze[restore] \in {"unlocking", "idle"}

\* The job is running exactly while the restore's goroutine is.
JobIsRest == job.running <=> rest # "idle"

\* A running process that has a journal is a restore under way or stuck.
JournalIsHeld ==
  /\ pending /\ up => freeze[restore] = "frozen"
                      /\ rest \notin {"freezing", "staging", "releasing"}
  /\ rest \in {"swapping", "loading", "rebuilding", "reloading", "unjournaling"}
       => pending

\* The swap is complete before the load, and both before the journal goes.
SwapThenLoad ==
  /\ rest \in {"loading", "rebuilding", "reloading", "unjournaling"} => swapped = Doc
  /\ rest \in {"rebuilding", "reloading", "unjournaling"} => loaded

\* Nothing that requests write has changed since the snapshot's captures, nor
\* since the restore's journal.
CapturesHold ==
  /\ snap \in {"dumping", "copying", "checking", "publishing"}
       => GatedDoc \cap dirtyRows = {}
  /\ snap \in {"copying", "checking", "publishing"} => GatedDoc \cap dirtyFiles = {}
  /\ NoLostUpload

MaintInv ==
  /\ MaintTypeOK /\ GateInv
  /\ DownIsClean
  /\ SnapInFreeze /\ RestInFreeze /\ JobIsRest
  /\ JournalIsHeld /\ SwapThenLoad /\ JournalCoversMix
  /\ CapturesHold

-----------------------------------------------------------------------------
\* What the gate's own invariant says about a Freeze that has returned.
LEMMA FrozenIsQuiet ==
  ASSUME GateInv, NEW o \in Operation, freeze[o] = "frozen"
  PROVE  engaged /\ holder = o /\ ActiveRequests = {}
<1>1. engaged /\ holder = o /\ inflight = 0
  BY DEF GateInv, DrainingEngaged, InFreezeHolds, FrozenDrained
<1>2. QED  BY <1>1, ZeroIsQuiet

\* Every step moves the gate as the gate's specification does, or not at all,
\* or is the end of the process.
LEMMA GateMoves ==
  ASSUME MaintNext
  PROVE  GateNext \/ UNCHANGED gateVars \/ Stop
<1> USE MaintenanceAssumption
<1>1. CASE WriterStep
  BY <1>1 DEF WriterStep, RequestEnters, RequestLeaves, HandlerWrites, ImportWrites, Write,
     GateNext, RequestStep, Gated
<1>2. CASE \E o \in Operation : FreezeRuns(o)
  BY <1>2 DEF FreezeRuns, InFreeze, GateNext, OperationStep
<1>3. CASE TriggerNow \/ TakeManual \/ TakeTick \/ SnapRuns
  BY <1>3 DEF TriggerNow, TakeManual, TakeTick, SnapRuns, SnapOnly, SnapLocks, SnapLockBusy,
     SnapEnds, Dump, TakeInventory, CopyFiles, CheckInventory, SnapReleases,
     GateNext, OperationStep
<1>4. CASE \E a \in Admin : PassCheck(a) \/ Start(a)
  BY <1>4 DEF PassCheck, Start
<1>5. CASE RestRuns
  BY <1>5 DEF RestRuns, RestOnly, RestLocks, RestLockBusy, RestEnds, Stage, WriteJournal,
     SwapFile, SwapDone, Load, Rebuild, RemoveJournal, FailClean, FailStuck,
     GateNext, OperationStep
<1>6. CASE Crash \/ SelfRestart \/ Boot \/ OperatorRecovers
  BY <1>6 DEF Crash, SelfRestart, Boot, OperatorRecovers
<1>7. QED  BY <1>1, <1>2, <1>3, <1>4, <1>5, <1>6 DEF MaintNext

\* A stopped process is a gate in its initial state.
LEMMA StopResets ==
  ASSUME Stop
  PROVE  GateInit'
BY DEF Stop, GateInit

LEMMA GateInv_Step ==
  ASSUME GateInv, MaintNext
  PROVE  GateInv'
<1>1. CASE GateNext  BY <1>1, Request_Inv, Operation_Inv DEF GateNext
<1>2. CASE UNCHANGED gateVars  BY <1>2, Stutter_Inv
<1>3. CASE Stop
  <2>1. GateInit'  BY <1>3, StopResets
  <2>2. GateInit' => GateInv'  BY GateInit_Inv, PTL
  <2>3. QED  BY <2>1, <2>2
<1>4. QED  BY <1>1, <1>2, <1>3, GateMoves

-----------------------------------------------------------------------------
\* The conjuncts of MaintInv that name the process, the data or the journal.
Parts ==
  /\ MaintTypeOK
  /\ DownIsClean
  /\ SnapInFreeze /\ RestInFreeze /\ JobIsRest
  /\ JournalIsHeld /\ SwapThenLoad /\ JournalCoversMix
  /\ CapturesHold

LEMMA MaintInit_Inv == MaintInit => MaintInv
<1> SUFFICES ASSUME MaintInit PROVE MaintInv  OBVIOUS
<1>1. GateInv  BY GateInit_Inv DEF MaintInit
<1>2. MaintTypeOK
  BY <1>1 DEF GateInv, MaintInit, ProcessInit, MaintTypeOK, SnapStep, RestStep, NoJob
<1>3. SnapInFreeze /\ RestInFreeze
  BY MaintenanceAssumption
     DEF MaintInit, ProcessInit, GateInit, SnapInFreeze, RestInFreeze
<1>4. QED
  BY <1>1, <1>2, <1>3 DEF MaintInit, ProcessInit, NoJob, MaintInv, DownIsClean, JobIsRest,
     JournalIsHeld, SwapThenLoad, JournalCoversMix, Mixed, CapturesHold, NoLostUpload

\* A gated handler writes only while no Freeze has returned; the import's
\* documents are not the handlers'.
LEMMA Writer_Inv ==
  ASSUME MaintInv, WriterStep
  PROVE  Parts'
<1> USE MaintenanceAssumption DEF MaintInv
<1>g. GateTypeOK'
  BY GateInv_Step DEF GateInv, MaintNext
<1>1. CASE \E r \in Gated : RequestEnters(r) \/ RequestLeaves(r)
  <2>1. UNCHANGED <<up, processVars, dirtyVars, durableVars, freeze>>
    BY <1>1 DEF RequestEnters, RequestLeaves, TryEnter, Leave
  <2>2. up  BY <1>1 DEF RequestEnters, RequestLeaves
  <2>3. QED
    BY <1>g, <2>1, <2>2 DEF processVars, dirtyVars, durableVars, Parts, MaintTypeOK,
       DownIsClean, SnapInFreeze, RestInFreeze, JobIsRest, JournalIsHeld, SwapThenLoad,
       JournalCoversMix, Mixed, CapturesHold, NoLostUpload
<1>2. ASSUME NEW d \in Doc, Write(d), up,
             d \in GatedDoc => ActiveRequests # {}
      PROVE  Parts'
  <2>1. UNCHANGED <<gateVars, up, processVars, durableVars>>  BY <1>2 DEF Write
  <2>2. dirtyRows' \subseteq dirtyRows \cup {d} /\ dirtyFiles' \subseteq dirtyFiles \cup {d}
    BY <1>2 DEF Write
  <2>3. CapturesHold'
    <3>1. CASE d \in GatedDoc
      <4>1. freeze[snapshot] # "frozen" /\ freeze[restore] # "frozen"
        BY <1>2, <3>1, FrozenIsQuiet
      <4>2. QED
        BY <2>1, <4>1 DEF gateVars, processVars, CapturesHold, NoLostUpload,
           SnapInFreeze, RestInFreeze
    <3>2. CASE d \notin GatedDoc
      BY <2>1, <2>2, <3>2 DEF processVars, CapturesHold, NoLostUpload
    <3>3. QED  BY <3>1, <3>2
  <2>4. MaintTypeOK'
    BY <1>g, <1>2, <2>1, <2>2 DEF processVars, durableVars, MaintTypeOK
  <2>5. QED
    BY <1>2, <2>1, <2>3, <2>4 DEF gateVars, processVars, durableVars, Parts, DownIsClean,
       SnapInFreeze, RestInFreeze, JobIsRest, JournalIsHeld, SwapThenLoad, JournalCoversMix, Mixed
<1>3. QED
  BY <1>1, <1>2 DEF WriterStep, HandlerWrites, ImportWrites

\* Inside Freeze only the gate moves.
LEMMA Freeze_Inv ==
  ASSUME MaintInv, NEW o \in Operation, FreezeRuns(o)
  PROVE  Parts'
<1> USE MaintenanceAssumption DEF MaintInv
<1>g. GateTypeOK'
  BY GateInv_Step DEF GateInv, MaintNext
<1>1. up /\ UNCHANGED <<up, processVars, dirtyVars, durableVars>>
  BY DEF FreezeRuns
<1>2. /\ freeze[o] \notin {"idle", "frozen"}
      /\ freeze' = [freeze EXCEPT ![o] = freeze'[o]]
      /\ freeze[o] = "unlocking" => freeze'[o] = "idle"
  BY DEF FreezeRuns, InFreeze, CheckEngaged, Engage, Drained, GiveUp, Unlock,
     MaintTypeOK, GateTypeOK
<1>3. SnapInFreeze' /\ RestInFreeze'
  BY <1>1, <1>2 DEF processVars, SnapInFreeze, RestInFreeze, MaintTypeOK, GateTypeOK
<1>4. JournalIsHeld'
  BY <1>1, <1>2 DEF processVars, durableVars, JournalIsHeld, MaintTypeOK, GateTypeOK
<1>5. QED
  BY <1>g, <1>1, <1>3, <1>4 DEF processVars, dirtyVars, durableVars, Parts, MaintTypeOK,
     DownIsClean, JobIsRest, SwapThenLoad, JournalCoversMix, Mixed, CapturesHold, NoLostUpload

\* The scheduler and CreateBackup: the captures are taken while nothing that
\* requests write can change.
LEMMA Snapshot_Inv ==
  ASSUME MaintInv, TriggerNow \/ TakeManual \/ TakeTick \/ SnapRuns
  PROVE  Parts'
<1> USE MaintenanceAssumption DEF MaintInv
<1>g. GateTypeOK'
  BY GateInv_Step DEF GateInv, MaintNext
<1>u. up
  BY DEF TriggerNow, TakeManual, TakeTick, SnapRuns, SnapGoes, SnapLocks, SnapLockBusy,
     SnapEnds, Dump, TakeInventory, CopyFiles, CheckInventory, SnapReleases
<1> USE DEF Parts, MaintTypeOK, GateTypeOK, FreezeStep, SnapStep, DownIsClean, SnapInFreeze,
            RestInFreeze, JobIsRest, JournalIsHeld, SwapThenLoad, JournalCoversMix, Mixed, CapturesHold,
            NoLostUpload, processVars, dirtyVars, durableVars, gateVars
<1>1. CASE TriggerNow      BY <1>g, <1>u, <1>1 DEF TriggerNow
<1>2. CASE TakeManual      BY <1>g, <1>u, <1>2 DEF TakeManual, SnapGoes
<1>3. CASE TakeTick        BY <1>g, <1>u, <1>3 DEF TakeTick, SnapGoes, SnapOnly
<1>4. CASE SnapLocks       BY <1>g, <1>u, <1>4 DEF SnapLocks, SnapGoes, TryLock
<1>5. CASE SnapLockBusy    BY <1>g, <1>u, <1>5 DEF SnapLockBusy, SnapGoes, SnapOnly
<1>6. CASE SnapEnds        BY <1>g, <1>u, <1>6 DEF SnapEnds, SnapGoes, SnapOnly
<1>7. CASE Dump            BY <1>g, <1>u, <1>7 DEF Dump, SnapGoes, SnapOnly
<1>8. CASE TakeInventory   BY <1>g, <1>u, <1>8 DEF TakeInventory, SnapGoes, SnapOnly
<1>9. CASE CopyFiles       BY <1>g, <1>u, <1>9 DEF CopyFiles, SnapGoes, SnapOnly
<1>10. CASE CheckInventory BY <1>g, <1>u, <1>10 DEF CheckInventory, SnapGoes, SnapOnly
<1>11. CASE SnapReleases
  BY <1>g, <1>u, <1>11 DEF SnapReleases, SnapGoes, Release
<1>12. QED
  BY <1>1, <1>2, <1>3, <1>4, <1>5, <1>6, <1>7, <1>8, <1>9, <1>10, <1>11 DEF SnapRuns

\* A trigger may reset the flag of a stuck restore; it does not touch the gate
\* or the data.
LEMMA Trigger_Inv ==
  ASSUME MaintInv, NEW a \in Admin, PassCheck(a) \/ Start(a)
  PROVE  Parts'
<1> USE MaintenanceAssumption DEF MaintInv
<1>g. GateTypeOK'
  BY GateInv_Step DEF GateInv, MaintNext
<1> USE DEF Parts, MaintTypeOK, GateTypeOK, RestStep, DownIsClean, SnapInFreeze, RestInFreeze, JobIsRest,
            JournalIsHeld, SwapThenLoad, JournalCoversMix, Mixed, CapturesHold, NoLostUpload,
            dirtyVars, durableVars, gateVars
<1>1. CASE PassCheck(a)  BY <1>g, <1>1 DEF PassCheck
<1>2. CASE Start(a)
  <2>1. CASE job.running   BY <1>g, <1>2, <2>1 DEF Start
  <2>2. CASE ~job.running
    <3>1. /\ up /\ rest = "idle" /\ rest' = "starting"
          /\ job' = [running |-> TRUE, needs |-> FALSE]
          /\ passed' \subseteq Admin
          /\ UNCHANGED <<gateVars, up, queued, snap, dirtyVars, durableVars>>
      BY <1>2, <2>2 DEF Start
    <3>2. job'.running /\ job' \in [running : BOOLEAN, needs : BOOLEAN]  BY <3>1
    <3>3. QED  BY <1>g, <3>1, <3>2
  <2>3. QED  BY <2>1, <2>2
<1>3. QED  BY <1>1, <1>2

\* The restore: the journal is there before the first rename and goes after
\* the last step, and no step from one to the other releases the gate.
LEMMA Restore_Inv ==
  ASSUME MaintInv, RestRuns
  PROVE  Parts'
<1> USE MaintenanceAssumption DEF MaintInv
<1>g. GateTypeOK'
  BY GateInv_Step DEF GateInv, MaintNext
<1>u. up
  BY DEF RestRuns, RestGoes, RestLocks, RestLockBusy, RestEnds, Stage, WriteJournal, SwapFile,
     SwapDone, Load, Rebuild, RemoveJournal, FailClean, FailStuck
<1>i. Finish => job' \in [running : BOOLEAN, needs : BOOLEAN] /\ ~job'.running
  BY DEF Finish, MaintTypeOK
<1>j. FinishNeedsIntervention
        => job' \in [running : BOOLEAN, needs : BOOLEAN] /\ ~job'.running
  BY DEF FinishNeedsIntervention
<1> USE DEF Parts, MaintTypeOK, GateTypeOK, FreezeStep, RestStep, DownIsClean, SnapInFreeze,
            RestInFreeze, JobIsRest, JournalIsHeld, SwapThenLoad, JournalCoversMix, Mixed, CapturesHold,
            NoLostUpload, dirtyVars, durableVars, gateVars
<1>1. CASE RestLocks      BY <1>g, <1>u, <1>1 DEF RestLocks, RestGoes, TryLock
<1>2. CASE RestLockBusy   BY <1>g, <1>u, <1>i, <1>2 DEF RestLockBusy, RestGoes, RestOnly
<1>3. CASE RestEnds       BY <1>g, <1>u, <1>i, <1>3 DEF RestEnds, RestGoes, RestOnly
<1>4. CASE Stage          BY <1>g, <1>u, <1>4 DEF Stage, RestGoes, RestOnly
<1>5. CASE WriteJournal   BY <1>g, <1>u, <1>5 DEF WriteJournal, RestGoes, RestOnly
<1>6. CASE \E d \in Doc : SwapFile(d)
  BY <1>g, <1>u, <1>6 DEF SwapFile, RestOnly
<1>7. CASE SwapDone       BY <1>g, <1>u, <1>7 DEF SwapDone, RestGoes, RestOnly
<1>8. CASE Load           BY <1>g, <1>u, <1>8 DEF Load, RestGoes, RestOnly
<1>9. CASE Rebuild        BY <1>g, <1>u, <1>9 DEF Rebuild, RestGoes, RestOnly
<1>10. CASE RemoveJournal BY <1>g, <1>u, <1>10 DEF RemoveJournal, RestGoes, Release
<1>11. CASE FailClean     BY <1>g, <1>u, <1>11 DEF FailClean, RestGoes, Release
<1>12. CASE FailStuck     BY <1>g, <1>u, <1>j, <1>12 DEF FailStuck, RestGoes, RestOnly
<1>13. QED
  BY <1>1, <1>2, <1>3, <1>4, <1>5, <1>6, <1>7, <1>8, <1>9, <1>10, <1>11, <1>12 DEF RestRuns

\* A process that stops leaves only the data directory, the database and the
\* journal; one that starts has found no journal.
LEMMA Process_Inv ==
  ASSUME MaintInv, Crash \/ SelfRestart \/ Boot \/ OperatorRecovers
  PROVE  Parts'
<1> USE MaintenanceAssumption DEF MaintInv
<1>g. GateTypeOK'
  BY GateInv_Step DEF GateInv, MaintNext
<1> USE DEF Parts, MaintTypeOK, DownIsClean, SnapInFreeze, RestInFreeze, JobIsRest, JournalIsHeld,
            SwapThenLoad, JournalCoversMix, Mixed, CapturesHold, NoLostUpload
<1>1. CASE Crash \/ SelfRestart
  <2>1. Stop  BY <1>1 DEF Crash, SelfRestart
  <2>2. GateInit'  BY <2>1, StopResets
  <2>3. QED  BY <1>g, <2>1, <2>2 DEF Stop, NoJob, SnapStep, RestStep
<1>2. CASE Boot
  BY <1>g, <1>2 DEF Boot, gateVars, processVars, dirtyVars, durableVars
<1>3. CASE OperatorRecovers
  <2>1. GateInit'  BY <1>3 DEF OperatorRecovers, gateVars, GateInit
  <2>2. QED  BY <1>g, <1>3, <2>1 DEF OperatorRecovers, gateVars, processVars, dirtyVars
<1>4. QED  BY <1>1, <1>2, <1>3

-----------------------------------------------------------------------------
LEMMA MaintNext_Inv ==
  ASSUME MaintInv, MaintNext
  PROVE  MaintInv'
<1>1. Parts'
  BY Writer_Inv, Freeze_Inv, Snapshot_Inv, Trigger_Inv, Restore_Inv, Process_Inv DEF MaintNext
<1>2. QED  BY <1>1, GateInv_Step DEF MaintInv, Parts

LEMMA MaintStutter_Inv == MaintInv /\ UNCHANGED maintVars => MaintInv'
<1> SUFFICES ASSUME MaintInv, UNCHANGED maintVars PROVE MaintInv'  OBVIOUS
<1>1. GateInv'  BY Stutter_Inv DEF MaintInv, maintVars
<1>2. QED
  BY <1>1 DEF MaintInv, maintVars, gateVars, processVars, dirtyVars, durableVars, MaintTypeOK,
     GateTypeOK, DownIsClean, GateInit, SnapInFreeze, RestInFreeze, JobIsRest, JournalIsHeld,
     SwapThenLoad, JournalCoversMix, Mixed, CapturesHold, NoLostUpload

\* The inductive invariant: where each goroutine is determines where its
\* Freeze is and whether the journal exists.
THEOREM MaintInvariant == MaintSpec => []MaintInv
<1>1. MaintInv /\ [MaintNext]_maintVars => MaintInv'
  BY MaintNext_Inv, MaintStutter_Inv
<1>2. QED  BY <1>1, MaintInit_Inv, PTL DEF MaintSpec

\* Every variable of backup and restore stays in its type.
THEOREM MaintTypes == MaintSpec => []MaintTypeOK
<1>1. MaintInv => MaintTypeOK  BY DEF MaintInv
<1>2. QED  BY <1>1, MaintInvariant, PTL

\* Every published backup is a cut of what requests write.
THEOREM BackupsAreCuts == MaintSpec => []BackupIsCut
<1>1. MaintInv => BackupIsCut  BY DEF MaintInv, CapturesHold, BackupIsCut
<1>2. QED  BY <1>1, MaintInvariant, PTL

\* No crash and no failure leaves files and database of different versions
\* without the journal.
THEOREM MixIsJournaled == MaintSpec => []JournalCoversMix
<1>1. MaintInv => JournalCoversMix  BY DEF MaintInv
<1>2. QED  BY <1>1, MaintInvariant, PTL

\* As long as the process runs over mixed data, no request writes to it.
THEOREM MixStaysQuiet == MaintSpec => []MixIsQuiet
<1>1. MaintInv => MixIsQuiet
  <2> SUFFICES ASSUME MaintInv, Mixed, up
               PROVE  engaged /\ holder = restore /\ freeze[restore] = "frozen"
                      /\ ActiveRequests = {}
    BY DEF MixIsQuiet
  <2>1. freeze[restore] = "frozen"
    BY DEF MaintInv, JournalCoversMix, JournalIsHeld
  <2>2. QED  BY <2>1, FrozenIsQuiet, MaintenanceAssumption DEF MaintInv
<1>2. QED  BY <1>1, MaintInvariant, PTL

\* Together: half-restored data is guarded on the disk and in the process that left it.
THEOREM MixStaysGuarded == MaintSpec => []MixIsGuarded
<1>1. JournalCoversMix /\ MixIsQuiet => MixIsGuarded  BY DEF MixIsGuarded
<1>2. QED  BY <1>1, MixIsJournaled, MixStaysQuiet, PTL

\* The restore never renames away a file that a request has just written.
THEOREM UploadsAreKept == MaintSpec => []NoLostUpload
<1>1. MaintInv => NoLostUpload  BY DEF MaintInv, CapturesHold
<1>2. QED  BY <1>1, MaintInvariant, PTL

-----------------------------------------------------------------------------
(* What a restore knows at each step *)

Content == [of : Int, writes : {-1} \cup Nat]
Copy == Content
Statuses == {"idle", "running", "stuck", "restored", "failed", "refused"}
Steps == {On(do, i) : do \in DOMAIN StepOrder, i \in Item}

RestoreTypeOK ==
  /\ disk \in [Item -> Content] /\ aside \in [Item -> Content] /\ before \in [Item -> Content]
  /\ open \in [Stores -> Content] /\ brand \in Content /\ left \in [Item -> SUBSET Content]
  /\ wal \subseteq Stores /\ unmerged \subseteq Stores /\ staged \subseteq Item /\ moved \subseteq Item
  /\ plan \subseteq Steps /\ process \in {"up", "down", "offline"} /\ status \in Statuses
  /\ {botched, shut, late} \subseteq BOOLEAN /\ {restores, troubles} \subseteq Nat

\* The last steps of a list of steps, in their order
Suffix(S, L) == S \subseteq L /\ \A s \in S, r \in L : Due(s) <= Due(r) => r \in S

Ahead(do, i) == On(do, i) \in plan
Forward == Ahead("restored", "root")
Backward == Ahead("failed", "root")

InScript ==
  /\ status = "running" <=> plan # {}
  /\ plan # {} => process # "down"
  /\ \/ plan \in {{}, Once("refused")}
     \/ process = "up" /\ Suffix(plan, Live(staged)) /\ Forward
     \/ process = "offline" /\ Suffix(plan, Offline(staged)) /\ Forward
     \/ process = "up" /\ Suffix(plan, Recovery) /\ Backward
     \/ Suffix(plan, Rollback(moved)) /\ Backward

\* An item is as it was, or its original is beside it, or there was none.
Kept(i) == IsOriginal(i, disk[i])
Beside(i) == IF aside[i] = Absent THEN before[i] = Absent ELSE IsOriginal(i, aside[i])
Replaced(i) == disk[i].of = restores

Older ==
  /\ restores = 0 => staged = {}
  /\ \A i \in Item :
       /\ disk[i].of <= restores /\ aside[i].of <= restores
       /\ before[i].of <= restores /\ (restores > 0 => before[i].of < restores)

Swapped ==
  Forward =>
    /\ \A i \in Item \ staged : Kept(i) /\ i \notin moved
    /\ \A i \in staged :
         /\ Ahead("aside", i) => Kept(i) /\ i \notin moved
         /\ ~Ahead("aside", i) => i \in moved
         /\ ~Ahead("aside", i) /\ Ahead("commit", i) => Beside(i)
         /\ ~Ahead("in", i) => Replaced(i)

\* RollbackAll has items to go, or it has gone through all of them.
Undone ==
  Backward =>
    \A i \in Item :
      IF Ahead("back", i)
      THEN Beside(i) /\ (~Ahead("remove", i) => disk[i].of = -1)
      ELSE Kept(i) \/ (Ahead("weigh", "root") /\ botched /\ Beside(i))

Safe ==
  \/ \A i \in Item : before[i] = Absent \/ \E content \in {disk[i], aside[i]} \cup left[i] : IsOriginal(i, content)
  \/ \A i \in staged : Replaced(i)

Ended ==
  /\ plan = {} => Safe
  /\ plan = {} /\ status = "restored" => \A i \in Item : IF i \in staged THEN Replaced(i) ELSE Kept(i)
  /\ plan = {} /\ status \in {"failed", "refused"} => \A i \in Item : Kept(i)
  /\ plan = Once("refused") => \A i \in Item : Kept(i)

Opened(s) == open[s] = disk[s]

Served ==
  /\ process = "up" /\ plan \in {{}, Once("refused")} /\ status # "stuck" => ~shut /\ \A s \in Stores : Opened(s)
  /\ process = "up" /\ plan = {} /\ status = "restored" => brand = disk["branding"]
  /\ process = "up" /\ Forward =>
       /\ Ahead("engage", "root") \/ ~Ahead("disengage", "root") => ~shut
       /\ \A s \in Stores :
            /\ Ahead("pause", s) \/ ~Ahead("reopen", s) => Opened(s)
            /\ ~Ahead("pause", s) /\ Ahead("reopen", s) => open[s] = Absent /\ s \notin wal
       /\ ~Ahead("reload", "root") => brand = disk["branding"]
  /\ process = "up" /\ Backward =>
       /\ ~Ahead("admit", "root") /\ ~Ahead("disengage", "root") => ~shut
       /\ \A s \in Stores : ~Ahead("resync", s) /\ ~botched => Opened(s)
       /\ ~Ahead("judge", "root") => ~botched
  /\ process = "offline" => wal \subseteq unmerged

RestoreInv == RestoreTypeOK /\ InScript /\ Older /\ Swapped /\ Undone /\ Ended /\ Served

-----------------------------------------------------------------------------
(* The order of the steps *)

Doing == DOMAIN StepOrder
Second(do) == IF do \in {"in", "back"} THEN 1 ELSE 0

LEMMA Items ==
  /\ Item = {"root", "branding", "users", "favorites"}
  /\ Turn("root") = 1 /\ Turn("branding") = 2 /\ Turn("users") = 3 /\ Turn("favorites") = 4
<1>1. DOMAIN SwapNames = 1 .. 4 /\ SwapNames[1] = "root" /\ SwapNames[2] = "branding"
        /\ SwapNames[3] = "users" /\ SwapNames[4] = "favorites"
  BY DEF SwapNames
<1>2. Item = {"root", "branding", "users", "favorites"}
  BY <1>1 DEF Item
<1>3. \A k \in 1 .. 4 : \A i : SwapNames[k] = i => Turn(i) \in 1 .. 4 /\ SwapNames[Turn(i)] = i
  BY <1>1 DEF Turn
<1> QED BY <1>1, <1>2, <1>3

LEMMA StepsAre ==
  /\ Doing = {"validate", "engage", "pause", "wal", "aside", "in", "reopen", "reload", "access", "commit",
              "suspend", "remove", "back", "weigh", "admit", "resync", "judge", "disengage", "restored",
              "failed", "refused"}
  /\ StepOrder["validate"] = 1 /\ StepOrder["engage"] = 2 /\ StepOrder["pause"] = 3 /\ StepOrder["wal"] = 4
  /\ StepOrder["aside"] = 5 /\ StepOrder["in"] = 5 /\ StepOrder["reopen"] = 6 /\ StepOrder["reload"] = 7
  /\ StepOrder["access"] = 8 /\ StepOrder["commit"] = 9 /\ StepOrder["suspend"] = 10
  /\ StepOrder["remove"] = 11 /\ StepOrder["back"] = 11 /\ StepOrder["weigh"] = 12
  /\ StepOrder["admit"] = 13 /\ StepOrder["resync"] = 14 /\ StepOrder["judge"] = 15
  /\ StepOrder["disengage"] = 16 /\ StepOrder["restored"] = 17 /\ StepOrder["failed"] = 18
  /\ StepOrder["refused"] = 19
BY DEF Doing, StepOrder

LEMMA OneStep == \A d, e, i, j : On(d, i) = On(e, j) <=> d = e /\ i = j
BY DEF On

LEMMA DueIs ==
  \A do \in Doing, i \in Item :
    /\ Due(On(do, i)) = 10 * StepOrder[do] + 2 * Turn(i) + Second(do)
    /\ On(do, i).do = do /\ On(do, i).item = i
    /\ StepOrder[do] \in 1 .. 19 /\ Turn(i) \in 1 .. 4 /\ Due(On(do, i)) \in Nat
<1>1. \A do \in Doing : StepOrder[do] \in 1 .. 19
  BY StepsAre
<1>2. \A i \in Item : Turn(i) \in 1 .. 4
  BY Items
<1>3. \A do \in Doing, i \in Item : Due(On(do, i)) = 10 * StepOrder[do] + 2 * Turn(i) + Second(do)
  BY DEF Due, On, Second
<1>4. \A do \in Doing, i \in Item : On(do, i).do = do /\ On(do, i).item = i
  BY DEF On
<1>5. \A do \in Doing : Second(do) \in 0 .. 1
  BY DEF Second
<1> QED BY <1>1, <1>2, <1>3, <1>4, <1>5

\* Two steps are never due at once.
LEMMA DueOnce ==
  ASSUME NEW d \in Doing, NEW e \in Doing, NEW i \in Item, NEW j \in Item,
         Due(On(d, i)) = Due(On(e, j))
  PROVE  d = e /\ i = j
<1>1. /\ 10 * StepOrder[d] + 2 * Turn(i) + Second(d) = 10 * StepOrder[e] + 2 * Turn(j) + Second(e)
      /\ StepOrder[d] \in 1 .. 19 /\ Turn(i) \in 1 .. 4 /\ StepOrder[e] \in 1 .. 19 /\ Turn(j) \in 1 .. 4
  BY DueIs
<1>2. Second(d) \in 0 .. 1 /\ Second(e) \in 0 .. 1
  BY DEF Second
<1>3. StepOrder[d] = StepOrder[e] /\ Turn(i) = Turn(j) /\ Second(d) = Second(e)
  BY <1>1, <1>2
<1>4. i = j
  BY <1>3, Items
<1>5. d = e
  BY <1>3, StepsAre DEF Second
<1> QED BY <1>4, <1>5

LEMMA NextStep ==
  ASSUME plan \subseteq Steps, NEW do, IsNext(do)
  PROVE  /\ do \in Doing /\ Of \in Item /\ ThisStep = On(do, Of) /\ Ahead(do, Of)
         /\ \A e \in Doing, j \in Item : Ahead(e, j) => Due(On(do, Of)) <= Due(On(e, j))
<1>1. PICK s \in plan : s.do = do /\ \A r \in plan : Due(s) <= Due(r)
  BY DEF IsNext
<1>2. PICK d \in Doing, i \in Item : s = On(d, i)
  BY <1>1 DEF Steps, Doing
<1>3. d = do
  BY <1>1, <1>2, DueIs
<1>4. ThisStep \in plan /\ \A r \in plan : Due(ThisStep) <= Due(r)
  BY <1>1 DEF ThisStep
<1>5. PICK e \in Doing, j \in Item : ThisStep = On(e, j)
  BY <1>4 DEF Steps, Doing
<1>6. Due(On(d, i)) = Due(On(e, j))
  <2>1. Due(On(d, i)) <= Due(On(e, j)) /\ Due(On(e, j)) <= Due(On(d, i))
    BY <1>1, <1>2, <1>4, <1>5
  <2>2. Due(On(d, i)) \in Nat /\ Due(On(e, j)) \in Nat
    BY DueIs
  <2> QED BY <2>1, <2>2
<1>7. d = e /\ i = j
  BY <1>6, DueOnce
<1>8. Of = i
  BY <1>5, <1>7, DueIs DEF Of
<1> QED BY <1>2, <1>3, <1>4, <1>5, <1>7, <1>8 DEF Ahead

\* What is ahead of a list when one of its steps is next
LEMMA SuffixFrom ==
  ASSUME plan \subseteq Steps, NEW do, IsNext(do), NEW L \in SUBSET Steps, Suffix(plan, L)
  PROVE  /\ On(do, Of) \in L
         /\ \A e \in Doing, j \in Item :
              Ahead(e, j) <=> On(e, j) \in L /\ Due(On(do, Of)) <= Due(On(e, j))
BY NextStep DEF Suffix, Ahead

\* Taking the next step leaves the others.
LEMMA SuffixTaken ==
  ASSUME plan \subseteq Steps, NEW do, IsNext(do), Takes
  PROVE  /\ plan' \subseteq Steps
         /\ \A L \in SUBSET Steps : Suffix(plan, L) => Suffix(plan', L)
         /\ \A e, j : On(e, j) \in plan' <=> On(e, j) \in plan /\ ~(e = do /\ j = Of)
<1>1. do \in Doing /\ Of \in Item /\ ThisStep = On(do, Of) /\ ThisStep \in plan /\ \A r \in plan : Due(ThisStep) <= Due(r)
  <2>1. \A r \in plan : \E e \in Doing, j \in Item : r = On(e, j)
    BY DEF Steps, Doing
  <2> QED BY <2>1, NextStep DEF Ahead
<1>2. plan' = plan \ {ThisStep}
  BY DEF Takes
<1>3. \A e, j : On(e, j) \in plan' <=> On(e, j) \in plan /\ ~(e = do /\ j = Of)
  BY <1>1, <1>2, OneStep
<1>4. ASSUME NEW L \in SUBSET Steps, Suffix(plan, L)
      PROVE  Suffix(plan', L)
  <2>1. ASSUME NEW s \in plan', NEW r \in L, Due(s) <= Due(r)
        PROVE  r \in plan'
    <3>1. r \in plan /\ s \in plan /\ s # ThisStep
      BY <1>2, <1>4, <2>1 DEF Suffix
    <3>2. CASE r = ThisStep
      <4>1. PICK e \in Doing, j \in Item : s = On(e, j)
        BY <3>1 DEF Steps, Doing
      <4>2. Due(On(do, Of)) <= Due(On(e, j)) /\ Due(On(e, j)) <= Due(On(do, Of))
        BY <1>1, <2>1, <3>1, <3>2, <4>1
      <4>3. Due(On(do, Of)) \in Nat /\ Due(On(e, j)) \in Nat
        BY <1>1, DueIs
      <4>4. do = e /\ Of = j
        BY <1>1, <4>2, <4>3, DueOnce
      <4> QED BY <1>1, <3>1, <4>1, <4>4
    <3> QED BY <1>2, <3>1, <3>2
  <2> QED BY <1>2, <1>4, <2>1 DEF Suffix
<1> QED BY <1>2, <1>3, <1>4

-----------------------------------------------------------------------------
(* What each script has *)

LEMMA InAll == \A do, set, e, j : On(e, j) \in All(do, set) <=> e = do /\ j \in set
BY OneStep DEF All

LEMMA AllSteps == \A do \in Doing, set \in SUBSET Item : All(do, set) \subseteq Steps
BY DEF All, Steps, Doing

LEMMA InOnce == \A do, e, j : On(e, j) \in Once(do) <=> e = do /\ j = "root"
BY InAll DEF Once

LEMMA StoreItems == Stores \subseteq Item /\ "root" \in Item /\ "branding" \in Item \ Stores /\ "root" \notin Stores
BY Items DEF Stores

InLive(e, j, set) ==
  \/ e \in {"validate", "engage", "reload", "access", "disengage", "restored"} /\ j = "root"
  \/ e \in {"pause", "reopen"} /\ j \in Stores
  \/ e = "wal" /\ j \in set \cap Stores
  \/ e \in {"aside", "in", "commit"} /\ j \in set

LEMMA LiveHas ==
  ASSUME NEW set \in SUBSET Item
  PROVE  Live(set) \subseteq Steps /\ \A e, j : On(e, j) \in Live(set) <=> InLive(e, j, set)
<1>1. Live(set) \subseteq Steps
  BY AllSteps, StepsAre, StoreItems DEF Live, Once, Swaps, Commits
<1>2. ASSUME NEW e, NEW j
      PROVE  On(e, j) \in Live(set) <=> InLive(e, j, set)
  BY InAll, InOnce DEF Live, Swaps, Commits, InLive
<1> QED BY <1>1, <1>2

InOffline(e, j, set) ==
  \/ e \in {"validate", "restored"} /\ j = "root"
  \/ e = "wal" /\ j \in set \cap Stores
  \/ e \in {"aside", "in", "commit"} /\ j \in set

LEMMA OfflineHas ==
  ASSUME NEW set \in SUBSET Item
  PROVE  Offline(set) \subseteq Steps /\ \A e, j : On(e, j) \in Offline(set) <=> InOffline(e, j, set)
<1>1. Offline(set) \subseteq Steps
  BY AllSteps, StepsAre, StoreItems DEF Offline, Once, Swaps, Commits
<1>2. ASSUME NEW e, NEW j
      PROVE  On(e, j) \in Offline(set) <=> InOffline(e, j, set)
  BY InAll, InOnce DEF Offline, Swaps, Commits, InOffline
<1> QED BY <1>1, <1>2

InReopened(e, j) ==
  (e \in {"judge", "failed"} /\ j = "root") \/ (e = "resync" /\ j \in Stores)

LEMMA ReopenedHas == \A e, j : On(e, j) \in Reopened <=> InReopened(e, j)
<1> SUFFICES ASSUME NEW e, NEW j  PROVE On(e, j) \in Reopened <=> InReopened(e, j)
  OBVIOUS
<1>1. On(e, j) \in All("resync", Stores) <=> e = "resync" /\ j \in Stores
  BY InAll
<1>2. On(e, j) \in Once("judge") <=> e = "judge" /\ j = "root"
  BY InOnce
<1>3. On(e, j) \in Once("failed") <=> e = "failed" /\ j = "root"
  BY InOnce
<1> QED BY <1>1, <1>2, <1>3 DEF Reopened, InReopened

LEMMA RecoveryHas ==
  /\ Recovery \subseteq Steps
  /\ \A e, j : On(e, j) \in Recovery <=> (e = "admit" /\ j = "root") \/ InReopened(e, j)
<1>1. Recovery \subseteq Steps
  BY AllSteps, StepsAre, StoreItems DEF Recovery, Reopened, Once
<1>2. ASSUME NEW e, NEW j
      PROVE  On(e, j) \in Recovery <=> (e = "admit" /\ j = "root") \/ InReopened(e, j)
  BY InOnce, ReopenedHas DEF Recovery
<1> QED BY <1>1, <1>2

InUndos(e, j, set) ==
  (e = "weigh" /\ j = "root") \/ (e \in {"remove", "back"} /\ j \in set)

InRollback(e, j, set) ==
  \/ InUndos(e, j, set)
  \/ e = "failed" /\ j = "root"
  \/ process # "offline" /\ (InReopened(e, j) \/ (e = "disengage" /\ j = "root") \/ (e = "suspend" /\ j \in Stores))

LEMMA RollbackHas ==
  ASSUME NEW set \in SUBSET Item
  PROVE  Rollback(set) \subseteq Steps /\ \A e, j : On(e, j) \in Rollback(set) <=> InRollback(e, j, set)
<1>1. Rollback(set) \subseteq Steps
  BY AllSteps, StepsAre, StoreItems DEF Rollback, Reopened, Undos, Once
<1>2. ASSUME NEW e, NEW j
      PROVE  On(e, j) \in Rollback(set) <=> InRollback(e, j, set)
  <2>1. On(e, j) \in Undos(set) \cup Once("weigh") <=> InUndos(e, j, set)
    BY InAll, InOnce DEF Undos, InUndos
  <2>2. On(e, j) \in All("suspend", Stores) \cup Once("disengage")
          <=> (e = "disengage" /\ j = "root") \/ (e = "suspend" /\ j \in Stores)
    BY InAll, InOnce
  <2>3. On(e, j) \in Once("failed") <=> e = "failed" /\ j = "root"
    BY InOnce
  <2>4. InReopened(e, j) <=> On(e, j) \in Reopened
    BY ReopenedHas
  <2>5. On(e, j) \in Rollback(set) <=>
          \/ On(e, j) \in Undos(set) \cup Once("weigh") \/ On(e, j) \in Once("failed")
          \/ process # "offline" /\ (On(e, j) \in Reopened \/ On(e, j) \in All("suspend", Stores) \cup Once("disengage"))
    BY <2>3, <2>4 DEF Rollback, InReopened
  <2> QED BY <2>1, <2>2, <2>3, <2>4, <2>5 DEF InRollback
<1> QED BY <1>1, <1>2

\* Steps of a later stage are due later.
LEMMA Stages ==
  \A d, e \in Doing, i, j \in Item :
    /\ StepOrder[d] < StepOrder[e] => Due(On(d, i)) < Due(On(e, j))
    /\ Due(On(d, i)) \in Nat
BY DueIs DEF Second

\* The script that is run, by what is next
LEMMA Running ==
  ASSUME RestoreTypeOK, InScript, NEW do, IsNext(do)
  PROVE  \/ /\ process = "up" /\ Suffix(plan, Live(staged)) /\ Forward /\ ~Backward
            /\ InLive(do, Of, staged)
            /\ \A e \in Doing, j \in Item : Ahead(e, j) <=> InLive(e, j, staged) /\ Due(On(do, Of)) <= Due(On(e, j))
         \/ /\ process = "offline" /\ Suffix(plan, Offline(staged)) /\ Forward /\ ~Backward
            /\ InOffline(do, Of, staged)
            /\ \A e \in Doing, j \in Item : Ahead(e, j) <=> InOffline(e, j, staged) /\ Due(On(do, Of)) <= Due(On(e, j))
         \/ /\ process = "up" /\ Suffix(plan, Recovery) /\ ~Forward /\ Backward
            /\ (do = "admit" /\ Of = "root") \/ InReopened(do, Of)
            /\ \A e \in Doing, j \in Item :
                 Ahead(e, j) <=> ((e = "admit" /\ j = "root") \/ InReopened(e, j)) /\ Due(On(do, Of)) <= Due(On(e, j))
         \/ /\ process # "down" /\ Suffix(plan, Rollback(moved)) /\ ~Forward /\ Backward
            /\ InRollback(do, Of, moved)
            /\ \A e \in Doing, j \in Item : Ahead(e, j) <=> InRollback(e, j, moved) /\ Due(On(do, Of)) <= Due(On(e, j))
         \/ plan = Once("refused") /\ do = "refused" /\ Of = "root" /\ ~Forward /\ ~Backward
<1>1. plan \subseteq Steps /\ staged \subseteq Item /\ moved \subseteq Item
  BY DEF RestoreTypeOK
<1>2. plan # {} /\ process # "down"
  BY DEF IsNext, InScript
<1>3. CASE plan = Once("refused")
  <2>1. do = "refused" /\ Of = "root"
    BY <1>1, <1>3, NextStep, InOnce DEF Ahead
  <2> QED BY <1>3, <2>1, InOnce DEF Forward, Backward, Ahead
<1>4. CASE process = "up" /\ Suffix(plan, Live(staged)) /\ Forward
  <2>1. ~Backward
    BY <1>1, <1>4, LiveHas DEF Suffix, Backward, Ahead, InLive
  <2> QED BY <1>1, <1>4, <2>1, LiveHas, SuffixFrom
<1>5. CASE process = "offline" /\ Suffix(plan, Offline(staged)) /\ Forward
  <2>1. ~Backward
    BY <1>1, <1>5, OfflineHas DEF Suffix, Backward, Ahead, InOffline
  <2> QED BY <1>1, <1>5, <2>1, OfflineHas, SuffixFrom
<1>6. CASE process = "up" /\ Suffix(plan, Recovery) /\ Backward
  <2>1. ~Forward
    BY <1>6, RecoveryHas DEF Suffix, Forward, Ahead, InReopened
  <2> QED BY <1>1, <1>6, <2>1, RecoveryHas, SuffixFrom
<1>7. CASE Suffix(plan, Rollback(moved)) /\ Backward
  <2>1. ~Forward
    BY <1>1, <1>7, RollbackHas DEF Suffix, Forward, Ahead, InRollback, InReopened, InUndos
  <2> QED BY <1>1, <1>2, <1>7, <2>1, RollbackHas, SuffixFrom
<1> QED BY <1>2, <1>3, <1>4, <1>5, <1>6, <1>7 DEF InScript

\* A step that is taken, and is not the last of its script
LEMMA Taken ==
  ASSUME RestoreTypeOK, InScript, NEW do, IsNext(do), Takes, do \notin {"restored", "failed", "refused"},
         UNCHANGED <<staged, process, status>>, Backward => moved' = moved
  PROVE  /\ InScript' /\ plan' \subseteq Steps /\ plan' \notin {{}, Once("refused")}
         /\ Forward' = Forward /\ Backward' = Backward
         /\ \A e, j : Ahead(e, j)' <=> Ahead(e, j) /\ ~(e = do /\ j = Of)
<1>1. plan \subseteq Steps /\ staged \subseteq Item /\ moved \subseteq Item
  BY DEF RestoreTypeOK
<1>2. /\ plan' \subseteq Steps
      /\ \A L \in SUBSET Steps : Suffix(plan, L) => Suffix(plan', L)
      /\ \A e, j : Ahead(e, j)' <=> Ahead(e, j) /\ ~(e = do /\ j = Of)
  BY <1>1, SuffixTaken DEF Ahead
<1>3. (Forward' <=> Forward) /\ (Backward' <=> Backward)
  BY <1>2 DEF Forward, Backward
<1>4. plan # {} /\ plan # Once("refused") /\ (Forward \/ Backward) /\ status' = "running" /\ process' # "down"
  <2>1. plan # {}
    BY DEF IsNext
  <2>2. Forward \/ Backward
    BY Running
  <2>3. plan # Once("refused")
    BY <2>2, InOnce DEF Forward, Backward, Ahead
  <2> QED BY <2>1, <2>2, <2>3 DEF InScript
<1>5. plan' # {} /\ plan' # Once("refused")
  BY <1>3, <1>4, InOnce DEF Forward, Backward, Ahead
<1>6. InScript'
  <2>6. CASE process = "up" /\ Suffix(plan, Live(staged)) /\ Forward
    <3>1. Suffix(plan', Live(staged))
      BY <1>1, <1>2, <2>6, LiveHas
    <3>2. Suffix(plan, Live(staged))'
      BY <3>1 DEF Live
    <3> QED BY <1>3, <1>4, <1>5, <2>6, <3>2 DEF InScript
  <2>7. CASE process = "offline" /\ Suffix(plan, Offline(staged)) /\ Forward
    <3>1. Suffix(plan', Offline(staged))
      BY <1>1, <1>2, <2>7, OfflineHas
    <3>2. Suffix(plan, Offline(staged))'
      BY <3>1 DEF Offline
    <3> QED BY <1>3, <1>4, <1>5, <2>7, <3>2 DEF InScript
  <2>8. CASE process = "up" /\ Suffix(plan, Recovery) /\ Backward
    <3>1. Suffix(plan, Recovery)'
      BY <1>2, <2>8, RecoveryHas
    <3> QED BY <1>3, <1>4, <1>5, <2>8, <3>1 DEF InScript
  <2>9. CASE Suffix(plan, Rollback(moved)) /\ Backward
    <3>1. Suffix(plan', Rollback(moved))
      BY <1>1, <1>2, <2>9, RollbackHas
    <3>2. Suffix(plan, Rollback(moved))'
      BY <2>9, <3>1 DEF Rollback
    <3> QED BY <1>3, <1>4, <1>5, <2>9, <3>2 DEF InScript
  <2> QED BY <1>4, <1>5, <2>6, <2>7, <2>8, <2>9 DEF InScript
<1>7. Forward' = Forward /\ Backward' = Backward
  BY <1>3 DEF Forward, Backward, Ahead
<1> QED BY <1>2, <1>5, <1>7, <1>6

-----------------------------------------------------------------------------
(* Steps that change no item *)

ItemsStay == UNCHANGED <<disk, aside, before, unmerged, staged, restores, left, moved>>

LEMMA StayAsTheyAre ==
  ASSUME ItemsStay
  PROVE  /\ \A i : Kept(i)' = Kept(i) /\ Beside(i)' = Beside(i) /\ Replaced(i)' = Replaced(i)
         /\ Safe' = Safe /\ Older' = Older
BY DEF ItemsStay, Kept, Beside, Replaced, IsOriginal, Safe, Older

LEMMA ItemsTaken ==
  ASSUME RestoreInv, NEW do, IsNext(do), Takes, ItemsStay, UNCHANGED <<process, status>>,
         do \notin {"aside", "in", "remove", "back", "restored", "failed", "refused"},
         botched => botched', do = "weigh" => ~botched
  PROVE  InScript' /\ Older' /\ Swapped' /\ Undone' /\ Ended'
<1>1. /\ RestoreTypeOK /\ InScript /\ Older /\ Swapped /\ Undone /\ Ended
      /\ UNCHANGED <<staged, moved, process, status>>
  BY DEF RestoreInv, ItemsStay
<1>2. /\ InScript' /\ plan' \subseteq Steps /\ plan' \notin {{}, Once("refused")}
      /\ Forward' = Forward /\ Backward' = Backward
      /\ \A e, j : Ahead(e, j)' <=> Ahead(e, j) /\ ~(e = do /\ j = Of)
  BY <1>1, Taken
<1>3. /\ \A i : Kept(i)' = Kept(i) /\ Beside(i)' = Beside(i) /\ Replaced(i)' = Replaced(i)
      /\ Older'
  BY <1>1, StayAsTheyAre
<1>4. Swapped'
  BY <1>1, <1>2, <1>3 DEF Swapped
<1>5. Undone'
  BY <1>1, <1>2, <1>3 DEF Undone, ItemsStay
<1>6. Ended'
  BY <1>2 DEF Ended
<1> QED BY <1>2, <1>3, <1>4, <1>5, <1>6

LEMMA KeepsTypes ==
  ASSUME RestoreTypeOK, plan' \subseteq Steps, UNCHANGED <<disk, aside, before, left, unmerged, staged, moved, restores>>,
         open' \in [Stores -> Content], brand' \in Content, wal' \subseteq Stores,
         process' \in {"up", "down", "offline"}, status' \in Statuses, {botched', shut', late'} \subseteq BOOLEAN, troubles' \in Nat
  PROVE  RestoreTypeOK'
BY DEF RestoreTypeOK

LEMMA AbsentIsContent == Absent \in Content /\ Empty \in Content /\ Absent.of = -1 /\ Absent.writes = -1 /\ Empty.of = -1 /\ Empty # Absent
BY DEF Absent, Empty, Content

\* What is next in an operation of the server that runs
LEMMA ValidateKeeps ==
  ASSUME RestoreInv, Validate, Takes
  PROVE  RestoreInv'
<1>1. IsNext("validate") /\ ItemsStay /\ UNCHANGED <<process, status, botched, open, brand, wal, shut, unmerged, late, troubles>>
  BY DEF Validate, ItemsStay
<1>2. InScript' /\ Older' /\ Swapped' /\ Undone' /\ Ended'
  BY <1>1, ItemsTaken
<1>3. /\ plan' \subseteq Steps /\ Forward' = Forward /\ Backward' = Backward /\ plan' \notin {{}, Once("refused")}
      /\ \A e, j : Ahead(e, j)' <=> Ahead(e, j) /\ ~(e = "validate" /\ j = Of)
  BY <1>1, Taken DEF RestoreInv, ItemsStay
<1>4. RestoreTypeOK'
  BY <1>1, <1>3, KeepsTypes DEF RestoreInv, RestoreTypeOK, ItemsStay
<1>5. Served'
  BY <1>1, <1>3 DEF RestoreInv, Served, Opened, ItemsStay
<1> QED BY <1>2, <1>4, <1>5 DEF RestoreInv

\* A step on the way to a restore, and what comes before and after it
LEMMA OnTheWay ==
  ASSUME RestoreInv, NEW do, IsNext(do),
         do \in {"validate", "engage", "pause", "wal", "aside", "in", "reopen", "reload", "access", "commit",
                 "restored"}
  PROVE  /\ Forward /\ ~Backward /\ plan \notin {{}, Once("refused")} /\ process \in {"up", "offline"}
         /\ do \in Doing /\ Of \in Item
         /\ process = "up" => InLive(do, Of, staged)
         /\ process = "offline" => InOffline(do, Of, staged)
         /\ \A e \in Doing, j \in Item :
              /\ StepOrder[e] < StepOrder[do] => ~Ahead(e, j)
              /\ StepOrder[do] < StepOrder[e] =>
                   (Ahead(e, j) <=> IF process = "up" THEN InLive(e, j, staged) ELSE InOffline(e, j, staged))
<1>1. do \in Doing /\ Of \in Item /\ RestoreTypeOK /\ InScript
  BY NextStep DEF RestoreInv, RestoreTypeOK
<1>2. do # "admit" /\ do # "refused" /\ ~InReopened(do, Of) /\ ~InRollback(do, Of, moved)
  BY DEF InReopened, InRollback, InUndos
<1>3. \/ /\ process = "up" /\ Forward /\ ~Backward /\ InLive(do, Of, staged)
         /\ \A e \in Doing, j \in Item : Ahead(e, j) <=> InLive(e, j, staged) /\ Due(On(do, Of)) <= Due(On(e, j))
      \/ /\ process = "offline" /\ Forward /\ ~Backward /\ InOffline(do, Of, staged)
         /\ \A e \in Doing, j \in Item : Ahead(e, j) <=> InOffline(e, j, staged) /\ Due(On(do, Of)) <= Due(On(e, j))
  BY <1>1, <1>2, Running
<1>4. plan # {} /\ plan # Once("refused")
  BY <1>3, InOnce DEF Forward, Ahead, IsNext
<1>5. \A e \in Doing, j \in Item :
        /\ StepOrder[e] < StepOrder[do] => ~(Due(On(do, Of)) <= Due(On(e, j)))
        /\ StepOrder[do] < StepOrder[e] => Due(On(do, Of)) <= Due(On(e, j))
  BY <1>1, Stages
<1> QED BY <1>1, <1>3, <1>4, <1>5

\* A step of RollbackAll
LEMMA OnTheWayBack ==
  ASSUME RestoreInv, NEW do, IsNext(do), do \in {"suspend", "remove", "back", "weigh"}
  PROVE  /\ Backward /\ ~Forward /\ plan \notin {{}, Once("refused")} /\ process \in {"up", "offline"}
         /\ do \in Doing /\ Of \in Item /\ InRollback(do, Of, moved)
         /\ \A e \in Doing, j \in Item :
              /\ StepOrder[e] < StepOrder[do] => ~Ahead(e, j)
              /\ StepOrder[do] < StepOrder[e] => (Ahead(e, j) <=> InRollback(e, j, moved))
<1>1. do \in Doing /\ Of \in Item /\ RestoreTypeOK /\ InScript
  BY NextStep DEF RestoreInv, RestoreTypeOK
<1>2. ~InLive(do, Of, staged) /\ ~InOffline(do, Of, staged) /\ do # "admit" /\ do # "refused" /\ ~InReopened(do, Of)
  BY DEF InReopened, InLive, InOffline
<1>3. /\ process # "down" /\ ~Forward /\ Backward /\ InRollback(do, Of, moved)
      /\ \A e \in Doing, j \in Item : Ahead(e, j) <=> InRollback(e, j, moved) /\ Due(On(do, Of)) <= Due(On(e, j))
  BY <1>1, <1>2, Running
<1>4. plan # {} /\ plan # Once("refused")
  BY <1>3, InOnce DEF Backward, Ahead, IsNext
<1>5. \A e \in Doing, j \in Item :
        /\ StepOrder[e] < StepOrder[do] => ~(Due(On(do, Of)) <= Due(On(e, j)))
        /\ StepOrder[do] < StepOrder[e] => Due(On(do, Of)) <= Due(On(e, j))
  BY <1>1, Stages
<1>6. process \in {"up", "offline"}
  BY <1>1, <1>3 DEF RestoreTypeOK
<1> QED BY <1>1, <1>3, <1>4, <1>5, <1>6

\* A step that opens the stores again
LEMMA OnReturn ==
  ASSUME RestoreInv, NEW do, IsNext(do), do \in {"admit", "resync", "judge"}
  PROVE  /\ Backward /\ ~Forward /\ plan \notin {{}, Once("refused")} /\ process = "up"
         /\ do \in Doing /\ Of \in Item
         /\ (do = "admit" /\ Of = "root") \/ InReopened(do, Of)
         /\ \A e \in Doing, j \in Item :
              /\ StepOrder[e] < StepOrder[do] => ~Ahead(e, j)
              /\ StepOrder[do] < StepOrder[e] /\ InReopened(e, j) => Ahead(e, j)
<1>1. do \in Doing /\ Of \in Item /\ RestoreTypeOK /\ InScript
  BY NextStep DEF RestoreInv, RestoreTypeOK
<1>2. ~InLive(do, Of, staged) /\ ~InOffline(do, Of, staged) /\ do # "refused"
  BY DEF InLive, InOffline
<1>3. InRollback(do, Of, moved) => InReopened(do, Of) /\ process # "offline"
  BY DEF InRollback, InUndos
<1>4. \A e, j : InReopened(e, j) /\ process # "offline" => InRollback(e, j, moved)
  BY DEF InRollback
<1>5. /\ process = "up" /\ ~Forward /\ Backward /\ ((do = "admit" /\ Of = "root") \/ InReopened(do, Of))
      /\ \A e \in Doing, j \in Item :
           /\ Ahead(e, j) => Due(On(do, Of)) <= Due(On(e, j))
           /\ InReopened(e, j) /\ Due(On(do, Of)) <= Due(On(e, j)) => Ahead(e, j)
  <2>1. process \in {"up", "down", "offline"}
    BY <1>1 DEF RestoreTypeOK
  <2> QED BY <1>1, <1>2, <1>3, <1>4, <2>1, Running
<1>6. plan # {} /\ plan # Once("refused")
  BY <1>5, InOnce DEF Backward, Ahead, IsNext
<1>7. \A e \in Doing, j \in Item :
        /\ StepOrder[e] < StepOrder[do] => ~(Due(On(do, Of)) <= Due(On(e, j)))
        /\ StepOrder[do] < StepOrder[e] => Due(On(do, Of)) <= Due(On(e, j))
  BY <1>1, Stages
<1> QED BY <1>1, <1>5, <1>6, <1>7

LEMMA EngageKeeps ==
  ASSUME RestoreInv, EngageGate
  PROVE  RestoreInv'
<1>1. /\ IsNext("engage") /\ Takes /\ ItemsStay /\ shut' = TRUE /\ late' \in BOOLEAN
      /\ UNCHANGED <<process, status, botched, open, brand, wal, troubles>>
  BY DEF EngageGate, ItemsStay
<1>2. InScript' /\ Older' /\ Swapped' /\ Undone' /\ Ended'
  BY <1>1, ItemsTaken
<1>3. /\ plan' \subseteq Steps /\ Forward' = Forward /\ Backward' = Backward /\ plan' \notin {{}, Once("refused")}
      /\ \A e, j : Ahead(e, j)' <=> Ahead(e, j) /\ ~(e = "engage" /\ j = Of)
  BY <1>1, Taken DEF RestoreInv, ItemsStay
<1>4. RestoreTypeOK'
  BY <1>1, <1>3, KeepsTypes DEF RestoreInv, RestoreTypeOK, ItemsStay
<1>5. /\ Forward /\ ~Backward /\ process = "up" /\ Of = "root"
      /\ Ahead("disengage", "root")
  <2>1. Forward /\ ~Backward /\ process = "up" /\ Of = "root"
    BY <1>1, OnTheWay DEF InLive, InOffline
  <2>2. InLive("disengage", "root", staged) /\ StepOrder["engage"] < StepOrder["disengage"] /\ "disengage" \in Doing
    BY StepsAre DEF InLive
  <2> QED BY <1>1, <2>1, <2>2, OnTheWay, StoreItems
<1>6. Served'
  BY <1>1, <1>3, <1>5 DEF RestoreInv, Served, Opened, ItemsStay
<1> QED BY <1>2, <1>4, <1>6 DEF RestoreInv

LEMMA SuspendKeeps ==
  ASSUME RestoreInv, SuspendStore
  PROVE  RestoreInv'
<1>1. PICK do \in {"pause", "suspend"} : IsNext(do)
  BY DEF SuspendStore
<1>2. /\ Takes /\ ItemsStay /\ open' = [open EXCEPT ![Of] = Absent] /\ wal' = wal \ {Of}
      /\ UNCHANGED <<process, status, botched, shut, brand, late, troubles>>
  BY DEF SuspendStore, Inside, ItemsStay
<1>3. InScript' /\ Older' /\ Swapped' /\ Undone' /\ Ended'
  BY <1>1, <1>2, ItemsTaken
<1>4. /\ plan' \subseteq Steps /\ Forward' = Forward /\ Backward' = Backward /\ plan' \notin {{}, Once("refused")}
      /\ \A e, j : Ahead(e, j)' <=> Ahead(e, j) /\ ~(e = do /\ j = Of)
  BY <1>1, <1>2, Taken DEF RestoreInv, ItemsStay
<1>5. open' \in [Stores -> Content] /\ wal' \subseteq Stores
  BY <1>2, AbsentIsContent DEF RestoreInv, RestoreTypeOK
<1>6. RestoreTypeOK'
  BY <1>2, <1>4, <1>5, KeepsTypes DEF RestoreInv, RestoreTypeOK, ItemsStay
<1>7. \A s \in Stores : open'[s] = IF s = Of THEN Absent ELSE open[s]
  BY <1>2 DEF RestoreInv, RestoreTypeOK
<1>8. Served'
  <2>1. CASE do = "pause"
    <3>1. Forward /\ ~Backward /\ process = "up" /\ Of \in Stores
      BY <1>1, <2>1, OnTheWay DEF InLive, InOffline
    <3>2. \A s \in Stores : InLive("reopen", s, staged) /\ s \in Item
      BY StoreItems DEF InLive
    <3>3. \A s \in Stores : Ahead("reopen", s)
      BY <1>1, <2>1, <3>1, <3>2, OnTheWay, StepsAre
    <3> QED BY <1>2, <1>4, <1>7, <2>1, <3>1, <3>3 DEF RestoreInv, Served, Opened, ItemsStay
  <2>2. CASE do = "suspend"
    <3>1. Backward /\ ~Forward /\ process = "up" /\ Of \in Stores
      BY <1>1, <2>2, OnTheWayBack DEF InRollback, InUndos, InReopened
    <3>2. \A s \in Stores : InRollback("resync", s, moved) /\ s \in Item
      BY <3>1, StoreItems DEF InRollback, InReopened
    <3>3. \A s \in Stores : Ahead("resync", s)
      BY <1>1, <2>2, <3>1, <3>2, OnTheWayBack, StepsAre
    <3> QED BY <1>2, <1>4, <1>7, <2>2, <3>1, <3>3 DEF RestoreInv, Served, Opened, ItemsStay
  <2> QED BY <1>1, <2>1, <2>2
<1> QED BY <1>3, <1>6, <1>8 DEF RestoreInv

LEMMA ReplaceKeeps ==
  ASSUME RestoreInv, ReplaceStore
  PROVE  RestoreInv'
<1>1. PICK do \in {"reopen", "resync"} : IsNext(do)
  BY DEF ReplaceStore
<1>2. /\ Takes /\ ItemsStay /\ open' = [open EXCEPT ![Of] = disk[Of]]
      /\ UNCHANGED <<process, status, botched, shut, brand, wal, late, troubles>>
  BY DEF ReplaceStore, InMemory, Inside, ItemsStay
<1>3. InScript' /\ Older' /\ Swapped' /\ Undone' /\ Ended'
  BY <1>1, <1>2, ItemsTaken
<1>4. /\ plan' \subseteq Steps /\ Forward' = Forward /\ Backward' = Backward /\ plan' \notin {{}, Once("refused")}
      /\ \A e, j : Ahead(e, j)' <=> Ahead(e, j) /\ ~(e = do /\ j = Of)
  BY <1>1, <1>2, Taken DEF RestoreInv, ItemsStay
<1>5. Of \in Item
  BY <1>1, NextStep DEF RestoreInv, RestoreTypeOK
<1>6. open' \in [Stores -> Content]
  BY <1>2, <1>5 DEF RestoreInv, RestoreTypeOK
<1>7. RestoreTypeOK'
  BY <1>2, <1>4, <1>6, KeepsTypes DEF RestoreInv, RestoreTypeOK, ItemsStay
<1>8. \A s \in Stores : open'[s] = IF s = Of THEN disk[s] ELSE open[s]
  BY <1>2 DEF RestoreInv, RestoreTypeOK
<1>9. Served'
  <2>1. CASE do = "reopen"
    <3>1. Forward /\ ~Backward /\ process = "up"
      BY <1>1, <2>1, OnTheWay DEF InOffline
    <3> QED BY <1>2, <1>4, <1>8, <2>1, <3>1 DEF RestoreInv, Served, Opened, ItemsStay
  <2>2. CASE do = "resync"
    <3>1. Backward /\ ~Forward /\ process = "up"
      BY <1>1, <2>2, OnReturn
    <3> QED BY <1>2, <1>4, <1>8, <2>2, <3>1 DEF RestoreInv, Served, Opened, ItemsStay
  <2> QED BY <1>1, <2>1, <2>2
<1> QED BY <1>3, <1>7, <1>9 DEF RestoreInv

LEMMA ReloadKeeps ==
  ASSUME RestoreInv, ReloadBranding \/ ReloadPublicAccess
  PROVE  RestoreInv'
<1>1. PICK do \in {"reload", "access"} : IsNext(do) /\ brand' = IF do = "reload" THEN disk["branding"] ELSE brand
  BY DEF ReloadBranding, ReloadPublicAccess
<1>2. /\ Takes /\ ItemsStay
      /\ UNCHANGED <<process, status, botched, shut, open, wal, late, troubles>>
  BY DEF ReloadBranding, ReloadPublicAccess, InMemory, Inside, ItemsStay
<1>3. InScript' /\ Older' /\ Swapped' /\ Undone' /\ Ended'
  BY <1>1, <1>2, ItemsTaken
<1>4. /\ plan' \subseteq Steps /\ Forward' = Forward /\ Backward' = Backward /\ plan' \notin {{}, Once("refused")}
      /\ \A e, j : Ahead(e, j)' <=> Ahead(e, j) /\ ~(e = do /\ j = Of)
  BY <1>1, <1>2, Taken DEF RestoreInv, ItemsStay
<1>5. brand' \in Content
  BY <1>1, StoreItems DEF RestoreInv, RestoreTypeOK
<1>6. RestoreTypeOK'
  BY <1>2, <1>4, <1>5, KeepsTypes DEF RestoreInv, RestoreTypeOK, ItemsStay
<1>7. Forward /\ ~Backward
  BY <1>1, OnTheWay
<1>8. Served'
  BY <1>1, <1>2, <1>4, <1>7 DEF RestoreInv, Served, Opened, ItemsStay
<1> QED BY <1>3, <1>6, <1>8 DEF RestoreInv

LEMMA DisengageKeeps ==
  ASSUME RestoreInv, DisengageGate
  PROVE  RestoreInv'
<1>1. PICK do \in {"admit", "disengage"} : IsNext(do)
  BY DEF DisengageGate
<1>2. /\ Takes /\ ItemsStay /\ shut' = FALSE
      /\ UNCHANGED <<process, status, botched, brand, open, wal, late, troubles>>
  BY DEF DisengageGate, InMemory, Inside, ItemsStay
<1>3. InScript' /\ Older' /\ Swapped' /\ Undone' /\ Ended'
  BY <1>1, <1>2, ItemsTaken
<1>4. /\ plan' \subseteq Steps /\ Forward' = Forward /\ Backward' = Backward /\ plan' \notin {{}, Once("refused")}
      /\ \A e, j : Ahead(e, j)' <=> Ahead(e, j) /\ ~(e = do /\ j = Of)
  BY <1>1, <1>2, Taken DEF RestoreInv, ItemsStay
<1>5. RestoreTypeOK'
  BY <1>2, <1>4, KeepsTypes DEF RestoreInv, RestoreTypeOK, ItemsStay
<1>6. Served'
  BY <1>1, <1>2, <1>4 DEF RestoreInv, Served, Opened, ItemsStay
<1> QED BY <1>3, <1>5, <1>6 DEF RestoreInv

\* Whatever is next, every original is somewhere, or all that replaces it is in place.
LEMMA AlwaysSafe == RestoreInv => Safe
<1> SUFFICES ASSUME RestoreInv  PROVE Safe
  OBVIOUS
<1>1. ASSUME NEW i \in Item, Kept(i) \/ Beside(i)
      PROVE  before[i] = Absent \/ \E content \in {disk[i], aside[i]} \cup left[i] : IsOriginal(i, content)
  BY <1>1 DEF Kept, Beside
<1>2. CASE plan = {}
  BY <1>2 DEF RestoreInv, Ended
<1>3. CASE plan = Once("refused")
  BY <1>1, <1>3 DEF RestoreInv, Ended, Safe
<1>4. CASE Backward
  <2>1. \A i \in Item : Kept(i) \/ Beside(i)
    BY <1>4 DEF RestoreInv, Undone
  <2> QED BY <1>1, <2>1 DEF Safe
<1>5. CASE Forward
  <2>1. CASE \A i \in staged : ~Ahead("in", i)
    BY <1>5, <2>1 DEF RestoreInv, Swapped, Safe
  <2>2. ASSUME NEW x \in staged, Ahead("in", x)
        PROVE  Safe
    <3>1. staged \subseteq Item
      BY DEF RestoreInv, RestoreTypeOK
    <3>2. \A i \in staged : Due(On("in", x)) <= Due(On("commit", i))
      BY <3>1, Stages, StepsAre
    <3>3. \A i \in staged : Ahead("commit", i)
      <4>1. CASE Suffix(plan, Live(staged))
        <5>1. \A i \in staged : On("commit", i) \in Live(staged)
          BY <3>1, LiveHas DEF InLive
        <5> QED BY <2>2, <3>2, <4>1, <5>1 DEF Suffix, Ahead
      <4>2. CASE Suffix(plan, Offline(staged))
        <5>1. \A i \in staged : On("commit", i) \in Offline(staged)
          BY <3>1, OfflineHas DEF InOffline
        <5> QED BY <2>2, <3>2, <4>2, <5>1 DEF Suffix, Ahead
      <4>3. Suffix(plan, Live(staged)) \/ Suffix(plan, Offline(staged))
        <5>1. plan # {} /\ plan # Once("refused")
          BY <1>5, InOnce DEF Forward, Ahead
        <5>2. ~Suffix(plan, Recovery)
          BY <1>5, RecoveryHas DEF Suffix, Forward, Ahead, InReopened
        <5>3. ~Suffix(plan, Rollback(moved))
          <6>1. moved \subseteq Item
            BY DEF RestoreInv, RestoreTypeOK
          <6> QED BY <1>5, <6>1, RollbackHas DEF Suffix, Forward, Ahead, InRollback, InUndos, InReopened
        <5> QED BY <5>1, <5>2, <5>3 DEF RestoreInv, InScript
      <4> QED BY <4>1, <4>2, <4>3
    <3>4. \A i \in Item : Kept(i) \/ Beside(i)
      BY <1>5, <3>3 DEF RestoreInv, Swapped
    <3> QED BY <1>1, <3>4 DEF Safe
  <2> QED BY <2>1, <2>2
<1> QED BY <1>2, <1>3, <1>4, <1>5 DEF RestoreInv, InScript

LEMMA NothingLeft == plan' = {} => ~Forward' /\ ~Backward' /\ \A e, j : ~Ahead(e, j)'
BY DEF Forward, Backward, Ahead

LEMMA JudgeKeeps ==
  ASSUME RestoreInv, Judge
  PROVE  RestoreInv'
<1>1. PICK do \in {"weigh", "judge"} : IsNext(do)
  BY DEF Judge
<1>2. ItemsStay /\ UNCHANGED <<botched, shut, brand, open, wal, late, troubles>>
  BY DEF Judge, ItemsStay
<1>3. CASE ~botched
  <2>1. Takes /\ UNCHANGED <<status, process>>
    BY <1>3 DEF Judge
  <2>2. InScript' /\ Older' /\ Swapped' /\ Undone' /\ Ended'
    BY <1>1, <1>2, <1>3, <2>1, ItemsTaken
  <2>3. /\ plan' \subseteq Steps /\ Forward' = Forward /\ Backward' = Backward /\ plan' \notin {{}, Once("refused")}
        /\ \A e, j : Ahead(e, j)' <=> Ahead(e, j) /\ ~(e = do /\ j = Of)
    BY <1>1, <1>2, <2>1, Taken DEF RestoreInv, ItemsStay
  <2>4. RestoreTypeOK'
    BY <1>2, <2>1, <2>3, KeepsTypes DEF RestoreInv, RestoreTypeOK, ItemsStay
  <2>5. Served'
    BY <1>1, <1>2, <1>3, <2>1, <2>3 DEF RestoreInv, Served, Opened, ItemsStay
  <2> QED BY <2>2, <2>4, <2>5 DEF RestoreInv
<1>4. CASE botched
  <2>1. plan' = {} /\ status' = "stuck" /\ process' = IF process = "offline" THEN "down" ELSE process
    BY <1>4 DEF Judge
  <2>2. ~Forward' /\ ~Backward' /\ \A e, j : ~Ahead(e, j)'
    BY <2>1, NothingLeft
  <2>3. Safe' /\ Older'
    BY <1>2, AlwaysSafe, StayAsTheyAre DEF RestoreInv
  <2>4. plan' \subseteq Steps /\ process' \in {"up", "down", "offline"} /\ status' \in Statuses
    BY <2>1 DEF RestoreInv, RestoreTypeOK, Statuses
  <2>5. RestoreTypeOK'
    BY <1>2, <2>4, KeepsTypes DEF RestoreInv, RestoreTypeOK, ItemsStay
  <2>6. InScript'
    BY <2>1 DEF InScript
  <2>7. Swapped' /\ Undone'
    BY <2>2 DEF Swapped, Undone
  <2>8. Ended'
    <3>1. plan' # Once("refused")
      BY <2>1, InOnce
    <3> QED BY <2>1, <2>3, <3>1 DEF Ended
  <2>9. Served'
    BY <1>2, <2>1, <2>2 DEF Served
  <2> QED BY <2>3, <2>5, <2>6, <2>7, <2>8, <2>9 DEF RestoreInv
<1> QED BY <1>3, <1>4

LEMMA FinishKeeps ==
  ASSUME RestoreInv, FinishRestore
  PROVE  RestoreInv'
<1>1. PICK do \in {"restored", "failed", "refused"} : IsNext(do)
  BY DEF FinishRestore
<1>2. /\ plan' = {} /\ status' = do /\ moved' = {} /\ late' = FALSE
      /\ process' = IF process = "offline" THEN "down" ELSE process
      /\ UNCHANGED <<disk, wal, staged, aside, left, botched, open, brand, shut, restores, troubles, before, unmerged>>
  <2>1. ThisStep.do = do
    BY <1>1, NextStep, DueIs DEF RestoreInv, RestoreTypeOK
  <2> QED BY <2>1 DEF FinishRestore
<1>3. ~Forward' /\ ~Backward' /\ \A e, j : ~Ahead(e, j)'
  BY <1>2, NothingLeft
<1>4. plan' \subseteq Steps /\ process' \in {"up", "down", "offline"} /\ status' \in Statuses /\ plan' # Once("refused")
  BY <1>1, <1>2, InOnce DEF RestoreInv, RestoreTypeOK, Statuses
<1>5. RestoreTypeOK'
  BY <1>2, <1>4 DEF RestoreInv, RestoreTypeOK
<1>6. \A i : Kept(i)' = Kept(i) /\ Replaced(i)' = Replaced(i)
  BY <1>2 DEF Kept, Replaced, IsOriginal
<1>7. Older' /\ Safe'
  BY <1>2, AlwaysSafe DEF RestoreInv, Older, Safe, Replaced, IsOriginal
<1>8. InScript'
  BY <1>1, <1>2 DEF InScript
<1>9. Swapped' /\ Undone'
  BY <1>3 DEF Swapped, Undone
<1>10. CASE do = "restored"
  <2>1. /\ Forward
        /\ \A e \in Doing, j \in Item : StepOrder[e] < StepOrder["restored"] => ~Ahead(e, j)
    BY <1>1, <1>10, OnTheWay
  <2>2. staged \subseteq Item
    BY DEF RestoreInv, RestoreTypeOK
  <2>3. \A j \in Item : ~Ahead("in", j) /\ ~Ahead("reopen", j) /\ ~Ahead("reload", j) /\ ~Ahead("disengage", j)
    BY <2>1, StepsAre
  <2>4. \A i \in Item : IF i \in staged THEN Replaced(i) ELSE Kept(i)
    BY <2>1, <2>2, <2>3 DEF RestoreInv, Swapped
  <2>5. Ended'
    BY <1>2, <1>4, <1>6, <1>7, <1>10, <2>4 DEF Ended
  <2>6. process = "up" => ~shut /\ brand = disk["branding"] /\ \A s \in Stores : Opened(s)
    BY <2>1, <2>3, StoreItems DEF RestoreInv, Served
  <2>7. Served'
    BY <1>2, <1>3, <1>10, <2>6 DEF Served, Opened
  <2> QED BY <1>5, <1>7, <1>8, <1>9, <2>5, <2>7 DEF RestoreInv
<1>11. CASE do = "failed"
  <2>1. Backward /\ \A e \in Doing, j \in Item : Ahead(e, j) => Due(On("failed", Of)) <= Due(On(e, j))
    <3>1. ~InLive(do, Of, staged) /\ ~InOffline(do, Of, staged)
      BY <1>11 DEF InLive, InOffline
    <3> QED BY <1>1, <1>11, <3>1, Running DEF RestoreInv
  <2>2. "failed" \in Doing /\ Of \in Item
    BY <1>1, <1>11, NextStep DEF RestoreInv, RestoreTypeOK
  <2>3. \A e \in Doing, j \in Item : StepOrder[e] < StepOrder["failed"] => ~Ahead(e, j)
    BY <2>1, <2>2, Stages
  <2>4. \A j \in Item : /\ ~Ahead("back", j) /\ ~Ahead("weigh", j) /\ ~Ahead("admit", j) /\ ~Ahead("disengage", j)
                        /\ ~Ahead("resync", j) /\ ~Ahead("judge", j)
    BY <2>3, StepsAre
  <2>5. \A i \in Item : Kept(i)
    BY <2>1, <2>4, StoreItems DEF RestoreInv, Undone
  <2>6. Ended'
    BY <1>2, <1>4, <1>6, <1>7, <1>11, <2>5 DEF Ended
  <2>7. process = "up" => ~shut /\ \A s \in Stores : Opened(s)
    BY <2>1, <2>4, StoreItems DEF RestoreInv, Served
  <2>8. Served'
    BY <1>2, <1>3, <1>11, <2>7 DEF Served, Opened
  <2> QED BY <1>5, <1>7, <1>8, <1>9, <2>6, <2>8 DEF RestoreInv
<1>12. CASE do = "refused"
  <2>1. plan = Once("refused")
    <3>1. /\ ~InLive(do, Of, staged) /\ ~InOffline(do, Of, staged) /\ ~InReopened(do, Of)
          /\ ~InRollback(do, Of, moved) /\ do # "admit"
      BY <1>12 DEF InLive, InOffline, InReopened, InRollback, InUndos
    <3> QED BY <1>1, <1>12, <3>1, Running DEF RestoreInv
  <2>2. status # "stuck"
    BY <2>1, InOnce DEF RestoreInv, InScript
  <2>3. Ended'
    BY <1>2, <1>4, <1>6, <1>7, <1>12, <2>1 DEF RestoreInv, Ended
  <2>4. process = "up" => ~shut /\ \A s \in Stores : Opened(s)
    BY <2>1, <2>2 DEF RestoreInv, Served
  <2>5. Served'
    BY <1>2, <1>3, <1>12, <2>4 DEF Served, Opened
  <2> QED BY <1>5, <1>7, <1>8, <1>9, <2>3, <2>5 DEF RestoreInv
<1> QED BY <1>1, <1>10, <1>11, <1>12

-----------------------------------------------------------------------------
(* What fails *)

Steady == ItemsStay /\ UNCHANGED <<process, status, brand, shut, late, wal>>

LEMMA RefusalKeeps ==
  ASSUME RestoreInv, Steady, plan' = Once("refused"), \A i \in Item : Kept(i), UNCHANGED botched,
         plan # {}, process = "up" => ~shut /\ \A s \in Stores : Opened(s), UNCHANGED open, troubles' \in Nat
  PROVE  RestoreInv'
<1>1. plan' # {} /\ plan' \subseteq Steps /\ ~Forward' /\ ~Backward'
  <2>1. "refused" \in Doing /\ {"root"} \in SUBSET Item
    BY StepsAre, StoreItems
  <2> QED BY <2>1, InOnce, AllSteps DEF Once, Forward, Backward, Ahead
<1>2. RestoreTypeOK'
  BY <1>1, KeepsTypes DEF RestoreInv, RestoreTypeOK, ItemsStay, Steady
<1>3. InScript'
  BY <1>1 DEF RestoreInv, InScript, Steady
<1>4. Older' /\ \A i \in Item : Kept(i)'
  BY StayAsTheyAre DEF RestoreInv, Steady
<1>5. Swapped' /\ Undone'
  BY <1>1 DEF Swapped, Undone
<1>6. Ended'
  BY <1>1, <1>4 DEF Ended
<1>7. Served'
  BY <1>1 DEF Served, Opened, Steady, ItemsStay, RestoreInv
<1> QED BY <1>2, <1>3, <1>4, <1>5, <1>6, <1>7 DEF RestoreInv

\* Before the first swap everything is as it was.
LEMMA BeforeSwap ==
  ASSUME RestoreInv, NEW do \in {"validate", "engage", "pause", "wal"}, IsNext(do)
  PROVE  \A i \in Item : Kept(i)
<1>1. staged \subseteq Item
  BY DEF RestoreInv, RestoreTypeOK
<1>2. Forward /\ process \in {"up", "offline"} /\ do \in Doing
      /\ \A j \in Item : (Ahead("aside", j) <=> IF process = "up" THEN InLive("aside", j, staged) ELSE InOffline("aside", j, staged))
  BY OnTheWay, StepsAre
<1>3. \A j \in staged : Ahead("aside", j)
  BY <1>1, <1>2 DEF InLive, InOffline
<1> QED BY <1>2, <1>3 DEF RestoreInv, Swapped

LEMMA ValidateRefuses ==
  ASSUME RestoreInv, Validate, plan' = Once("refused")
  PROVE  RestoreInv'
<1>1. IsNext("validate") /\ Steady /\ UNCHANGED <<botched, open, troubles>>
  BY DEF Validate, Steady, ItemsStay
<1>2. \A i \in Item : Kept(i)
  BY <1>1, BeforeSwap
<1>3. /\ Forward /\ plan # {}
      /\ process = "up" => Ahead("engage", "root") /\ \A s \in Stores : Ahead("pause", s)
  <2>1. InLive("engage", "root", staged) /\ \A s \in Stores : InLive("pause", s, staged)
    BY DEF InLive
  <2> QED BY <1>1, <2>1, OnTheWay, StepsAre, StoreItems
<1>4. process = "up" => ~shut /\ \A s \in Stores : Opened(s)
  BY <1>3 DEF RestoreInv, Served
<1>5. troubles' \in Nat
  BY <1>1 DEF RestoreInv, RestoreTypeOK
<1> QED BY <1>1, <1>2, <1>3, <1>4, <1>5, RefusalKeeps

LEMMA FailBeforeKeeps ==
  ASSUME RestoreInv, FailBeforeSwap
  PROVE  RestoreInv'
<1>1. PICK do \in {"pause", "wal"} : IsNext(do)
  BY DEF FailBeforeSwap, Trouble
<1>2. /\ Steady /\ UNCHANGED botched /\ troubles' = troubles + 1
      /\ plan' = IF process = "offline" THEN Once("refused") ELSE Recovery
      /\ open' = IF do = "pause" THEN [open EXCEPT ![Of] = Absent] ELSE open
  <2>1. ThisStep.do = do
    BY <1>1, NextStep, DueIs DEF RestoreInv, RestoreTypeOK
  <2> QED BY <2>1 DEF FailBeforeSwap, Unfinished, Steady, ItemsStay, Trouble
<1>3. \A i \in Item : Kept(i)
  BY <1>1, BeforeSwap
<1>4. /\ Forward /\ plan # {} /\ process \in {"up", "offline"} /\ (do = "pause" => process = "up")
  BY <1>1, OnTheWay DEF InOffline
<1>5. troubles' \in Nat
  BY <1>2 DEF RestoreInv, RestoreTypeOK
<1>6. CASE process = "offline"
  <2>1. plan' = Once("refused") /\ UNCHANGED open
    BY <1>2, <1>4, <1>6
  <2> QED BY <1>2, <1>3, <1>4, <1>5, <1>6, <2>1, RefusalKeeps
<1>7. CASE process = "up"
  <2>1. plan' = Recovery
    BY <1>2, <1>7
  <2>2. /\ plan' \subseteq Steps /\ ~Forward' /\ Backward' /\ plan' # {} /\ plan' # Once("refused")
        /\ Ahead("admit", "root")' /\ Ahead("judge", "root")' /\ ~Ahead("weigh", "root")'
        /\ \A s \in Stores : Ahead("resync", s)'
        /\ \A i : ~Ahead("back", i)'
    BY <2>1, RecoveryHas, InOnce DEF InReopened, Forward, Backward, Ahead
  <2>3. open' \in [Stores -> Content]
    BY <1>2, AbsentIsContent DEF RestoreInv, RestoreTypeOK
  <2>4. RestoreTypeOK'
    BY <1>2, <1>5, <2>2, <2>3, KeepsTypes DEF RestoreInv, RestoreTypeOK, ItemsStay, Steady
  <2>5. InScript'
    <3>1. Suffix(plan, Recovery)'
      BY <2>1 DEF Suffix
    <3> QED BY <1>2, <1>4, <1>7, <2>2, <3>1 DEF RestoreInv, InScript, Steady
  <2>6. Older' /\ \A i \in Item : Kept(i)'
    BY <1>2, <1>3, StayAsTheyAre DEF RestoreInv, Steady
  <2>7. Swapped' /\ Undone' /\ Ended'
    BY <2>2, <2>6 DEF Swapped, Undone, Ended
  <2>8. Served'
    BY <1>2, <1>7, <2>2 DEF Served, Steady
  <2> QED BY <2>4, <2>5, <2>6, <2>7, <2>8 DEF RestoreInv
<1> QED BY <1>4, <1>6, <1>7

\* rollbackOrIntervene, wherever SwapAll and what follows it got to
LEMMA RollbackKeeps ==
  ASSUME RestoreInv, Steady, UNCHANGED <<botched, open>>, troubles' \in Nat,
         NEW do \in {"aside", "in", "reopen", "reload", "access"}, IsNext(do), plan' = Rollback(moved)
  PROVE  RestoreInv'
<1>1. /\ Forward /\ plan # {} /\ process \in {"up", "offline"} /\ do \in Doing
      /\ \A j \in Item : (Ahead("commit", j) <=> IF process = "up" THEN InLive("commit", j, staged) ELSE InOffline("commit", j, staged))
  BY OnTheWay, StepsAre
<1>2. staged \subseteq Item /\ moved \subseteq Item
  BY DEF RestoreInv, RestoreTypeOK
<1>3. \A j \in staged : Ahead("commit", j)
  BY <1>1, <1>2 DEF InLive, InOffline
<1>4. \A i \in Item : IF i \in moved THEN Beside(i) ELSE Kept(i)
  BY <1>1, <1>2, <1>3 DEF RestoreInv, Swapped
<1>5. /\ plan' \subseteq Steps /\ ~Forward' /\ Backward' /\ plan' # {} /\ plan' # Once("refused")
      /\ \A i \in moved : Ahead("back", i)' /\ Ahead("remove", i)'
      /\ \A i : i \notin moved => ~Ahead("back", i)'
      /\ process = "up" => /\ Ahead("disengage", "root")' /\ Ahead("judge", "root")'
                           /\ \A s \in Stores : Ahead("resync", s)'
  BY <1>1, <1>2, RollbackHas, InOnce DEF InRollback, InUndos, InReopened, Forward, Backward, Ahead
<1>6. RestoreTypeOK'
  BY <1>5, KeepsTypes DEF RestoreInv, RestoreTypeOK, ItemsStay, Steady
<1>7. InScript'
  <2>1. Rollback(moved)' = Rollback(moved)
    BY DEF Steady, ItemsStay, Rollback
  <2>2. Suffix(plan, Rollback(moved))'
    BY <2>1 DEF Suffix
  <2> QED BY <1>1, <1>5, <2>2 DEF RestoreInv, InScript, Steady
<1>8. Older' /\ \A i \in Item : IF i \in moved THEN Beside(i)' ELSE Kept(i)'
  BY <1>4, StayAsTheyAre DEF RestoreInv, Steady
<1>9. Swapped' /\ Undone' /\ Ended'
  BY <1>5, <1>8 DEF Swapped, Undone, Ended
<1>10. Served'
  BY <1>1, <1>5 DEF Served, Steady, ItemsStay, RestoreInv
<1> QED BY <1>6, <1>7, <1>8, <1>9, <1>10 DEF RestoreInv

LEMMA FailSwappingKeeps ==
  ASSUME RestoreInv, FailSwapping
  PROVE  RestoreInv'
<1>1. PICK do \in Begun : IsNext(do) /\ troubles' = troubles + 1
  BY DEF FailSwapping, Trouble
<1>2. Steady /\ UNCHANGED <<botched, open>> /\ plan' = Rollback(moved)
  BY DEF FailSwapping, Unfinished, Steady, ItemsStay
<1>3. troubles' \in Nat
  BY <1>1 DEF RestoreInv, RestoreTypeOK
<1> QED BY <1>1, <1>2, <1>3, RollbackKeeps DEF Begun

LEMMA FailCleaningKeeps ==
  ASSUME RestoreInv, FailCleaning
  PROVE  RestoreInv'
<1>1. PICK do \in {"commit", "suspend"} : IsNext(do)
  BY DEF FailCleaning, Trouble
<1>2. /\ Takes /\ Steady /\ UNCHANGED botched /\ troubles' = troubles + 1
      /\ open' = IF do = "suspend" THEN [open EXCEPT ![Of] = Absent] ELSE open
  <2>1. ThisStep.do = do
    BY <1>1, NextStep, DueIs DEF RestoreInv, RestoreTypeOK
  <2> QED BY <2>1 DEF FailCleaning, Unfinished, Steady, ItemsStay, Trouble
<1>3. ItemsStay /\ UNCHANGED <<process, status, brand, shut, late, wal>>
  BY <1>2 DEF Steady
<1>4. InScript' /\ Older' /\ Swapped' /\ Undone' /\ Ended'
  BY <1>1, <1>2, <1>3, ItemsTaken
<1>5. /\ plan' \subseteq Steps /\ Forward' = Forward /\ Backward' = Backward /\ plan' \notin {{}, Once("refused")}
      /\ \A e, j : Ahead(e, j)' <=> Ahead(e, j) /\ ~(e = do /\ j = Of)
  BY <1>1, <1>2, <1>3, Taken DEF RestoreInv, ItemsStay
<1>6. open' \in [Stores -> Content] /\ troubles' \in Nat
  <2>1. open \in [Stores -> Content] /\ troubles \in Nat
    BY DEF RestoreInv, RestoreTypeOK
  <2>2. troubles' \in Nat
    BY <1>2, <2>1
  <2>3. open' \in [Stores -> Content]
    BY <1>2, <2>1, AbsentIsContent
  <2> QED BY <2>2, <2>3
<1>7. RestoreTypeOK'
  BY <1>2, <1>3, <1>5, <1>6, KeepsTypes DEF RestoreInv, RestoreTypeOK, ItemsStay
<1>8. Served'
  <2>1. CASE do = "commit"
    <3>1. Forward /\ ~Backward
      BY <1>1, <2>1, OnTheWay
    <3> QED BY <1>2, <1>3, <1>5, <2>1, <3>1 DEF RestoreInv, Served, Opened, ItemsStay
  <2>2. CASE do = "suspend"
    <3>1. Backward /\ ~Forward /\ process = "up"
      BY <1>1, <2>2, OnTheWayBack DEF InRollback, InUndos, InReopened
    <3>2. \A s \in Stores : InRollback("resync", s, moved) /\ s \in Item
      BY <3>1, StoreItems DEF InRollback, InReopened
    <3>3. \A s \in Stores : Ahead("resync", s)
      BY <1>1, <2>2, <3>1, <3>2, OnTheWayBack, StepsAre
    <3> QED BY <1>2, <1>3, <1>5, <2>2, <3>1, <3>3 DEF RestoreInv, Served, Opened, ItemsStay
  <2> QED BY <1>1, <2>1, <2>2
<1> QED BY <1>4, <1>7, <1>8 DEF RestoreInv

\* An item that is given up is behind both of its steps.
LEMMA GivenUp ==
  ASSUME plan \subseteq Steps, IsNext("remove"), plan' = plan \ {ThisStep, On("back", Of)}
  PROVE  /\ plan' \subseteq Steps
         /\ \A L \in SUBSET Steps : Suffix(plan, L) => Suffix(plan', L)
         /\ \A e, j : Ahead(e, j)' <=> Ahead(e, j) /\ ~(e \in {"remove", "back"} /\ j = Of)
<1>1. /\ ThisStep = On("remove", Of) /\ Of \in Item /\ {"remove", "back"} \subseteq Doing
      /\ \A e \in Doing, j \in Item : Ahead(e, j) => Due(On("remove", Of)) <= Due(On(e, j))
  BY NextStep, StepsAre
<1>2. \A e, j : Ahead(e, j)' <=> Ahead(e, j) /\ ~(e \in {"remove", "back"} /\ j = Of)
  BY <1>1, OneStep DEF Ahead
<1>3. Due(On("back", Of)) = Due(On("remove", Of)) + 1
  BY <1>1, DueIs, StepsAre DEF Second
<1>4. \A e \in Doing, j \in Item : Ahead(e, j)' => Due(On("back", Of)) < Due(On(e, j))
  <2>1. SUFFICES ASSUME NEW e \in Doing, NEW j \in Item, Ahead(e, j)'
                 PROVE  Due(On("back", Of)) < Due(On(e, j))
    OBVIOUS
  <2>2. Ahead(e, j) /\ ~(e \in {"remove", "back"} /\ j = Of)
    BY <1>2, <2>1
  <2>3. Due(On("remove", Of)) <= Due(On(e, j)) /\ Due(On("remove", Of)) \in Nat /\ Due(On(e, j)) \in Nat
    BY <1>1, <2>2, DueIs
  <2>4. Due(On("remove", Of)) # Due(On(e, j)) /\ Due(On("back", Of)) # Due(On(e, j))
    BY <1>1, <2>2, DueOnce
  <2> QED BY <1>3, <2>3, <2>4
<1>5. ASSUME NEW L \in SUBSET Steps, Suffix(plan, L)
      PROVE  Suffix(plan', L)
  <2>1. ASSUME NEW s \in plan', NEW r \in L, Due(s) <= Due(r)
        PROVE  r \in plan'
    <3>1. PICK e \in Doing, j \in Item : s = On(e, j)
      BY DEF Steps, Doing
    <3>2. Due(On("back", Of)) < Due(s) /\ Due(s) \in Nat
      BY <1>4, <2>1, <3>1, DueIs DEF Ahead
    <3>3. r \in plan /\ Due(r) \in Nat
      <4>1. \E d \in Doing, i \in Item : r = On(d, i)
        BY DEF Steps, Doing
      <4> QED BY <1>5, <2>1, <4>1, DueIs DEF Suffix
    <3>4. Due(On("remove", Of)) < Due(r) /\ Due(On("back", Of)) < Due(r)
      <4>1. Due(On("remove", Of)) \in Nat /\ Due(On("back", Of)) \in Nat
        BY <1>1, DueIs
      <4> QED BY <1>3, <2>1, <3>2, <3>3, <4>1
    <3>5. r # ThisStep /\ r # On("back", Of)
      BY <1>1, <3>3, <3>4
    <3> QED BY <3>3, <3>5
  <2> QED BY <1>5, <2>1 DEF Suffix
<1> QED BY <1>2, <1>5

LEMMA FailBackKeeps ==
  ASSUME RestoreInv, FailBack
  PROVE  RestoreInv'
<1>1. PICK do \in {"remove", "back", "resync"} : IsNext(do)
  BY DEF FailBack, Trouble
<1>2. /\ Steady /\ botched' = TRUE /\ open' = open /\ troubles' = troubles + 1
      /\ plan' = IF do = "remove" THEN plan \ {ThisStep, On("back", Of)} ELSE plan \ {ThisStep}
  <2>1. ThisStep.do = do
    BY <1>1, NextStep, DueIs DEF RestoreInv, RestoreTypeOK
  <2> QED BY <2>1 DEF FailBack, Unfinished, Steady, ItemsStay, Trouble
<1>3. ItemsStay /\ UNCHANGED <<process, status, brand, shut, late, wal>>
  BY <1>2 DEF Steady
<1>4. RestoreTypeOK /\ InScript /\ troubles' \in Nat /\ open' \in [Stores -> Content] /\ plan \subseteq Steps
  BY <1>2 DEF RestoreInv, RestoreTypeOK
<1>5. CASE do = "resync"
  <2>1. Takes
    BY <1>2, <1>5 DEF Takes
  <2>2. InScript' /\ Older' /\ Swapped' /\ Undone' /\ Ended'
    BY <1>1, <1>2, <1>3, <1>5, <2>1, ItemsTaken
  <2>3. /\ plan' \subseteq Steps /\ Forward' = Forward /\ Backward' = Backward /\ plan' \notin {{}, Once("refused")}
        /\ \A e, j : Ahead(e, j)' <=> Ahead(e, j) /\ ~(e = do /\ j = Of)
    BY <1>1, <1>3, <1>4, <1>5, <2>1, Taken DEF ItemsStay
  <2>4. RestoreTypeOK'
    BY <1>2, <1>3, <1>4, <2>3, KeepsTypes DEF RestoreTypeOK, ItemsStay
  <2>5. Backward /\ ~Forward /\ Ahead("judge", "root")
    <3>1. InReopened("judge", "root")
      BY DEF InReopened
    <3> QED BY <1>1, <1>5, <3>1, OnReturn, StepsAre, StoreItems
  <2>6. Served'
    BY <1>2, <1>3, <1>5, <2>3, <2>5 DEF RestoreInv, Served, ItemsStay
  <2> QED BY <2>2, <2>4, <2>6 DEF RestoreInv
<1>6. CASE do \in {"remove", "back"}
  <2>1. /\ Backward /\ ~Forward /\ plan \notin {{}, Once("refused")} /\ process \in {"up", "offline"}
        /\ Of \in moved /\ Ahead("weigh", "root") /\ Ahead(do, Of)
        /\ process = "up" => Ahead("judge", "root") /\ Ahead("disengage", "root") /\ \A s \in Stores : Ahead("resync", s)
    <3>1. /\ Backward /\ ~Forward /\ plan \notin {{}, Once("refused")} /\ process \in {"up", "offline"}
          /\ InRollback(do, Of, moved)
          /\ \A e \in Doing, j \in Item : StepOrder[do] < StepOrder[e] => (Ahead(e, j) <=> InRollback(e, j, moved))
      BY <1>1, <1>6, OnTheWayBack
    <3>2. Of \in moved /\ Ahead(do, Of)
      BY <1>1, <1>4, <1>6, <3>1, NextStep DEF InRollback, InUndos, InReopened
    <3>3. /\ InRollback("weigh", "root", moved)
          /\ process = "up" => /\ InRollback("judge", "root", moved) /\ InRollback("disengage", "root", moved)
                               /\ \A s \in Stores : InRollback("resync", s, moved)
      BY DEF InRollback, InUndos, InReopened
    <3> QED BY <1>6, <3>1, <3>2, <3>3, StepsAre, StoreItems
  <2>2. /\ plan' \subseteq Steps
        /\ \A L \in SUBSET Steps : Suffix(plan, L) => Suffix(plan', L)
        /\ \A e, j : Ahead(e, j)' => Ahead(e, j)
        /\ \A e, j : Ahead(e, j) /\ e \notin {"remove", "back"} => Ahead(e, j)'
        /\ \A j : Ahead("back", j)' <=> Ahead("back", j) /\ j # Of
        /\ \A j : j # Of => (Ahead("remove", j)' <=> Ahead("remove", j))
    <3>1. CASE do = "remove"
      <4>1. plan' = plan \ {ThisStep, On("back", Of)}
        BY <1>2, <3>1
      <4> QED BY <1>1, <1>4, <3>1, <4>1, GivenUp
    <3>2. CASE do = "back"
      <4>1. Takes
        BY <1>2, <3>2 DEF Takes
      <4>2. /\ plan' \subseteq Steps
            /\ \A L \in SUBSET Steps : Suffix(plan, L) => Suffix(plan', L)
            /\ \A e, j : Ahead(e, j)' <=> Ahead(e, j) /\ ~(e = "back" /\ j = Of)
        BY <1>1, <1>4, <3>2, <4>1, SuffixTaken DEF Ahead
      <4> QED BY <4>2
    <3> QED BY <1>6, <3>1, <3>2
  <2>3. Backward' /\ ~Forward' /\ plan' # {} /\ plan' # Once("refused")
    BY <2>1, <2>2, InOnce DEF Forward, Backward, Ahead
  <2>4. InScript'
    <3>1. moved \subseteq Item
      BY <1>4 DEF RestoreTypeOK
    <3>2. Suffix(plan, Rollback(moved)) \/ (process = "up" /\ Suffix(plan, Recovery))
      <4>1. ~Suffix(plan, Live(staged)) \/ ~Forward
        BY <2>1
      <4> QED BY <1>4, <2>1 DEF InScript
    <3>3. Rollback(moved)' = Rollback(moved)
      BY <1>3 DEF ItemsStay, Rollback
    <3>4. Suffix(plan, Rollback(moved))' \/ (process = "up" /\ Suffix(plan, Recovery)')
      BY <2>2, <3>1, <3>2, <3>3, RollbackHas, RecoveryHas DEF Suffix
    <3> QED BY <1>3, <1>4, <2>1, <2>3, <3>4 DEF InScript
  <2>5. Older' /\ \A i : Kept(i)' = Kept(i) /\ Beside(i)' = Beside(i)
    BY <1>3, StayAsTheyAre DEF RestoreInv
  <2>6. Undone'
    <3>1. moved \subseteq Item /\ Of \in Item
      BY <1>4, <2>1 DEF RestoreTypeOK
    <3>2. \A i \in Item : Kept(i) \/ Beside(i)
      BY <2>1 DEF RestoreInv, Undone
    <3>3. Ahead("weigh", "root")'
      BY <2>1, <2>2
    <3>4. ASSUME NEW i \in Item, i # Of
          PROVE  (Ahead("back", i)' <=> Ahead("back", i)) /\ (Ahead("remove", i)' <=> Ahead("remove", i))
      BY <2>2, <3>4
    <3>5. disk' = disk
      BY <1>3 DEF ItemsStay
    <3>6. \A i : i = Of => ~Ahead("back", i)'
      BY <2>2
    <3>7. ASSUME NEW i \in Item
          PROVE  IF Ahead("back", i)' THEN Beside(i)' /\ (~Ahead("remove", i)' => disk'[i].of = -1)
                 ELSE Kept(i)' \/ (Ahead("weigh", "root")' /\ botched' /\ Beside(i)')
      <4>1. IF Ahead("back", i) THEN Beside(i) /\ (~Ahead("remove", i) => disk[i].of = -1)
            ELSE Kept(i) \/ (Ahead("weigh", "root") /\ botched /\ Beside(i))
        BY <2>1 DEF RestoreInv, Undone
      <4>2. CASE i = Of
        BY <1>2, <2>5, <3>2, <3>3, <3>6, <4>2
      <4>3. CASE i # Of
        BY <1>2, <2>5, <3>3, <3>4, <3>5, <4>1, <4>3
      <4> QED BY <4>2, <4>3
    <3> QED BY <3>7 DEF Undone
  <2>7. Swapped' /\ Ended'
    BY <2>3 DEF Swapped, Ended
  <2>8. RestoreTypeOK'
    BY <1>2, <1>3, <1>4, <2>2, KeepsTypes DEF RestoreTypeOK, ItemsStay
  <2>9. Served'
    <3>1. process = "up" => Ahead("judge", "root")' /\ Ahead("disengage", "root")' /\ \A s \in Stores : Ahead("resync", s)'
      BY <2>1, <2>2
    <3> QED BY <1>2, <1>3, <2>3, <3>1 DEF RestoreInv, Served, ItemsStay
  <2> QED BY <2>4, <2>5, <2>6, <2>7, <2>8, <2>9 DEF RestoreInv
<1> QED BY <1>1, <1>5, <1>6

LEMMA BeginKeeps ==
  ASSUME RestoreInv, NEW set \in SUBSET Item, BeginRestore(set)
  PROVE  RestoreInv'
<1>1. /\ plan = {} /\ restores' = restores + 1 /\ staged' = set /\ status' = "running" /\ moved' = {} /\ botched' = FALSE
      /\ aside' = NoCopies /\ left' = [i \in Item |-> left[i] \cup ({aside[i]} \ {Absent})]
      /\ before' = disk /\ unmerged' \subseteq wal /\ (process' = "offline" => unmerged' = wal)
      /\ UNCHANGED <<disk, wal, open, brand, shut, troubles, late>>
      /\ \/ process = "up" /\ status # "stuck" /\ process' = "up" /\ plan' = Live(set)
         \/ process = "down" /\ process' = "offline" /\ plan' = Offline(set)
  BY DEF BeginRestore
<1>2. /\ plan' \subseteq Steps /\ Forward' /\ ~Backward' /\ plan' # {} /\ plan' # Once("refused")
      /\ \A i \in set : Ahead("aside", i)' /\ Ahead("in", i)'
      /\ process' = "up" => /\ Ahead("engage", "root")' /\ Ahead("disengage", "root")' /\ Ahead("reload", "root")'
                            /\ \A s \in Stores : Ahead("pause", s)'
  <2>1. CASE plan' = Live(set)
    BY <2>1, LiveHas, InOnce DEF InLive, Forward, Backward, Ahead
  <2>2. CASE process' = "offline" /\ plan' = Offline(set)
    BY <2>2, OfflineHas, InOnce DEF InOffline, Forward, Backward, Ahead
  <2> QED BY <1>1, <2>1, <2>2
<1>3. RestoreTypeOK'
  <2>1. NoCopies \in [Item -> Content]
    BY AbsentIsContent DEF NoCopies
  <2>2. restores \in Nat /\ RestoreTypeOK
    BY DEF RestoreInv, RestoreTypeOK
  <2>3. left' \in [Item -> SUBSET Content]
    BY <1>1, <2>2 DEF RestoreTypeOK
  <2>4. restores' \in Nat /\ troubles' \in Nat /\ before' \in [Item -> Content] /\ aside' \in [Item -> Content]
    BY <1>1, <2>1, <2>2 DEF RestoreTypeOK
  <2>5. process' \in {"up", "down", "offline"} /\ status' \in Statuses /\ {botched', shut', late'} \subseteq BOOLEAN
    BY <1>1, <2>2 DEF RestoreTypeOK, Statuses
  <2> QED BY <1>1, <1>2, <2>2, <2>3, <2>4, <2>5 DEF RestoreTypeOK
<1>4. InScript'
  <2>1. CASE process' = "up" /\ plan' = Live(set)
    <3>1. Suffix(plan', Live(staged'))
      BY <1>1, <2>1 DEF Suffix
    <3>2. Suffix(plan, Live(staged))'
      BY <3>1 DEF Live
    <3> QED BY <1>1, <1>2, <2>1, <3>2 DEF InScript
  <2>2. CASE process' = "offline" /\ plan' = Offline(set)
    <3>1. Suffix(plan', Offline(staged'))
      BY <1>1, <2>2 DEF Suffix
    <3>2. Suffix(plan, Offline(staged))'
      BY <3>1 DEF Offline
    <3> QED BY <1>1, <1>2, <2>2, <3>2 DEF InScript
  <2> QED BY <1>1, <2>1, <2>2
<1>5. Older'
  <2>1. \A i \in Item : aside'[i].of = -1 /\ disk[i].of \in Int /\ disk[i].of <= restores
    BY <1>1, AbsentIsContent DEF NoCopies, RestoreInv, RestoreTypeOK, Older, Content
  <2>2. restores \in Nat
    BY DEF RestoreInv, RestoreTypeOK
  <2> QED BY <1>1, <2>1, <2>2 DEF Older
<1>6. \A i : Kept(i)'
  BY <1>1 DEF Kept, IsOriginal
<1>7. Swapped' /\ Undone' /\ Ended'
  BY <1>1, <1>2, <1>6 DEF Swapped, Undone, Ended
<1>8. Served'
  <2>1. process' = "up" => ~shut /\ \A s \in Stores : Opened(s)
    BY <1>1 DEF RestoreInv, Served
  <2> QED BY <1>1, <1>2, <2>1 DEF Served, Opened
<1> QED BY <1>3, <1>4, <1>5, <1>6, <1>7, <1>8 DEF RestoreInv

-----------------------------------------------------------------------------
(* Steps that change an item *)

LEMMA OneWrite ==
  ASSUME RestoreInv, NEW x \in Item, WriteItem(x)
  PROVE  /\ process = "up"
         /\ disk' \in [Item -> Content] /\ disk'[x].of = disk[x].of /\ disk'[x] # Absent
         /\ \A i \in Item : i # x => disk'[i] = disk[i]
         /\ open' \in [Stores -> Content]
         /\ \A s \in Stores : open'[s] = IF s = x THEN disk'[s] ELSE open[s]
         /\ x \in Stores => open[x] = disk[x] /\ open[x] # Absent
         /\ brand' = (IF x = "branding" THEN disk'[x] ELSE brand) /\ brand' \in Content
         /\ wal' = (IF x \in Stores THEN wal \cup {x} ELSE wal)
         /\ before' = IF disk[x] = before[x] /\ ~Swapping(x) THEN [before EXCEPT ![x] = disk'[x]] ELSE before
         /\ UNCHANGED <<staged, aside, left, plan, moved, botched, shut, process, status, restores, troubles, late, unmerged>>
<1>1. RestoreTypeOK
  BY DEF RestoreInv
<1> DEFINE at == IF disk[x] = Absent THEN Empty ELSE disk[x]
           new == [at EXCEPT !.writes = @ + 1]
<1>2. at \in Content /\ at.of = disk[x].of /\ (disk[x] \in Content)
  BY <1>1, AbsentIsContent DEF RestoreTypeOK
<1>3. at.writes \in Int /\ at.of \in Int /\ at = [of |-> at.of, writes |-> at.writes]
  BY <1>2 DEF Content
<1>3a. at.writes + 1 \in Nat
  BY <1>2 DEF Content
<1>4. new \in Content /\ new.of = at.of /\ new.writes \in Nat
  BY <1>3, <1>3a DEF Content
<1>5. /\ process = "up" /\ disk[x].writes < 1
      /\ x \in Stores => open[x] # Absent /\ open[x] = disk[x]
      /\ disk' = [disk EXCEPT ![x] = new]
      /\ open' = IF x \in Stores THEN [open EXCEPT ![x] = new] ELSE open
      /\ brand' = IF x = "branding" THEN new ELSE brand
      /\ wal' = IF x \in Stores THEN wal \cup {x} ELSE wal
      /\ before' = IF disk[x] = before[x] /\ ~Swapping(x) THEN [before EXCEPT ![x] = disk'[x]] ELSE before
      /\ UNCHANGED <<staged, aside, left, plan, moved, botched, shut, process, status, restores, troubles, late, unmerged>>
  BY DEF WriteItem
<1> HIDE DEF new, at
<1>6. disk' \in [Item -> Content] /\ disk'[x] = new /\ \A i \in Item : i # x => disk'[i] = disk[i]
  BY <1>1, <1>4, <1>5 DEF RestoreTypeOK
<1>7. open' \in [Stores -> Content] /\ \A s \in Stores : open'[s] = IF s = x THEN new ELSE open[s]
  BY <1>1, <1>4, <1>5 DEF RestoreTypeOK
<1>8. brand' \in Content
  BY <1>1, <1>4, <1>5 DEF RestoreTypeOK
<1>9. new # Absent
  BY <1>4 DEF Absent
<1> QED BY <1>2, <1>4, <1>5, <1>6, <1>7, <1>8, <1>9

\* What is put back is not yet in its place.
LEMMA BackIsLater ==
  ASSUME RestoreTypeOK, InScript, Backward, NEW i \in Item
  PROVE  /\ ~Ahead("in", i) /\ (Ahead("remove", i) => Ahead("back", i))
         /\ Ahead("back", i) => i \in moved
<1>1. plan # {} /\ plan # Once("refused") /\ moved \subseteq Item /\ staged \subseteq Item
  BY InOnce DEF Backward, Ahead, RestoreTypeOK
<1>2. ~Suffix(plan, Live(staged)) /\ ~Suffix(plan, Offline(staged))
  <2>1. On("failed", "root") \notin Live(staged) /\ On("failed", "root") \notin Offline(staged)
    BY <1>1, LiveHas, OfflineHas DEF InLive, InOffline
  <2> QED BY <2>1 DEF Backward, Ahead, Suffix
<1>3. CASE Suffix(plan, Recovery)
  BY <1>3, RecoveryHas DEF Suffix, Ahead, InReopened
<1>4. CASE Suffix(plan, Rollback(moved))
  <2>1. \A e, j : Ahead(e, j) => InRollback(e, j, moved)
    BY <1>1, <1>4, RollbackHas DEF Suffix, Ahead
  <2>2. ~Ahead("in", i) /\ (Ahead("remove", i) \/ Ahead("back", i) => i \in moved)
    BY <2>1 DEF InRollback, InUndos, InReopened
  <2>3. ASSUME Ahead("remove", i)
        PROVE  Ahead("back", i)
    <3>1. On("back", i) \in Rollback(moved)
      BY <1>1, <2>2, <2>3, RollbackHas DEF InRollback, InUndos
    <3>2. Due(On("remove", i)) <= Due(On("back", i))
      <4>1. {"remove", "back"} \subseteq Doing
        BY StepsAre
      <4>2. /\ Due(On("remove", i)) = 10 * 11 + 2 * Turn(i) /\ Due(On("back", i)) = 10 * 11 + 2 * Turn(i) + 1
            /\ Turn(i) \in 1 .. 4
        BY <4>1, DueIs, StepsAre DEF Second
      <4> QED BY <4>2
    <3> QED BY <1>4, <2>3, <3>1, <3>2 DEF Suffix, Ahead
  <2> QED BY <2>2, <2>3
<1> QED BY <1>1, <1>2, <1>3, <1>4 DEF InScript

LEMMA WriteKeeps ==
  ASSUME RestoreInv, NEW x \in Item, WriteItem(x)
  PROVE  RestoreInv'
<1>1. /\ process = "up"
      /\ disk' \in [Item -> Content] /\ disk'[x].of = disk[x].of /\ disk'[x] # Absent
      /\ \A i \in Item : i # x => disk'[i] = disk[i]
      /\ open' \in [Stores -> Content]
      /\ \A s \in Stores : open'[s] = IF s = x THEN disk'[s] ELSE open[s]
      /\ x \in Stores => open[x] = disk[x] /\ open[x] # Absent
      /\ brand' = (IF x = "branding" THEN disk'[x] ELSE brand) /\ brand' \in Content
      /\ wal' = (IF x \in Stores THEN wal \cup {x} ELSE wal)
      /\ before' = IF disk[x] = before[x] /\ ~Swapping(x) THEN [before EXCEPT ![x] = disk'[x]] ELSE before
      /\ UNCHANGED <<staged, aside, left, plan, moved, botched, shut, process, status, restores, troubles, late, unmerged>>
  BY OneWrite
<1>2. RestoreTypeOK /\ InScript /\ Older
  BY DEF RestoreInv
<1>3. /\ before' \in [Item -> Content] /\ \A i \in Item : i # x => before'[i] = before[i]
      /\ before'[x] = IF disk[x] = before[x] /\ ~Swapping(x) THEN disk'[x] ELSE before[x]
  <2>1. CASE disk[x] = before[x] /\ ~Swapping(x)
    <3>1. before' = [before EXCEPT ![x] = disk'[x]]
      BY <1>1, <2>1
    <3> QED BY <1>1, <1>2, <2>1, <3>1 DEF RestoreTypeOK
  <2>2. CASE ~(disk[x] = before[x] /\ ~Swapping(x))
    <3>1. before' = before
      BY <1>1, <2>2
    <3> QED BY <1>2, <2>2, <3>1 DEF RestoreTypeOK
  <2> QED BY <2>1, <2>2
<1>4. RestoreTypeOK'
  <2>1. wal' \subseteq Stores
    BY <1>1, <1>2 DEF RestoreTypeOK
  <2> QED BY <1>1, <1>2, <1>3, <2>1 DEF RestoreTypeOK
<1>5. Older'
  <2>1. \A i \in Item : disk'[i].of = disk[i].of
    BY <1>1
  <2>2. \A i \in Item : before'[i].of = before[i].of
    BY <1>1, <1>3
  <2> QED BY <1>1, <1>2, <2>1, <2>2 DEF Older
<1>6. \A e, j : Ahead(e, j)' = Ahead(e, j)
  BY <1>1 DEF Ahead
<1>7. Forward' = Forward /\ Backward' = Backward
  BY <1>6 DEF Forward, Backward
<1>8. InScript'
  <2>1. Rollback(moved)' = Rollback(moved) /\ Live(staged)' = Live(staged) /\ Offline(staged)' = Offline(staged)
    BY <1>1 DEF Rollback, Live, Offline
  <2>2. /\ Suffix(plan, Rollback(moved))' = Suffix(plan, Rollback(moved))
        /\ Suffix(plan, Live(staged))' = Suffix(plan, Live(staged))
        /\ Suffix(plan, Offline(staged))' = Suffix(plan, Offline(staged))
        /\ Suffix(plan, Recovery)' = Suffix(plan, Recovery)
    BY <1>1, <2>1 DEF Suffix
  <2> QED BY <1>1, <1>2, <1>7, <2>2 DEF InScript
<1>9. \A i \in Item : Replaced(i)' = Replaced(i)
  BY <1>1 DEF Replaced
<1>10. \A i \in Item : Kept(i) /\ ~Swapping(i) => Kept(i)'
  <2>1. SUFFICES ASSUME NEW i \in Item, Kept(i), ~Swapping(i)
                 PROVE  Kept(i)'
    OBVIOUS
  <2>2. CASE i # x
    BY <1>1, <1>3, <2>1, <2>2 DEF Kept, IsOriginal
  <2>3. CASE i = x /\ disk[x] = before[x]
    BY <1>3, <2>1, <2>3 DEF Kept, IsOriginal
  <2>4. CASE i = x /\ disk[x] # before[x]
    <3>1. before'[x] = before[x]
      BY <1>3, <2>4
    <3>2. (before[x] = Absent /\ disk[x].of = -1) \/ (x \in unmerged \cap staged /\ disk[x].of = before[x].of)
      BY <2>1, <2>4 DEF Kept, IsOriginal
    <3> QED BY <1>1, <2>4, <3>1, <3>2 DEF Kept, IsOriginal
  <2> QED BY <2>2, <2>3, <2>4
<1>11. \A i \in Item : Swapping(i) \/ disk[i] # before[i] => before'[i] = before[i]
  BY <1>3
<1>12. \A i \in Item : \A content : before'[i] = before[i] /\ IsOriginal(i, content) => IsOriginal(i, content)'
  BY <1>1 DEF IsOriginal
<1>13. \A i \in Item : before'[i] = before[i] /\ Beside(i) => Beside(i)'
  <2>1. SUFFICES ASSUME NEW i \in Item, before'[i] = before[i], Beside(i)
                 PROVE  Beside(i)'
    OBVIOUS
  <2>2. aside'[i] = aside[i]
    BY <1>1
  <2>3. aside[i] # Absent => IsOriginal(i, aside[i])
    BY <2>1 DEF Beside
  <2>4. aside[i] # Absent => IsOriginal(i, aside[i])'
    BY <1>1, <2>1, <2>3 DEF IsOriginal
  <2> QED BY <2>1, <2>2, <2>4 DEF Beside
<1>14. Swapped'
  <2>1. SUFFICES ASSUME Forward
                 PROVE  /\ \A i \in Item \ staged : Kept(i)' /\ i \notin moved'
                        /\ \A i \in staged :
                             /\ Ahead("aside", i) => Kept(i)' /\ i \notin moved'
                             /\ ~Ahead("aside", i) => i \in moved'
                             /\ ~Ahead("aside", i) /\ Ahead("commit", i) => Beside(i)'
                             /\ ~Ahead("in", i) => Replaced(i)'
    BY <1>1, <1>6, <1>7 DEF Swapped
  <2>2. /\ \A i \in Item \ staged : Kept(i) /\ i \notin moved
        /\ \A i \in staged :
             /\ Ahead("aside", i) => Kept(i) /\ i \notin moved
             /\ ~Ahead("aside", i) => i \in moved
             /\ ~Ahead("aside", i) /\ Ahead("commit", i) => Beside(i)
             /\ ~Ahead("in", i) => Replaced(i)
    BY <2>1 DEF RestoreInv, Swapped
  <2>3. \A i : i \notin moved => ~Swapping(i)
    BY DEF Swapping
  <2>4. staged \subseteq Item /\ restores \in Nat
    BY <1>2 DEF RestoreTypeOK
  <2>5. ASSUME NEW i \in staged, ~Ahead("aside", i)
        PROVE  before'[i] = before[i]
    <3>1. CASE Ahead("in", i)
      <4>1. Swapping(i)
        BY <2>2, <2>5, <3>1 DEF Swapping, Ahead
      <4> QED BY <1>11, <2>4, <4>1
    <3>2. CASE ~Ahead("in", i)
      <4>1. disk[i].of = restores
        BY <2>2, <2>5, <3>2 DEF Replaced
      <4>2. restores > 0 /\ before[i].of < restores /\ before[i].of \in Int
        <5>1. restores # 0
          BY <1>2, <2>5 DEF Older
        <5> QED BY <1>2, <2>4, <2>5, <5>1 DEF Older, RestoreTypeOK, Content
      <4>3. disk[i] # before[i]
        BY <2>4, <4>1, <4>2
      <4> QED BY <1>11, <2>4, <4>3
    <3> QED BY <3>1, <3>2
  <2> QED BY <1>1, <1>9, <1>10, <1>13, <2>2, <2>3, <2>4, <2>5
<1>15. Undone'
  <2>1. SUFFICES ASSUME Backward, NEW i \in Item
                 PROVE  IF Ahead("back", i)
                        THEN Beside(i)' /\ (~Ahead("remove", i) => disk'[i].of = -1)
                        ELSE Kept(i)' \/ (Ahead("weigh", "root") /\ botched /\ Beside(i)')
    BY <1>1, <1>6, <1>7 DEF Undone
  <2>2. IF Ahead("back", i)
        THEN Beside(i) /\ (~Ahead("remove", i) => disk[i].of = -1)
        ELSE Kept(i) \/ (Ahead("weigh", "root") /\ botched /\ Beside(i))
    BY <2>1 DEF RestoreInv, Undone
  <2>3. ~Ahead("in", i) /\ (Ahead("remove", i) => Ahead("back", i)) /\ (Ahead("back", i) => i \in moved)
    BY <1>2, <2>1, BackIsLater
  <2>4. CASE Ahead("back", i)
    <3>1. Swapping(i)
      BY <2>3, <2>4 DEF Swapping, Ahead
    <3>2. Beside(i)'
      BY <1>11, <1>13, <2>2, <2>4, <3>1
    <3>3. disk'[i].of = disk[i].of
      BY <1>1
    <3> QED BY <2>2, <2>4, <3>2, <3>3
  <2>5. CASE ~Ahead("back", i)
    <3>1. ~Swapping(i)
      BY <2>3, <2>5 DEF Swapping, Ahead
    <3>2. CASE Kept(i)
      BY <1>10, <2>5, <3>1, <3>2
    <3>3. CASE ~Kept(i)
      <4>1. disk[i] # before[i]
        BY <3>3 DEF Kept, IsOriginal
      <4> QED BY <1>11, <1>13, <2>2, <2>5, <3>3, <4>1
    <3> QED BY <3>2, <3>3
  <2> QED BY <2>4, <2>5
<1>16. ASSUME plan = {} \/ plan = Once("refused")
       PROVE  \A i : ~Swapping(i)
  BY <1>16, InOnce DEF Swapping
<1>17. Ended'
  <2>1. ASSUME plan = {}
        PROVE  Safe'
    <3>1. CASE \A i \in staged : Replaced(i)
      <4>1. \A i \in staged' : Replaced(i)'
        BY <1>1, <1>2, <1>9, <3>1 DEF RestoreTypeOK
      <4> QED BY <4>1 DEF Safe
    <3>2. CASE \A i \in Item : before[i] = Absent \/ \E content \in {disk[i], aside[i]} \cup left[i] : IsOriginal(i, content)
      <4>1. ASSUME NEW i \in Item
            PROVE  before'[i] = Absent \/ \E content \in {disk'[i], aside'[i]} \cup left'[i] : IsOriginal(i, content)'
        <5>1. CASE Kept(i)
          <6>1. Kept(i)'
            BY <1>10, <1>16, <2>1, <5>1
          <6>2. IsOriginal(i, disk[i])'
            BY <6>1 DEF Kept
          <6>3. \E content \in {disk'[i], aside'[i]} \cup left'[i] : IsOriginal(i, content)'
            BY <6>2 DEF IsOriginal
          <6> QED BY <6>3
        <5>2. CASE ~Kept(i)
          <6>1. before'[i] = before[i]
            BY <1>11, <5>2 DEF Kept, IsOriginal
          <6>2. before[i] = Absent \/ \E content \in {aside[i]} \cup left[i] : IsOriginal(i, content)
            BY <3>2, <5>2 DEF Kept
          <6> QED BY <1>1, <1>12, <6>1, <6>2
        <5> QED BY <5>1, <5>2
      <4> QED BY <4>1 DEF Safe
    <3>3. Safe
      BY <2>1 DEF RestoreInv, Ended
    <3> QED BY <3>1, <3>2, <3>3 DEF Safe
  <2>2. staged \subseteq Item
    BY <1>2 DEF RestoreTypeOK
  <2>3. plan = {} /\ status = "restored" => \A i \in Item : IF i \in staged THEN Replaced(i)' ELSE Kept(i)'
    BY <1>9, <1>10, <1>16 DEF RestoreInv, Ended
  <2>4. (plan = {} /\ status \in {"failed", "refused"}) \/ plan = Once("refused") => \A i \in Item : Kept(i)'
    BY <1>10, <1>16 DEF RestoreInv, Ended
  <2>5. Once("refused")' = Once("refused")
    BY DEF Once
  <2> QED BY <1>1, <2>1, <2>3, <2>4, <2>5 DEF Ended
<1>18. Served'
  <2>1. \A s \in Stores : s \in Item /\ (Opened(s) => Opened(s)')
    <3>1. \A s \in Stores : s # x => disk'[s] = disk[s] /\ open'[s] = open[s]
      BY <1>1, StoreItems
    <3>2. \A s \in Stores : s = x => open'[s] = disk'[s]
      BY <1>1
    <3> QED BY <3>1, <3>2, StoreItems DEF Opened
  <2>2. brand = disk["branding"] => brand' = disk'["branding"]
    BY <1>1, StoreItems
  <2>3. \A s \in Stores : open[s] = Absent /\ s \notin wal => open'[s] = Absent /\ s \notin wal'
    BY <1>1
  <2> QED BY <1>1, <1>6, <1>7, <2>1, <2>2, <2>3 DEF RestoreInv, Served
<1> QED BY <1>4, <1>5, <1>8, <1>14, <1>15, <1>17, <1>18 DEF RestoreInv

-----------------------------------------------------------------------------
(* The process starts and stops *)

LEMMA AtRest ==
  ASSUME plan' = {}, status' = "idle", Safe'
  PROVE  InScript' /\ Swapped' /\ Undone' /\ Ended'
<1>1. ~Forward' /\ ~Backward'
  BY NothingLeft
<1> QED BY <1>1, InOnce DEF InScript, Swapped, Undone, Ended

LEMMA HaltKeeps ==
  ASSUME RestoreInv, NEW inOrder, Halt(inOrder), troubles' \in Nat
  PROVE  RestoreInv'
<1>1. RestoreTypeOK /\ Older /\ Safe
  BY AlwaysSafe DEF RestoreInv
<1>2. /\ process' = "down" /\ open' = [s \in Stores |-> Absent] /\ brand' = Absent
      /\ wal' \in {wal, {}} /\ left' = [i \in Item |-> left[i] \cup ({aside[i]} \ {Absent})]
      /\ aside' = NoCopies /\ plan' = {} /\ moved' = {} /\ shut' = FALSE /\ late' = FALSE /\ status' = "idle"
      /\ UNCHANGED <<disk, staged, botched, restores, before, unmerged>>
  BY DEF Halt
<1>3. NoCopies \in [Item -> Content] /\ \A i \in Item : NoCopies[i] = Absent
  BY AbsentIsContent DEF NoCopies
<1>4. left' \in [Item -> SUBSET Content]
  BY <1>1, <1>2 DEF RestoreTypeOK
<1>5. wal' \subseteq Stores /\ open' \in [Stores -> Content] /\ brand' \in Content
  BY <1>1, <1>2, AbsentIsContent DEF RestoreTypeOK
<1>6. RestoreTypeOK'
  BY <1>1, <1>2, <1>3, <1>4, <1>5 DEF RestoreTypeOK, Statuses
<1>7. Older'
  <2>1. \A i \in Item : Absent.of <= restores
    BY <1>1, AbsentIsContent DEF RestoreTypeOK
  <2> QED BY <1>1, <1>2, <1>3, <2>1 DEF Older
<1>8. Safe'
  <2>1. CASE \A i \in staged : Replaced(i)
    BY <1>2, <2>1 DEF Safe, Replaced
  <2>2. CASE \A i \in Item : before[i] = Absent \/ \E content \in {disk[i], aside[i]} \cup left[i] : IsOriginal(i, content)
    <3>1. ASSUME NEW i \in Item, before[i] # Absent
          PROVE  \E content \in {disk'[i], aside'[i]} \cup left'[i] : IsOriginal(i, content)'
      <4>1. PICK content \in {disk[i], aside[i]} \cup left[i] : IsOriginal(i, content)
        BY <2>2, <3>1
      <4>2. content # Absent \/ content = disk[i]
        BY <3>1, <4>1, AbsentIsContent DEF IsOriginal
      <4>3. content \in {disk'[i]} \cup left'[i]
        BY <1>2, <4>1, <4>2
      <4>4. IsOriginal(i, content)'
        BY <1>2, <4>1 DEF IsOriginal
      <4> QED BY <4>3, <4>4
    <3> QED BY <1>2, <3>1 DEF Safe
  <2> QED BY <1>1, <2>1, <2>2 DEF Safe
<1>9. Served'
  BY <1>2, NothingLeft DEF Served
<1> QED BY <1>2, <1>6, <1>7, <1>8, <1>9, AtRest DEF RestoreInv

LEMMA BootKeeps ==
  ASSUME RestoreInv, BootServer
  PROVE  RestoreInv'
<1>1. RestoreTypeOK /\ Older /\ Safe /\ plan = {}
  BY AlwaysSafe DEF RestoreInv, InScript, BootServer
<1>2. /\ process' = "up" /\ disk' = [i \in Item |-> IF disk[i] = Absent THEN Empty ELSE disk[i]]
      /\ open' = [s \in Stores |-> disk'[s]] /\ brand' = disk'["branding"]
      /\ shut' = FALSE /\ status' = "idle" /\ botched' = FALSE /\ plan' = {}
      /\ UNCHANGED <<wal, staged, aside, left, moved, restores, troubles, late, before, unmerged>>
  BY <1>1 DEF BootServer
<1>3. /\ disk' \in [Item -> Content]
      /\ \A i \in Item : disk'[i].of = disk[i].of /\ (disk[i] # Absent => disk'[i] = disk[i])
  BY <1>1, <1>2, AbsentIsContent DEF RestoreTypeOK
<1>4. open' \in [Stores -> Content] /\ brand' \in Content
  BY <1>2, <1>3, StoreItems
<1>5. RestoreTypeOK'
  BY <1>1, <1>2, <1>3, <1>4 DEF RestoreTypeOK, Statuses
<1>6. Older'
  BY <1>1, <1>2, <1>3 DEF Older
<1>7. Safe'
  <2>1. CASE \A i \in staged : Replaced(i)
    BY <1>1, <1>2, <1>3, <2>1 DEF Safe, Replaced, RestoreTypeOK
  <2>2. CASE \A i \in Item : before[i] = Absent \/ \E content \in {disk[i], aside[i]} \cup left[i] : IsOriginal(i, content)
    <3>1. ASSUME NEW i \in Item, before[i] # Absent
          PROVE  \E content \in {disk'[i], aside'[i]} \cup left'[i] : IsOriginal(i, content)'
      <4>1. PICK content \in {disk[i], aside[i]} \cup left[i] : IsOriginal(i, content)
        BY <2>2, <3>1
      <4>2. content # Absent \/ content # disk[i]
        BY <3>1, <4>1, AbsentIsContent DEF IsOriginal
      <4>3. content \in {disk'[i], aside'[i]} \cup left'[i]
        BY <1>2, <1>3, <4>1, <4>2
      <4>4. IsOriginal(i, content)'
        BY <1>2, <4>1 DEF IsOriginal
      <4> QED BY <4>3, <4>4
    <3> QED BY <1>2, <3>1 DEF Safe
  <2> QED BY <1>1, <2>1, <2>2 DEF Safe
<1>8. Served'
  BY <1>2, NothingLeft DEF Served, Opened
<1> QED BY <1>2, <1>5, <1>6, <1>7, <1>8, AtRest DEF RestoreInv

LEMMA StartsWell == RestoreInit => RestoreInv
<1> SUFFICES ASSUME RestoreInit
             PROVE  RestoreInv
  OBVIOUS
<1>1. /\ \E bare \in SUBSET {"branding"} :
           disk = [i \in Item |-> IF i \in bare THEN Absent ELSE [of |-> 0, writes |-> 0]]
      /\ open = [s \in Stores |-> disk[s]] /\ brand = disk["branding"] /\ before = disk
      /\ wal = {} /\ staged = {} /\ aside = NoCopies /\ left = [i \in Item |-> {}] /\ plan = {}
      /\ moved = {} /\ botched = FALSE /\ shut = FALSE /\ process = "up" /\ status = "idle"
      /\ restores = 0 /\ troubles = 0 /\ late = FALSE /\ unmerged = {}
  BY DEF RestoreInit
<1>2. /\ [of |-> 0, writes |-> 0] \in Content /\ NoCopies \in [Item -> Content]
      /\ \A i \in Item : NoCopies[i] = Absent
  BY AbsentIsContent DEF Content, NoCopies
<1>3. disk \in [Item -> Content] /\ \A i \in Item : disk[i] \in {Absent, [of |-> 0, writes |-> 0]}
  BY <1>1, <1>2, AbsentIsContent
<1>4. RestoreTypeOK
  <2>1. open \in [Stores -> Content] /\ brand \in Content
    BY <1>1, <1>3, StoreItems
  <2>2. left \in [Item -> SUBSET Content]
    <3>1. left = [i \in Item |-> {}]
      BY <1>1
    <3>2. \A i \in Item : {} \in SUBSET Content
      OBVIOUS
    <3> QED BY <3>1, <3>2
  <2>3. before \in [Item -> Content] /\ aside \in [Item -> Content]
    BY <1>1, <1>2, <1>3
  <2>4. {restores, troubles} \subseteq Nat /\ {botched, shut, late} \subseteq BOOLEAN
    <3>1. restores = 0 /\ troubles = 0
      BY <1>1
    <3>2. botched = FALSE /\ shut = FALSE /\ late = FALSE
      BY <1>1
    <3>3. {restores, troubles} \subseteq Nat
      BY <3>1
    <3>4. {botched, shut, late} \subseteq BOOLEAN
      BY <3>2
    <3> QED BY <3>3, <3>4
  <2>5. /\ wal \subseteq Stores /\ unmerged \subseteq Stores /\ staged \subseteq Item /\ moved \subseteq Item
        /\ plan \subseteq Steps /\ process \in {"up", "down", "offline"} /\ status \in Statuses
    BY <1>1 DEF Statuses
  <2> QED BY <1>3, <2>1, <2>2, <2>3, <2>4, <2>5 DEF RestoreTypeOK
<1>5. Older
  BY <1>1, <1>2, <1>3, AbsentIsContent DEF Older
<1>6. \A e, j : ~Ahead(e, j)
  BY <1>1 DEF Ahead
<1>7. \A i : Kept(i)
  BY <1>1 DEF Kept, IsOriginal
<1>8. InScript /\ Swapped /\ Undone
  BY <1>1, <1>6 DEF InScript, Swapped, Undone, Forward, Backward
<1>9. Ended
  BY <1>1, <1>7, InOnce DEF Ended, Safe, Kept
<1>10. Served
  BY <1>1, <1>6 DEF Served, Opened, Forward, Backward
<1> QED BY <1>4, <1>5, <1>8, <1>9, <1>10 DEF RestoreInv

-----------------------------------------------------------------------------
(* Steps that move an item *)

\* All but the item of the step
OthersStay ==
  /\ \A i \in Item : i # Of => disk'[i] = disk[i] /\ aside'[i] = aside[i]
  /\ UNCHANGED <<staged, left, process, status, restores, troubles, late, before, unmerged, open, brand, shut>>

LEMMA OthersAsTheyAre ==
  ASSUME RestoreTypeOK, OthersStay
  PROVE  /\ \A i \in Item : i # Of => Kept(i)' = Kept(i) /\ Beside(i)' = Beside(i) /\ Replaced(i)' = Replaced(i)
         /\ \A i, content : IsOriginal(i, content)' = IsOriginal(i, content)
<1>1. \A i, content : IsOriginal(i, content)' = IsOriginal(i, content)
  BY DEF OthersStay, IsOriginal
<1>2. ASSUME NEW i \in Item, i # Of
      PROVE  Kept(i)' = Kept(i) /\ Beside(i)' = Beside(i) /\ Replaced(i)' = Replaced(i)
  <2>1. disk'[i] = disk[i] /\ aside'[i] = aside[i] /\ UNCHANGED <<before, unmerged, staged, restores>>
    BY <1>2 DEF OthersStay
  <2> QED BY <2>1 DEF Kept, Beside, Replaced, IsOriginal
<1> QED BY <1>1, <1>2

LEMMA MoveKeepsTypes ==
  ASSUME RestoreInv, OthersStay, plan' \subseteq Steps, disk' \in [Item -> Content], aside' \in [Item -> Content],
         wal' \subseteq wal, moved' \subseteq Item, botched' \in BOOLEAN,
         \A i \in Item : disk'[i].of <= restores /\ aside'[i].of <= restores
  PROVE  RestoreTypeOK' /\ Older'
<1>1. RestoreTypeOK /\ Older
  BY DEF RestoreInv
<1>2. RestoreTypeOK'
  BY <1>1 DEF RestoreTypeOK, OthersStay
<1>3. Older'
  BY <1>1 DEF Older, OthersStay
<1> QED BY <1>2, <1>3

\* While the items are swapped no store is open, and the gate is to be opened later.
LEMMA WhileSwapping ==
  ASSUME RestoreInv, NEW do \in {"wal", "aside", "in"}, IsNext(do), Takes, OthersStay, wal' \subseteq wal
  PROVE  InScript' /\ Undone' /\ Ended' /\ Served' /\ plan' \subseteq Steps
<1>1. RestoreTypeOK /\ InScript
  BY DEF RestoreInv
<1>2. /\ Forward /\ ~Backward /\ plan \notin {{}, Once("refused")} /\ process \in {"up", "offline"}
      /\ \A e \in Doing, j \in Item :
           /\ StepOrder[e] < StepOrder[do] => ~Ahead(e, j)
           /\ StepOrder[do] < StepOrder[e] =>
                (Ahead(e, j) <=> IF process = "up" THEN InLive(e, j, staged) ELSE InOffline(e, j, staged))
  BY OnTheWay
<1>3. /\ InScript' /\ plan' \subseteq Steps /\ plan' \notin {{}, Once("refused")}
      /\ Forward' = Forward /\ Backward' = Backward
      /\ \A e, j : Ahead(e, j)' <=> Ahead(e, j) /\ ~(e = do /\ j = Of)
  BY <1>1, <1>2, Taken DEF OthersStay
<1>4. Undone' /\ Ended'
  BY <1>2, <1>3 DEF Undone, Ended
<1>5. process = "up" => /\ Ahead("reload", "root") /\ Ahead("disengage", "root") /\ ~Ahead("engage", "root")
                        /\ \A s \in Stores : Ahead("reopen", s) /\ ~Ahead("pause", s)
  <2>1. /\ InLive("reload", "root", staged) /\ InLive("disengage", "root", staged)
        /\ \A s \in Stores : InLive("reopen", s, staged)
    BY DEF InLive
  <2>2. /\ StepOrder["engage"] < StepOrder[do] /\ StepOrder["pause"] < StepOrder[do]
        /\ StepOrder[do] < StepOrder["reload"] /\ StepOrder[do] < StepOrder["disengage"]
        /\ StepOrder[do] < StepOrder["reopen"] /\ {"reload", "disengage", "reopen", "engage", "pause"} \subseteq Doing
    BY StepsAre
  <2> QED BY <1>2, <2>1, <2>2, StoreItems
<1>6. Served'
  BY <1>2, <1>3, <1>5 DEF RestoreInv, Served, OthersStay
<1> QED BY <1>3, <1>4, <1>6

LEMMA WALKeeps ==
  ASSUME RestoreInv, RemoveStaleWALSidecars
  PROVE  RestoreInv'
<1>1. /\ IsNext("wal") /\ Takes /\ wal' \subseteq wal
      /\ disk' = IF Of \in wal /\ disk[Of].writes > 0 THEN [disk EXCEPT ![Of].writes = @ - 1] ELSE disk
      /\ UNCHANGED <<aside, moved, botched>>
  BY DEF RemoveStaleWALSidecars, InPlace, Inside
<1>2. RestoreTypeOK /\ Older /\ Of \in Item
  BY <1>1, NextStep DEF RestoreInv, RestoreTypeOK
<1>3. \A i \in Item : i # Of => disk'[i] = disk[i]
  BY <1>1, <1>2 DEF RestoreTypeOK
<1>4. OthersStay
  BY <1>1, <1>3 DEF OthersStay, RemoveStaleWALSidecars, InPlace, Inside
<1>5. InScript' /\ Undone' /\ Ended' /\ Served' /\ plan' \subseteq Steps
  BY <1>1, <1>4, WhileSwapping
<1>6. \A i \in Item : Kept(i)
  BY <1>1, BeforeSwap
<1>7. /\ Forward /\ process \in {"up", "offline"}
      /\ process = "up" => InLive("wal", Of, staged)
      /\ process = "offline" => InOffline("wal", Of, staged)
      /\ \A e \in Doing, j \in Item :
           /\ StepOrder[e] < StepOrder["wal"] => ~Ahead(e, j)
           /\ StepOrder["wal"] < StepOrder[e] =>
                (Ahead(e, j) <=> IF process = "up" THEN InLive(e, j, staged) ELSE InOffline(e, j, staged))
  BY <1>1, OnTheWay
<1>8. Of \in staged \cap Stores
  BY <1>7 DEF InLive, InOffline
<1>9. Of \in wal => Of \in unmerged
  <2>1. CASE process = "up"
    <3>1. ~Ahead("pause", Of) /\ Ahead("reopen", Of)
      BY <1>2, <1>7, <1>8, <2>1, StepsAre DEF InLive
    <3> QED BY <1>7, <1>8, <2>1, <3>1 DEF RestoreInv, Served
  <2>2. CASE process = "offline"
    BY <2>2 DEF RestoreInv, Served
  <2> QED BY <1>7, <2>1, <2>2
<1>10. /\ disk' \in [Item -> Content] /\ \A i \in Item : disk'[i].of = disk[i].of
       /\ disk'[Of] = disk[Of] \/ (Of \in unmerged \cap staged /\ disk'[Of] # Absent /\ disk[Of] # Absent)
  <2>1. CASE Of \in wal /\ disk[Of].writes > 0
    <3>1. disk' = [disk EXCEPT ![Of] = [disk[Of] EXCEPT !.writes = disk[Of].writes - 1]]
      BY <1>1, <1>2, <2>1 DEF RestoreTypeOK
    <3>2. disk[Of] \in Content /\ disk[Of].writes - 1 \in Nat /\ disk[Of] # Absent
      BY <1>2, <2>1 DEF RestoreTypeOK, Content, Absent
    <3>3. /\ [disk[Of] EXCEPT !.writes = disk[Of].writes - 1] \in Content
          /\ [disk[Of] EXCEPT !.writes = disk[Of].writes - 1].of = disk[Of].of
          /\ [disk[Of] EXCEPT !.writes = disk[Of].writes - 1].writes = disk[Of].writes - 1
      BY <3>2 DEF Content
    <3>4. [disk[Of] EXCEPT !.writes = disk[Of].writes - 1] # Absent
      BY <3>2, <3>3 DEF Absent
    <3> HIDE DEF Content, Absent
    <3>5. disk'[Of] = [disk[Of] EXCEPT !.writes = disk[Of].writes - 1] /\ disk' \in [Item -> Content]
      BY <1>2, <3>1, <3>3 DEF RestoreTypeOK
    <3> QED BY <1>3, <1>8, <1>9, <2>1, <3>2, <3>3, <3>4, <3>5
  <2>2. CASE ~(Of \in wal /\ disk[Of].writes > 0)
    BY <1>1, <1>2, <2>2 DEF RestoreTypeOK
  <2> QED BY <2>1, <2>2
<1>11. RestoreTypeOK' /\ Older'
  BY <1>1, <1>2, <1>4, <1>5, <1>10, MoveKeepsTypes DEF RestoreTypeOK, Older
<1>12. \A i \in Item : Kept(i)'
  <2>1. ASSUME NEW i, i = Of
        PROVE  Kept(i)'
    <3>1. UNCHANGED <<before, unmerged, staged>>
      BY <1>4 DEF OthersStay
    <3>2. IsOriginal(i, disk[i]) /\ i \in Item
      BY <1>2, <1>6, <2>1 DEF Kept
    <3>3. disk'[i] = disk[i] \/ (i \in unmerged \cap staged /\ disk'[i] # Absent /\ disk[i] # Absent)
      BY <1>10, <2>1
    <3>4. disk'[i].of = disk[i].of
      BY <1>10, <3>2
    <3> QED BY <3>1, <3>2, <3>3, <3>4 DEF Kept, IsOriginal
  <2> QED BY <1>2, <1>4, <1>6, OthersAsTheyAre, <2>1
<1>13. /\ \A e, j : Ahead(e, j)' <=> Ahead(e, j) /\ ~(e = "wal" /\ j = Of)
       /\ staged \subseteq Item
       /\ \A i \in staged : Ahead("aside", i) /\ Ahead("in", i)
  <2>1. staged \subseteq Item /\ plan \subseteq Steps
    BY <1>2 DEF RestoreTypeOK
  <2>2. \A i \in staged : Ahead("aside", i) /\ Ahead("in", i)
    BY <1>7, <2>1, StepsAre DEF InLive, InOffline
  <2> QED BY <1>1, <2>1, <2>2, SuffixTaken DEF Ahead
<1>14. Swapped'
  <2>1. /\ \A i \in Item \ staged : i \notin moved
        /\ \A i \in staged : i \notin moved
    BY <1>7, <1>13 DEF RestoreInv, Swapped
  <2>2. staged' = staged /\ moved' = moved
    BY <1>1, <1>4 DEF OthersStay
  <2> QED BY <1>12, <1>13, <2>1, <2>2 DEF Swapped
<1> QED BY <1>5, <1>11, <1>14 DEF RestoreInv

\* Both renames of an item, one after the other
LEMMA TwoRenames ==
  ASSUME RestoreInv, NEW do \in {"aside", "in"}, IsNext(do)
  PROVE  /\ Of \in staged /\ Ahead("in", Of) /\ (Ahead("aside", Of) <=> do = "aside") /\ Forward
<1>1. /\ Forward /\ process \in {"up", "offline"} /\ Of \in Item
      /\ process = "up" => InLive(do, Of, staged)
      /\ process = "offline" => InOffline(do, Of, staged)
  BY OnTheWay
<1>2. Of \in staged
  BY <1>1 DEF InLive, InOffline
<1>3. \/ \A e \in Doing, j \in Item : Ahead(e, j) <=> InLive(e, j, staged) /\ Due(On(do, Of)) <= Due(On(e, j))
      \/ \A e \in Doing, j \in Item : Ahead(e, j) <=> InOffline(e, j, staged) /\ Due(On(do, Of)) <= Due(On(e, j))
  <2>1. do # "refused" /\ ~Backward
    BY OnTheWay
  <2> QED BY <2>1, Running DEF RestoreInv
<1>4. {"aside", "in"} \subseteq Doing
  BY StepsAre
<1>5. /\ InLive("aside", Of, staged) /\ InOffline("aside", Of, staged)
      /\ InLive("in", Of, staged) /\ InOffline("in", Of, staged)
  BY <1>2 DEF InLive, InOffline
<1>6. Due(On("in", Of)) = Due(On("aside", Of)) + 1 /\ Due(On("aside", Of)) \in Nat
  BY <1>1, <1>4, DueIs, StepsAre DEF Second
<1>7. Due(On(do, Of)) <= Due(On("in", Of)) /\ (Due(On(do, Of)) <= Due(On("aside", Of)) <=> do = "aside")
  <2>1. CASE do = "aside"
    BY <1>6, <2>1
  <2>2. CASE do = "in"
    BY <1>6, <2>2
  <2> QED BY <2>1, <2>2
<1> QED BY <1>1, <1>2, <1>3, <1>4, <1>5, <1>7

LEMMA MoveAsideKeeps ==
  ASSUME RestoreInv, MoveAside
  PROVE  RestoreInv'
<1>1. /\ IsNext("aside") /\ Takes
      /\ aside' = [aside EXCEPT ![Of] = disk[Of]] /\ disk' = [disk EXCEPT ![Of] = Absent]
      /\ moved' = moved \cup {Of} /\ wal' = wal /\ botched' = botched
  BY DEF MoveAside, Inside
<1>2. RestoreTypeOK /\ Older /\ Of \in staged /\ staged \subseteq Item /\ Of \in Item
  BY <1>1, TwoRenames DEF RestoreInv, RestoreTypeOK
<1>3. /\ aside' \in [Item -> Content] /\ disk' \in [Item -> Content]
      /\ \A i \in Item : i # Of => disk'[i] = disk[i] /\ aside'[i] = aside[i]
      /\ \A i \in Item : i = Of => disk'[i] = Absent /\ aside'[i] = disk[i]
  BY <1>1, <1>2, AbsentIsContent DEF RestoreTypeOK
<1>4. OthersStay
  BY <1>1, <1>3 DEF OthersStay, MoveAside, Inside
<1>5. InScript' /\ Undone' /\ Ended' /\ Served' /\ plan' \subseteq Steps
  BY <1>1, <1>4, WhileSwapping
<1>6. RestoreTypeOK' /\ Older'
  <2>1. moved' \subseteq Item /\ botched' \in BOOLEAN /\ restores \in Nat
    BY <1>1, <1>2 DEF RestoreTypeOK
  <2>2. \A i \in Item : disk'[i].of <= restores /\ aside'[i].of <= restores
    <3>1. Absent.of <= restores
      BY <2>1, AbsentIsContent
    <3> QED BY <1>2, <1>3, <3>1 DEF Older
  <2> QED BY <1>1, <1>3, <1>4, <1>5, <2>1, <2>2, MoveKeepsTypes
<1>7. \A e, j : Ahead(e, j)' <=> Ahead(e, j) /\ ~(e = "aside" /\ j = Of)
  BY <1>1, <1>2, SuffixTaken DEF RestoreTypeOK, Ahead
<1>8. Forward /\ Ahead("in", Of) /\ Ahead("aside", Of)
  BY <1>1, TwoRenames
<1>9. \A i : i = Of => Beside(i)'
  <2>1. SUFFICES ASSUME NEW i, i = Of
                 PROVE  Beside(i)'
    OBVIOUS
  <2>2. Kept(i) /\ i \in Item
    BY <1>2, <1>8, <2>1 DEF RestoreInv, Swapped
  <2>3. IsOriginal(i, aside'[i])
    BY <1>3, <2>1, <2>2 DEF Kept
  <2>4. IsOriginal(i, aside[i])'
    BY <1>4, <2>3 DEF OthersStay, IsOriginal
  <2>5. aside'[i] = Absent => before'[i] = Absent
    BY <2>4 DEF IsOriginal
  <2> QED BY <2>4, <2>5 DEF Beside
<1>10. Swapped'
  <2>1. /\ \A i \in Item \ staged : Kept(i) /\ i \notin moved
        /\ \A i \in staged :
             /\ Ahead("aside", i) => Kept(i) /\ i \notin moved
             /\ ~Ahead("aside", i) => i \in moved
             /\ ~Ahead("aside", i) /\ Ahead("commit", i) => Beside(i)
             /\ ~Ahead("in", i) => Replaced(i)
    BY <1>8 DEF RestoreInv, Swapped
  <2>2. \A i \in Item : i # Of => (i \in moved' <=> i \in moved)
    BY <1>1
  <2>3. \A i \in Item \ staged : Kept(i)' /\ i \notin moved'
    BY <1>2, <1>4, <2>1, <2>2, OthersAsTheyAre
  <2>4. \A i : i = Of => ~Ahead("aside", i)' /\ Ahead("in", i)' /\ i \in moved'
    BY <1>1, <1>7, <1>8
  <2>5. ASSUME NEW i \in staged
        PROVE  /\ Ahead("aside", i)' => Kept(i)' /\ i \notin moved'
               /\ ~Ahead("aside", i)' => i \in moved'
               /\ ~Ahead("aside", i)' /\ Ahead("commit", i)' => Beside(i)'
               /\ ~Ahead("in", i)' => Replaced(i)'
    <3>1. CASE i = Of
      BY <1>9, <2>4, <3>1
    <3>2. CASE i # Of
      <4>1. i \in Item /\ (i \in moved' <=> i \in moved)
        BY <1>2, <2>2, <3>2
      <4>2. Kept(i)' = Kept(i) /\ Beside(i)' = Beside(i) /\ Replaced(i)' = Replaced(i)
        BY <1>2, <1>4, <3>2, <4>1, OthersAsTheyAre
      <4>3. \A e : Ahead(e, i)' <=> Ahead(e, i)
        BY <1>7, <3>2
      <4> QED BY <2>1, <4>1, <4>2, <4>3
    <3> QED BY <3>1, <3>2
  <2>6. staged' = staged
    BY <1>4 DEF OthersStay
  <2> QED BY <2>3, <2>5, <2>6 DEF Swapped
<1> QED BY <1>5, <1>6, <1>10 DEF RestoreInv

LEMMA MoveInKeeps ==
  ASSUME RestoreInv, MoveIn
  PROVE  RestoreInv'
<1>1. IsNext("in") /\ wal' = wal /\ aside' = aside /\ moved' = moved /\ botched' = botched
  BY DEF MoveIn, InPlace, Inside
<1>2. RestoreTypeOK /\ Older /\ Of \in staged /\ staged \subseteq Item /\ Of \in Item /\ restores \in Nat
  BY <1>1, TwoRenames DEF RestoreInv, RestoreTypeOK
<1>3. CASE InTheWay(Of)
  <2>1. plan' = Rollback(moved) /\ Steady /\ UNCHANGED <<botched, open>> /\ troubles' = troubles
    BY <1>3 DEF MoveIn, InPlace, Inside, Steady, ItemsStay
  <2>2. troubles' \in Nat
    BY <1>2, <2>1 DEF RestoreTypeOK
  <2> QED BY <1>1, <2>1, <2>2, RollbackKeeps
<1>4. CASE ~InTheWay(Of)
  <2>1. Takes /\ disk' = [disk EXCEPT ![Of] = [of |-> restores, writes |-> 0]]
    BY <1>4 DEF MoveIn
  <2>2. [of |-> restores, writes |-> 0] \in Content
    BY <1>2 DEF Content
  <2>3. /\ disk' \in [Item -> Content]
        /\ \A i \in Item : i # Of => disk'[i] = disk[i]
        /\ \A i \in Item : i = Of => disk'[i].of = restores
    BY <1>2, <2>1, <2>2 DEF RestoreTypeOK
  <2>4. OthersStay
    BY <1>1, <2>3 DEF OthersStay, MoveIn, InPlace, Inside
  <2>5. InScript' /\ Undone' /\ Ended' /\ Served' /\ plan' \subseteq Steps
    BY <1>1, <2>1, <2>4, WhileSwapping
  <2>6. RestoreTypeOK' /\ Older'
    <3>1. aside' \in [Item -> Content] /\ moved' \subseteq Item /\ botched' \in BOOLEAN
      BY <1>1, <1>2 DEF RestoreTypeOK
    <3>2. \A i \in Item : disk'[i].of <= restores /\ aside'[i].of <= restores
      BY <1>1, <1>2, <2>3 DEF Older
    <3> QED BY <1>1, <2>3, <2>4, <2>5, <3>1, <3>2, MoveKeepsTypes
  <2>7. \A e, j : Ahead(e, j)' <=> Ahead(e, j) /\ ~(e = "in" /\ j = Of)
    BY <1>1, <1>2, <2>1, SuffixTaken DEF RestoreTypeOK, Ahead
  <2>8. Forward /\ ~Ahead("aside", Of)
    BY <1>1, TwoRenames
  <2>9. \A i \in Item : Beside(i)' = Beside(i)
    BY <1>1, <2>4 DEF OthersStay, Beside, IsOriginal
  <2>10. Swapped'
    <3>1. /\ \A i \in Item \ staged : Kept(i) /\ i \notin moved
          /\ \A i \in staged :
               /\ Ahead("aside", i) => Kept(i) /\ i \notin moved
               /\ ~Ahead("aside", i) => i \in moved
               /\ ~Ahead("aside", i) /\ Ahead("commit", i) => Beside(i)
               /\ ~Ahead("in", i) => Replaced(i)
      BY <2>8 DEF RestoreInv, Swapped
    <3>2. UNCHANGED <<staged, restores>>
      BY <2>4 DEF OthersStay
    <3>3. \A i \in Item \ staged : Kept(i)' /\ i \notin moved'
      BY <1>1, <1>2, <2>4, <3>1, OthersAsTheyAre
    <3>4. ASSUME NEW i \in staged
          PROVE  /\ Ahead("aside", i)' => Kept(i)' /\ i \notin moved'
                 /\ ~Ahead("aside", i)' => i \in moved'
                 /\ ~Ahead("aside", i)' /\ Ahead("commit", i)' => Beside(i)'
                 /\ ~Ahead("in", i)' => Replaced(i)'
      <4>1. CASE i = Of
        <5>1. Replaced(i)'
          BY <1>2, <2>3, <3>2, <4>1 DEF Replaced
        <5>2. /\ ~Ahead("aside", i) /\ i \in Item /\ (Ahead("aside", i)' <=> Ahead("aside", i))
              /\ (Ahead("commit", i)' <=> Ahead("commit", i))
          BY <1>2, <2>7, <2>8, <4>1
        <5> QED BY <1>1, <2>9, <3>1, <5>1, <5>2
      <4>2. CASE i # Of
        <5>1. \A e : Ahead(e, i)' <=> Ahead(e, i)
          BY <2>7, <4>2
        <5>2. Kept(i)' = Kept(i) /\ Beside(i)' = Beside(i) /\ Replaced(i)' = Replaced(i)
          BY <1>2, <2>4, <4>2, OthersAsTheyAre
        <5> QED BY <1>1, <3>1, <5>1, <5>2
      <4> QED BY <4>1, <4>2
    <3> QED BY <3>2, <3>3, <3>4 DEF Swapped
  <2> QED BY <2>5, <2>6, <2>10 DEF RestoreInv
<1> QED BY <1>3, <1>4

LEMMA CommitKeeps ==
  ASSUME RestoreInv, CommitItem
  PROVE  RestoreInv'
<1>1. /\ IsNext("commit") /\ Takes /\ aside' = [aside EXCEPT ![Of] = Absent]
      /\ UNCHANGED <<disk, wal, moved, botched>>
  BY DEF CommitItem, InPlace, Inside
<1>2. RestoreTypeOK /\ Older /\ InScript /\ staged \subseteq Item /\ Of \in Item
  BY <1>1, NextStep DEF RestoreInv, RestoreTypeOK
<1>3. /\ aside' \in [Item -> Content]
      /\ \A i \in Item : i # Of => aside'[i] = aside[i]
      /\ \A i \in Item : i = Of => aside'[i] = Absent
  BY <1>1, <1>2, AbsentIsContent DEF RestoreTypeOK
<1>4. OthersStay
  BY <1>1, <1>3 DEF OthersStay, CommitItem, InPlace, Inside
<1>5. /\ InScript' /\ plan' \subseteq Steps /\ plan' \notin {{}, Once("refused")}
      /\ Forward' = Forward /\ Backward' = Backward
      /\ \A e, j : Ahead(e, j)' <=> Ahead(e, j) /\ ~(e = "commit" /\ j = Of)
  BY <1>1, <1>2, <1>4, Taken DEF OthersStay
<1>6. /\ Forward /\ ~Backward /\ process \in {"up", "offline"}
      /\ \A e \in Doing, j \in Item : StepOrder[e] < StepOrder["commit"] => ~Ahead(e, j)
  BY <1>1, OnTheWay
<1>7. \A i \in Item : ~Ahead("aside", i) /\ ~Ahead("in", i)
  BY <1>6, StepsAre
<1>8. RestoreTypeOK' /\ Older'
  <2>1. disk' \in [Item -> Content] /\ moved' \subseteq Item /\ botched' \in BOOLEAN /\ restores \in Nat
    BY <1>1, <1>2 DEF RestoreTypeOK
  <2>2. \A i \in Item : disk'[i].of <= restores /\ aside'[i].of <= restores
    <3>1. Absent.of <= restores
      BY <2>1, AbsentIsContent
    <3> QED BY <1>1, <1>2, <1>3, <3>1 DEF Older
  <2> QED BY <1>1, <1>3, <1>4, <1>5, <2>1, <2>2, MoveKeepsTypes
<1>9. Swapped'
  <2>1. /\ \A i \in Item \ staged : Kept(i) /\ i \notin moved
        /\ \A i \in staged :
             /\ i \in moved /\ Replaced(i)
             /\ Ahead("commit", i) => Beside(i)
    BY <1>2, <1>6, <1>7 DEF RestoreInv, Swapped
  <2>2. \A i \in Item : Kept(i)' = Kept(i) /\ Replaced(i)' = Replaced(i)
    BY <1>1, <1>4 DEF OthersStay, Kept, Replaced, IsOriginal
  <2>3. \A i \in Item : ~Ahead("aside", i)' /\ (Ahead("commit", i)' => Ahead("commit", i) /\ i # Of)
    BY <1>5, <1>7
  <2>4. \A i \in staged : Ahead("commit", i)' => Beside(i)'
    BY <1>2, <1>4, <2>1, <2>3, OthersAsTheyAre
  <2>5. UNCHANGED <<staged, moved>>
    BY <1>1, <1>4 DEF OthersStay
  <2> QED BY <1>2, <2>1, <2>2, <2>3, <2>4, <2>5 DEF Swapped
<1>10. Undone' /\ Ended'
  BY <1>5, <1>6 DEF Undone, Ended
<1>11. Served'
  BY <1>1, <1>4, <1>5, <1>6 DEF RestoreInv, Served, Opened, OthersStay
<1> QED BY <1>5, <1>8, <1>9, <1>10, <1>11 DEF RestoreInv

\* While the items are put back, the stores are still to be opened, and the gate with them.
LEMMA WhilePuttingBack ==
  ASSUME RestoreInv, NEW do \in {"remove", "back"}, IsNext(do), Takes, OthersStay, wal' = wal, moved' = moved
  PROVE  /\ InScript' /\ Swapped' /\ Ended' /\ Served' /\ plan' \subseteq Steps
         /\ Backward /\ Of \in moved /\ Of \in Item
         /\ \A e, j : Ahead(e, j)' <=> Ahead(e, j) /\ ~(e = do /\ j = Of)
         /\ Ahead("weigh", "root") /\ Ahead("back", Of) /\ (Ahead("remove", Of) <=> do = "remove")
<1>1. RestoreTypeOK /\ InScript /\ moved \subseteq Item
  BY DEF RestoreInv, RestoreTypeOK
<1>2. /\ Backward /\ ~Forward /\ plan \notin {{}, Once("refused")} /\ process \in {"up", "offline"}
      /\ Of \in Item /\ InRollback(do, Of, moved)
      /\ \A e \in Doing, j \in Item : StepOrder[do] < StepOrder[e] => (Ahead(e, j) <=> InRollback(e, j, moved))
  BY OnTheWayBack
<1>3. Of \in moved
  BY <1>2 DEF InRollback, InUndos, InReopened
<1>4. /\ InScript' /\ plan' \subseteq Steps /\ plan' \notin {{}, Once("refused")}
      /\ Forward' = Forward /\ Backward' = Backward
      /\ \A e, j : Ahead(e, j)' <=> Ahead(e, j) /\ ~(e = do /\ j = Of)
  BY <1>1, Taken DEF OthersStay
<1>5. Swapped' /\ Ended'
  BY <1>2, <1>4 DEF Swapped, Ended
<1>6. Ahead("weigh", "root")
  <2>1. InRollback("weigh", "root", moved)
    BY DEF InRollback, InUndos
  <2> QED BY <1>2, <2>1, StepsAre, StoreItems
<1>7. process = "up" => /\ Ahead("judge", "root") /\ Ahead("disengage", "root")
                        /\ \A s \in Stores : Ahead("resync", s)
  <2>1. ASSUME process = "up"
        PROVE  /\ InRollback("judge", "root", moved) /\ InRollback("disengage", "root", moved)
               /\ \A s \in Stores : InRollback("resync", s, moved)
    BY <2>1 DEF InRollback, InReopened
  <2> QED BY <1>2, <2>1, StepsAre, StoreItems
<1>8. Served'
  BY <1>2, <1>4, <1>7 DEF RestoreInv, Served, OthersStay
<1>9. Ahead("back", Of)
  <2>1. Ahead(do, Of)
    BY <1>1, NextStep DEF RestoreTypeOK
  <2> QED BY <1>1, <1>2, <2>1, BackIsLater
<1>10. Ahead("remove", Of) <=> do = "remove"
  <2>1. Ahead(do, Of) /\ \A e \in Doing, j \in Item : Ahead(e, j) => Due(On(do, Of)) <= Due(On(e, j))
    BY <1>1, NextStep DEF RestoreTypeOK
  <2>2. {"remove", "back"} \subseteq Doing
    BY StepsAre
  <2>3. Due(On("back", Of)) = Due(On("remove", Of)) + 1 /\ Due(On("remove", Of)) \in Nat
    BY <1>2, <2>2, DueIs, StepsAre DEF Second
  <2>4. CASE do = "back"
    <3>1. ~(Due(On("back", Of)) <= Due(On("remove", Of)))
      BY <2>3
    <3> QED BY <1>2, <2>1, <2>2, <2>4, <3>1
  <2> QED BY <2>1, <2>4
<1> QED BY <1>2, <1>3, <1>4, <1>5, <1>6, <1>8, <1>9, <1>10

LEMMA RemoveKeeps ==
  ASSUME RestoreInv, RemoveRestored
  PROVE  RestoreInv'
<1>1. /\ IsNext("remove") /\ Takes /\ disk' = [disk EXCEPT ![Of] = Absent]
      /\ UNCHANGED <<wal, aside, moved, botched>>
  BY DEF RemoveRestored, InPlace, Inside
<1>2. RestoreTypeOK /\ Older /\ Of \in Item
  BY <1>1, NextStep DEF RestoreInv, RestoreTypeOK
<1>3. /\ disk' \in [Item -> Content]
      /\ \A i \in Item : i # Of => disk'[i] = disk[i]
      /\ \A i \in Item : i = Of => disk'[i] = Absent
  BY <1>1, <1>2, AbsentIsContent DEF RestoreTypeOK
<1>4. OthersStay
  BY <1>1, <1>3 DEF OthersStay, RemoveRestored, InPlace, Inside
<1>5. /\ InScript' /\ Swapped' /\ Ended' /\ Served' /\ plan' \subseteq Steps
      /\ Backward
      /\ \A e, j : Ahead(e, j)' <=> Ahead(e, j) /\ ~(e = "remove" /\ j = Of)
      /\ Ahead("back", Of)
  BY <1>1, <1>4, WhilePuttingBack
<1>6. RestoreTypeOK' /\ Older'
  <2>1. aside' \in [Item -> Content] /\ moved' \subseteq Item /\ botched' \in BOOLEAN /\ restores \in Nat
    BY <1>1, <1>2 DEF RestoreTypeOK
  <2>2. \A i \in Item : disk'[i].of <= restores /\ aside'[i].of <= restores
    <3>1. Absent.of <= restores
      BY <2>1, AbsentIsContent
    <3> QED BY <1>1, <1>2, <1>3, <3>1 DEF Older
  <2> QED BY <1>1, <1>3, <1>4, <1>5, <2>1, <2>2, MoveKeepsTypes
<1>7. \A i \in Item : Beside(i)' = Beside(i)
  BY <1>1, <1>4 DEF OthersStay, Beside, IsOriginal
<1>8. Undone'
  <2>1. SUFFICES ASSUME NEW i \in Item
                 PROVE  IF Ahead("back", i)' THEN Beside(i)' /\ (~Ahead("remove", i)' => disk'[i].of = -1)
                        ELSE Kept(i)' \/ (Ahead("weigh", "root")' /\ botched' /\ Beside(i)')
    BY DEF Undone
  <2>2. IF Ahead("back", i) THEN Beside(i) /\ (~Ahead("remove", i) => disk[i].of = -1)
        ELSE Kept(i) \/ (Ahead("weigh", "root") /\ botched /\ Beside(i))
    BY <1>5 DEF RestoreInv, Undone
  <2>3. (Ahead("back", i)' <=> Ahead("back", i)) /\ (Ahead("weigh", "root")' <=> Ahead("weigh", "root"))
    BY <1>5
  <2>4. CASE i = Of
    <3>1. Ahead("back", i) /\ disk'[i].of = -1
      BY <1>3, <1>5, <2>4, AbsentIsContent
    <3> QED BY <1>7, <2>2, <2>3, <3>1
  <2>5. CASE i # Of
    <3>1. disk'[i] = disk[i] /\ Kept(i)' = Kept(i) /\ (Ahead("remove", i)' <=> Ahead("remove", i))
      BY <1>2, <1>3, <1>4, <1>5, <2>5, OthersAsTheyAre
    <3> QED BY <1>1, <1>7, <2>2, <2>3, <3>1
  <2> QED BY <2>4, <2>5
<1> QED BY <1>5, <1>6, <1>8 DEF RestoreInv

LEMMA MoveBackKeeps ==
  ASSUME RestoreInv, MoveBack
  PROVE  RestoreInv'
<1>1. /\ IsNext("back") /\ Takes /\ wal' = wal /\ moved' = moved
      /\ \/ aside[Of] = Absent /\ UNCHANGED <<disk, aside, botched>>
         \/ botched' = TRUE /\ UNCHANGED <<disk, aside>>
         \/ /\ aside[Of] # Absent /\ botched' = botched
            /\ disk' = [disk EXCEPT ![Of] = aside[Of]] /\ aside' = [aside EXCEPT ![Of] = Absent]
  BY DEF MoveBack, Inside
<1>2. RestoreTypeOK /\ Older /\ Of \in Item /\ restores \in Nat
  BY <1>1, NextStep DEF RestoreInv, RestoreTypeOK
<1>3. /\ disk' \in [Item -> Content] /\ aside' \in [Item -> Content] /\ botched' \in BOOLEAN
      /\ \A i \in Item : i # Of => disk'[i] = disk[i] /\ aside'[i] = aside[i]
      /\ \A i \in Item : i = Of =>
           \/ aside[i] = Absent /\ disk'[i] = disk[i] /\ aside'[i] = aside[i]
           \/ botched' = TRUE /\ disk'[i] = disk[i] /\ aside'[i] = aside[i]
           \/ aside[i] # Absent /\ disk'[i] = aside[i] /\ aside'[i] = Absent
      /\ botched => botched'
  <2>1. /\ disk \in [Item -> Content] /\ aside \in [Item -> Content] /\ botched \in BOOLEAN
    BY <1>2 DEF RestoreTypeOK
  <2>2. CASE aside[Of] = Absent /\ UNCHANGED <<disk, aside, botched>>
    BY <2>1, <2>2
  <2>3. CASE botched' = TRUE /\ UNCHANGED <<disk, aside>>
    BY <2>1, <2>3
  <2>4. CASE /\ aside[Of] # Absent /\ botched' = botched
             /\ disk' = [disk EXCEPT ![Of] = aside[Of]] /\ aside' = [aside EXCEPT ![Of] = Absent]
    BY <1>2, <2>1, <2>4, AbsentIsContent
  <2> QED BY <1>1, <2>2, <2>3, <2>4
<1>4. OthersStay
  BY <1>1, <1>3 DEF OthersStay, MoveBack, Inside
<1>5. /\ InScript' /\ Swapped' /\ Ended' /\ Served' /\ plan' \subseteq Steps
      /\ Backward /\ Ahead("weigh", "root") /\ Ahead("back", Of) /\ ~Ahead("remove", Of)
      /\ \A e, j : Ahead(e, j)' <=> Ahead(e, j) /\ ~(e = "back" /\ j = Of)
  BY <1>1, <1>4, WhilePuttingBack
<1>6. RestoreTypeOK' /\ Older'
  <2>1. moved' \subseteq Item
    BY <1>1, <1>2 DEF RestoreTypeOK
  <2>2. \A i \in Item : disk'[i].of <= restores /\ aside'[i].of <= restores
    <3>1. Absent.of <= restores
      BY <1>2, AbsentIsContent
    <3> QED BY <1>2, <1>3, <3>1 DEF Older
  <2> QED BY <1>1, <1>3, <1>4, <1>5, <2>1, <2>2, MoveKeepsTypes
<1>7. Undone'
  <2>1. SUFFICES ASSUME NEW i \in Item
                 PROVE  IF Ahead("back", i)' THEN Beside(i)' /\ (~Ahead("remove", i)' => disk'[i].of = -1)
                        ELSE Kept(i)' \/ (Ahead("weigh", "root")' /\ botched' /\ Beside(i)')
    BY DEF Undone
  <2>2. IF Ahead("back", i) THEN Beside(i) /\ (~Ahead("remove", i) => disk[i].of = -1)
        ELSE Kept(i) \/ (Ahead("weigh", "root") /\ botched /\ Beside(i))
    BY <1>5 DEF RestoreInv, Undone
  <2>3. Ahead("weigh", "root")'
    BY <1>5
  <2>4. CASE i = Of
    <3>1. Beside(i) /\ disk[i].of = -1 /\ ~Ahead("back", i)'
      BY <1>5, <2>2, <2>4
    <3>2. \A content : IsOriginal(i, content)' = IsOriginal(i, content)
      BY <1>2, <1>4, OthersAsTheyAre
    <3>3. before' = before
      BY <1>4 DEF OthersStay
    <3>4. CASE aside[i] = Absent /\ disk'[i] = disk[i] /\ aside'[i] = aside[i]
      <4>1. before[i] = Absent
        BY <3>1, <3>4 DEF Beside
      <4>2. Kept(i)'
        BY <3>1, <3>3, <3>4, <4>1 DEF Kept, IsOriginal
      <4> QED BY <3>1, <4>2
    <3>5. CASE botched' = TRUE /\ disk'[i] = disk[i] /\ aside'[i] = aside[i]
      <4>1. Beside(i)'
        <5>1. IF aside[i] = Absent THEN before[i] = Absent ELSE IsOriginal(i, aside[i])
          BY <3>1 DEF Beside
        <5>2. IsOriginal(i, aside[i]) => IsOriginal(i, aside[i])'
          BY <1>4, <3>5 DEF OthersStay, IsOriginal
        <5> QED BY <3>3, <3>5, <5>1, <5>2 DEF Beside
      <4> QED BY <2>3, <3>1, <3>5, <4>1
    <3>6. CASE aside[i] # Absent /\ disk'[i] = aside[i] /\ aside'[i] = Absent
      <4>1. IsOriginal(i, disk'[i])
        BY <3>1, <3>6 DEF Beside
      <4>2. Kept(i)'
        BY <1>4, <4>1 DEF OthersStay, Kept, IsOriginal
      <4> QED BY <3>1, <4>2
    <3> QED BY <1>3, <2>4, <3>4, <3>5, <3>6
  <2>5. CASE i # Of
    <3>1. /\ disk'[i] = disk[i] /\ Kept(i)' = Kept(i) /\ Beside(i)' = Beside(i)
          /\ (Ahead("remove", i)' <=> Ahead("remove", i)) /\ (Ahead("back", i)' <=> Ahead("back", i))
      BY <1>2, <1>3, <1>4, <1>5, <2>5, OthersAsTheyAre
    <3> QED BY <1>3, <2>2, <2>3, <3>1
  <2> QED BY <2>4, <2>5
<1> QED BY <1>5, <1>6, <1>7 DEF RestoreInv

-----------------------------------------------------------------------------
(* What holds throughout *)

LEMMA StutterKeeps ==
  ASSUME RestoreInv, UNCHANGED restoreVars
  PROVE  RestoreInv'
<1>1. UNCHANGED <<disk, wal, staged, aside, left, plan, moved, botched, open, brand, shut, process, status, restores, troubles, late, before, unmerged>>
  BY DEF restoreVars
<1>2. RestoreTypeOK' /\ Older'
  BY <1>1 DEF RestoreInv, RestoreTypeOK, Older
<1>3. InScript'
  BY <1>1 DEF RestoreInv, InScript, Forward, Backward, Ahead, Suffix, Live, Offline, Recovery, Rollback, Once, Reopened
<1>4. \A i : Kept(i)' = Kept(i) /\ Beside(i)' = Beside(i) /\ Replaced(i)' = Replaced(i)
  BY <1>1 DEF Kept, Beside, Replaced, IsOriginal
<1>5. \A e, j : Ahead(e, j)' = Ahead(e, j)
  BY <1>1 DEF Ahead
<1>6. Swapped' /\ Undone'
  BY <1>1, <1>4, <1>5 DEF RestoreInv, Swapped, Undone, Forward, Backward
<1>7. Ended'
  BY <1>1, <1>4 DEF RestoreInv, Ended, Safe, IsOriginal
<1>8. Served'
  BY <1>1, <1>5 DEF RestoreInv, Served, Opened, Forward, Backward
<1> QED BY <1>2, <1>3, <1>6, <1>7, <1>8 DEF RestoreInv

\* Throughout, and whatever fails: a restore is in one of its scripts, an item is as it was, has its
\* original beside it or has been replaced, as the steps that are left say, and so are the stores
\* and the gate (runFromZipPath, RestoreOffline, rollbackOrIntervene).
THEOREM RestoreInvariant == RestoreSpec => []RestoreInv
<1>1. RestoreInit => RestoreInv
  BY StartsWell
<1>2. RestoreInv /\ [RestoreNext]_restoreVars => RestoreInv'
  <2> SUFFICES ASSUME RestoreInv, [RestoreNext]_restoreVars
               PROVE  RestoreInv'
    OBVIOUS
  <2>1. ASSUME NEW i \in Writable, WriteItem(i)
        PROVE  RestoreInv'
    <3>1. i \in Item
      BY Items, LegacyRestoreAssumption DEF LegacyRestoreAssumption
    <3> QED BY <2>1, <3>1, WriteKeeps
  <2>2. CASE BootServer
    BY <2>2, BootKeeps
  <2>3. CASE HaltServer \/ KillServer
    <3>1. troubles \in Nat
      BY DEF RestoreInv, RestoreTypeOK
    <3>2. troubles' \in Nat
      <4>1. troubles' = troubles \/ troubles' = troubles + 1
        BY <2>3 DEF HaltServer, KillServer
      <4> QED BY <3>1, <4>1
    <3> QED BY <2>3, <3>2, HaltKeeps DEF HaltServer, KillServer
  <2>4. ASSUME NEW set \in SUBSET Item, BeginRestore(set)
        PROVE  RestoreInv'
    BY <2>4, BeginKeeps
  <2>5. CASE Validate
    <3>1. Takes \/ plan' = Once("refused")
      BY <2>5 DEF Validate
    <3> QED BY <2>5, <3>1, ValidateKeeps, ValidateRefuses
  <2>6. CASE EngageGate \/ SuspendStore \/ DisengageGate
    BY <2>6, EngageKeeps, SuspendKeeps, DisengageKeeps
  <2>7. CASE RemoveStaleWALSidecars \/ MoveAside \/ MoveIn \/ CommitItem
    BY <2>7, WALKeeps, MoveAsideKeeps, MoveInKeeps, CommitKeeps
  <2>8. CASE ReplaceStore \/ ReloadBranding \/ ReloadPublicAccess
    BY <2>8, ReplaceKeeps, ReloadKeeps
  <2>9. CASE RemoveRestored \/ MoveBack
    BY <2>9, RemoveKeeps, MoveBackKeeps
  <2>10. CASE Judge \/ FinishRestore
    BY <2>10, JudgeKeeps, FinishKeeps
  <2>11. CASE FailBeforeSwap \/ FailSwapping \/ FailCleaning \/ FailBack
    BY <2>11, FailBeforeKeeps, FailSwappingKeeps, FailCleaningKeeps, FailBackKeeps
  <2>12. CASE UNCHANGED restoreVars
    BY <2>12, StutterKeeps
  <2> QED BY <2>1, <2>2, <2>3, <2>4, <2>5, <2>6, <2>7, <2>8, <2>9, <2>10, <2>11, <2>12 DEF RestoreNext
<1> QED BY <1>1, <1>2, PTL DEF RestoreSpec

\* A restore that ended well has replaced what the snapshot holds and nothing else, one that failed
\* has put everything back, and then the gate is open and every store has what is on the disk
\* (runFromZipPath, RollbackAll, reopenAllStores).
THEOREM RestoresAreWhole == RestoreSpec => []RestoreIsWhole
<1>1. RestoreInv => RestoreIsWhole
  <2> SUFFICES ASSUME RestoreInv, plan = {}, status \in {"restored", "failed", "refused"}
               PROVE  /\ \A i \in Item : IF status = "restored" /\ i \in staged THEN disk[i].of = restores ELSE IsOriginal(i, disk[i])
                      /\ process = "up" => ~shut /\ open = [s \in Stores |-> disk[s]]
                      /\ process = "up" /\ status = "restored" => brand = disk["branding"]
    BY DEF RestoreIsWhole
  <2>1. \A i \in Item : IF status = "restored" /\ i \in staged THEN disk[i].of = restores ELSE IsOriginal(i, disk[i])
    BY DEF RestoreInv, Ended, Replaced, Kept
  <2>2. process = "up" => ~shut /\ \A s \in Stores : open[s] = disk[s]
    BY DEF RestoreInv, Served, Opened
  <2>3. open \in [Stores -> Content]
    BY DEF RestoreInv, RestoreTypeOK
  <2>4. process = "up" => open = [s \in Stores |-> disk[s]]
    BY <2>2, <2>3
  <2>5. process = "up" /\ status = "restored" => brand = disk["branding"]
    BY DEF RestoreInv, Served
  <2> QED BY <2>1, <2>2, <2>4, <2>5
<1> QED BY <1>1, RestoreInvariant, PTL

\* At every moment, and so wherever the process stops, the original of each item is in its place or
\* beside it, or all that replaces it is in place (SwapAll, RollbackAll, CommitAll).
THEOREM OriginalsStay == RestoreSpec => []OriginalsAreKept
<1>1. RestoreInv => OriginalsAreKept
  BY AlwaysSafe DEF Safe, Replaced, OriginalsAreKept
<1> QED BY <1>1, RestoreInvariant, PTL

==============================================================================
