------------------------------ MODULE WriteGate ------------------------------
(***************************************************************************)
(* restore.WriteGate and the HTTP middleware that puts every mutating      *)
(* request through it.                                                     *)
(*                                                                         *)
(* A PostgreSQL backup or restore calls Freeze: it takes the operation     *)
(* mutex with TryLock, engages the gate, and polls the in-flight counter   *)
(* until it reads zero or its timer fires.  Every call that takes the      *)
(* gate's mutex is one step here, and so is every atomic access to the     *)
(* counter; a request or another operation may act between any two.        *)
(***************************************************************************)
EXTENDS Naturals, FiniteSets

CONSTANTS Request,    \* concurrent mutating HTTP requests
          Exempt,     \* those whose path the middleware lets through
          Operation,  \* the callers of Freeze: a snapshot, a restore
          NoOp        \* nobody holds the operation mutex

ASSUME GateAssumption ==
  /\ IsFiniteSet(Request)
  /\ Exempt \subseteq Request
  /\ NoOp \notin Operation

VARIABLES holder,     \* who holds the mutex WriteGate.operation
          engaged,    \* WriteGate.engaged
          inflight,   \* WriteGate.inflight
          request,    \* for each request: "out", or "in" while its handler runs
          freeze      \* for each operation: where it is in Freeze

gateVars == <<holder, engaged, inflight, request, freeze>>

Gated == Request \ Exempt

\* The gated requests whose handlers are running.
ActiveRequests == {r \in Gated : request[r] = "in"}

FreezeStep == {"idle", "locked", "engaging", "draining", "frozen", "unlocking"}

GateTypeOK ==
  /\ holder \in Operation \cup {NoOp}
  /\ engaged \in BOOLEAN
  /\ inflight \in Nat
  /\ request \in [Request -> {"out", "in"}]
  /\ freeze \in [Operation -> FreezeStep]

\* NewWriteGate
GateInit ==
  /\ holder = NoOp
  /\ engaged = FALSE
  /\ inflight = 0
  /\ request = [r \in Request |-> "out"]
  /\ freeze = [o \in Operation |-> "idle"]

-----------------------------------------------------------------------------
(* The middleware *)

\* Mutant: the flag is not looked at under the mutex.
TryEnterUnchecked(r) ==
  /\ r \in Gated
  /\ request[r] = "out"
  /\ inflight' = inflight + 1
  /\ request' = [request EXCEPT ![r] = "in"]
  /\ UNCHANGED <<holder, engaged, freeze>>

\* TryEnter succeeds: the check and the increment are under one mutex.  A
\* refused request (503) changes nothing.
TryEnter(r) ==
  /\ r \in Gated
  /\ request[r] = "out"
  /\ ~engaged
  /\ inflight' = inflight + 1
  /\ request' = [request EXCEPT ![r] = "in"]
  /\ UNCHANGED <<holder, engaged, freeze>>

\* The deferred leave(): an atomic decrement, taken without the mutex.
Leave(r) ==
  /\ r \in Gated
  /\ request[r] = "in"
  /\ inflight' = inflight - 1
  /\ request' = [request EXCEPT ![r] = "out"]
  /\ UNCHANGED <<holder, engaged, freeze>>

\* isExemptPath: the handler runs without the gate, engaged or not.
BypassGate(r) ==
  /\ r \in Exempt
  /\ request' = [request EXCEPT ![r] = IF @ = "out" THEN "in" ELSE "out"]
  /\ UNCHANGED <<holder, engaged, inflight, freeze>>

-----------------------------------------------------------------------------
(* Freeze *)

\* operation.TryLock succeeds.  A failed TryLock returns an error.
TryLock(o) ==
  /\ freeze[o] = "idle"
  /\ holder = NoOp
  /\ holder' = o
  /\ freeze' = [freeze EXCEPT ![o] = "locked"]
  /\ UNCHANGED <<engaged, inflight, request>>

\* The call of Engaged(): an engaged gate makes Freeze unlock and fail.
CheckEngaged(o) ==
  /\ freeze[o] = "locked"
  /\ freeze' = [freeze EXCEPT ![o] = IF engaged THEN "unlocking" ELSE "engaging"]
  /\ UNCHANGED <<holder, engaged, inflight, request>>

Engage(o) ==
  /\ freeze[o] = "engaging"
  /\ engaged' = TRUE
  /\ freeze' = [freeze EXCEPT ![o] = "draining"]
  /\ UNCHANGED <<holder, inflight, request>>

\* Mutant: the poll ends the drain whatever it reads.
DrainedAnyway(o) ==
  /\ freeze[o] = "draining"
  /\ freeze' = [freeze EXCEPT ![o] = "frozen"]
  /\ UNCHANGED <<holder, engaged, inflight, request>>

\* The poll reads zero and Freeze returns its release function.
Drained(o) ==
  /\ freeze[o] = "draining"
  /\ inflight = 0
  /\ freeze' = [freeze EXCEPT ![o] = "frozen"]
  /\ UNCHANGED <<holder, engaged, inflight, request>>

\* The timer fires or the context ends after a poll that read nonzero; the
\* last request may leave in between.
GiveUp(o) ==
  /\ freeze[o] = "draining"
  /\ engaged' = FALSE
  /\ freeze' = [freeze EXCEPT ![o] = "unlocking"]
  /\ UNCHANGED <<holder, inflight, request>>

\* The release function: Disengage, then Unlock, at most once.
Release(o) ==
  /\ freeze[o] = "frozen"
  /\ engaged' = FALSE
  /\ freeze' = [freeze EXCEPT ![o] = "unlocking"]
  /\ UNCHANGED <<holder, inflight, request>>

\* Mutant: the mutex is never unlocked.
UnlockForgotten(o) ==
  /\ freeze[o] = "unlocking"
  /\ freeze' = [freeze EXCEPT ![o] = "idle"]
  /\ UNCHANGED <<holder, engaged, inflight, request>>

Unlock(o) ==
  /\ freeze[o] = "unlocking"
  /\ holder' = NoOp
  /\ freeze' = [freeze EXCEPT ![o] = "idle"]
  /\ UNCHANGED <<engaged, inflight, request>>

-----------------------------------------------------------------------------
RequestStep(r) == TryEnter(r) \/ Leave(r) \/ BypassGate(r)

OperationStep(o) ==
  \/ TryLock(o) \/ CheckEngaged(o) \/ Engage(o) \/ Drained(o)
  \/ GiveUp(o) \/ Release(o) \/ Unlock(o)

GateNext ==
  \/ \E r \in Request : RequestStep(r)
  \/ \E o \in Operation : OperationStep(o)

\* A goroutine inside Freeze keeps running, and its timer fires even when a
\* request never leaves.  Nothing forces a request to leave or an operation
\* to start.
GateFairness ==
  \A o \in Operation :
    /\ WF_gateVars(CheckEngaged(o) \/ Engage(o) \/ Unlock(o))
    /\ WF_gateVars(Drained(o) \/ GiveUp(o))

GateSpec == GateInit /\ [][GateNext]_gateVars /\ GateFairness

-----------------------------------------------------------------------------
(* Properties *)

\* When Freeze has returned, no gated handler is running and none can start
\* until release: backup and restore see no half-finished request.
FrozenMeansQuiet ==
  \A o \in Operation : freeze[o] = "frozen" =>
    /\ engaged
    /\ holder = o
    /\ ActiveRequests = {}

\* The gate never stays shut behind an operation that has gone: whenever it is
\* engaged, the holder of the operation mutex is the one that engaged it.
EngagedHasOwner ==
  engaged => \E o \in Operation : holder = o /\ freeze[o] \in {"draining", "frozen"}

\* Freeze always returns: a request that never leaves makes it fail, and
\* neither the gate nor the operation mutex is left behind.
FreezeReturns ==
  \A o \in Operation :
    freeze[o] = "locked" ~> \/ freeze[o] = "frozen"
                            \/ freeze[o] = "idle" /\ holder # o

\* The operation whose Freeze has returned and not been released.
FrozenBy == IF holder # NoOp /\ freeze[holder] = "frozen" THEN holder ELSE NoOp

Window ==
  INSTANCE ExclusiveWindow WITH active <- ActiveRequests, window <- FrozenBy

\* The gate implements the window that backup and restore rely on: a gated
\* request begins only outside it, and it opens for one operation at a time
\* when no gated request is left.
ImplementsWindow == Window!WSpec
=============================================================================
