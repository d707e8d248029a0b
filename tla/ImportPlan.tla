----------------------------- MODULE ImportPlan -----------------------------
(***************************************************************************)
(* The import of an uploaded archive: one stored plan, the requests that   *)
(* replace, start, cancel and clear it, the execution in a goroutine of    *)
(* its own, and its resumption when the process has been restarted.        *)
(*                                                                         *)
(* The plan store keeps the plan in memory and in a file and guards both   *)
(* with one mutex; what a request or an execution does between two calls   *)
(* of the store is a step of its own.  Users edit pages meanwhile.  The    *)
(* version of the tree stands for its hash, which every write changes.     *)
(***************************************************************************)
EXTENDS Integers, Sequences, FiniteSets

CONSTANTS Place,       \* the paths of pages
          Items,       \* where each file of the archive goes: a sequence of places
          Edited,      \* the places users write
          Request,     \* requests that replace or clear the plan
          NoPlan, NoPage,
          MaxUploads, MaxRuns, MaxEdits, MaxFaults,
          Spent        \* what of these bounds may be spent at the start

ASSUME ImportAssumption ==
  /\ Items \in Seq(Place) /\ Edited \subseteq Place
  /\ {MaxUploads, MaxRuns, MaxEdits, MaxFaults} \subseteq Nat
  /\ Spent \subseteq [uploads : Nat, runs : Nat, edits : Nat, faults : Nat]

Run == 1..MaxRuns
Upload == 1..MaxUploads
Size == Len(Items)

VARIABLES plan,     \* the plan in memory
          saved,    \* the plan in the state file
          broken,   \* the state is unavailable: the file could not be written
          dirs,     \* the workspaces that exist, each named by its upload
          version,  \* the hash of the tree
          at,       \* the page at each place
          reqs,     \* what each request is about to do
          jobs,     \* the executions, by run
          counts,   \* uploads, runs, edits and faults so far
          written,  \* observer: what was imported since a plan was last started
          before    \* observer: the places that had a page when it was started

planVars == <<plan, saved, broken>>
treeVars == <<version, at>>
seen == <<written, before>>
importVars == <<plan, saved, broken, dirs, version, at, reqs, jobs, counts, written, before>>

NoResult == [items |-> <<>>, hash |-> 0]
Idle == [pc |-> "idle", id |-> 0, old |-> 0, base |-> 0, todo |-> <<>>]
NoJob == [pc |-> "none", id |-> 0, todo |-> <<>>, base |-> 0, next |-> 1,
          result |-> NoResult, page |-> NoPage, ends |-> "none"]

Status == {"planned", "running", "completed", "failed", "canceled"}
StoredPlan ==
  [id : Upload, base : Nat, todo : [1..Size -> {"create", "skip"}], status : Status,
   cancel : BOOLEAN, processed : 0..Size, result : [items : Seq({"created", "skipped"}), hash : Nat]]

Count(c) == counts' = [counts EXCEPT ![c] = @ + 1]
Is(status) == plan # NoPlan /\ plan.status = status
Stored(id) == plan # NoPlan /\ plan.id = id

-----------------------------------------------------------------------------
(* The plan store.  Each call holds the mutex from end to end, and a failure to *)
(* write the file makes all later calls fail until the process is restarted.    *)

Persists(new) == plan' = new /\ saved' = new /\ UNCHANGED broken
PersistFails(new) == plan' = new /\ broken' = TRUE /\ UNCHANGED saved

MayFail == counts.faults < MaxFaults

\* Mutant: the progress of a plan that was replaced is stored with the new one.
ProgressOfAny(id, processed, result) ==
  IF broken \/ plan = NoPlan THEN UNCHANGED <<planVars, counts>>
  ELSE Persists([plan EXCEPT !.processed = processed, !.result = result]) /\ UNCHANGED counts

\* UpdateExecutionProgress: of the plan that was replaced, nothing is stored.
Progress(id, processed, result) ==
  LET new == [plan EXCEPT !.processed = processed, !.result = result] IN
  IF broken \/ ~Stored(id) THEN UNCHANGED <<planVars, counts>>
  ELSE \/ Persists(new) /\ UNCHANGED counts
       \/ MayFail /\ PersistFails(new) /\ Count("faults")

-----------------------------------------------------------------------------
(* Requests *)

To(c, pc) == reqs' = [reqs EXCEPT ![c].pc = pc]
Done(c) == reqs' = [reqs EXCEPT ![c] = Idle]
Cleanup(id) == dirs' = dirs \ {id}
AtPc(c, pc) == reqs[c].pc = pc

\* CreateImportPlanFromZipUpload extracts the archive first.
UploadArchive(c) ==
  /\ AtPc(c, "idle") /\ counts.uploads < MaxUploads
  /\ Count("uploads")
  /\ dirs' = dirs \cup {counts.uploads + 1}
  /\ reqs' = [reqs EXCEPT ![c] = [Idle EXCEPT !.pc = "check", !.id = counts.uploads + 1]]
  /\ UNCHANGED <<planVars, treeVars, jobs, seen>>

\* The plan there is, unless it is running, loses its workspace and is cleared.
CheckOld(c) ==
  /\ AtPc(c, "check")
  /\ IF broken \/ plan = NoPlan
     THEN To(c, IF reqs[c].id = 0 THEN "clear" ELSE "hash") /\ UNCHANGED dirs
     ELSE IF plan.status = "running"
     THEN Done(c) /\ Cleanup(reqs[c].id)
     ELSE /\ reqs' = [reqs EXCEPT ![c].pc = "remove", ![c].old = plan.id]
          /\ UNCHANGED dirs
  /\ UNCHANGED <<planVars, treeVars, jobs, counts, seen>>

RemoveOld(c) ==
  /\ AtPc(c, "remove")
  /\ Cleanup(reqs[c].old) /\ To(c, "clear")
  /\ UNCHANGED <<planVars, treeVars, jobs, counts, seen>>

\* The request goes on with its own archive, when it has one.
Clear(c) ==
  /\ AtPc(c, "clear")
  /\ \/ /\ ~broken /\ Persists(NoPlan)
        /\ IF reqs[c].id = 0 THEN Done(c) ELSE To(c, "hash")
        /\ UNCHANGED <<dirs, counts>>
     \/ /\ IF broken THEN UNCHANGED <<planVars, counts>>
           ELSE MayFail /\ PersistFails(NoPlan) /\ Count("faults")
        /\ Done(c) /\ Cleanup(reqs[c].id)
  /\ UNCHANGED <<treeVars, jobs, seen>>

\* CreatePlan reads the hash, then looks up where each file goes.
ReadHash(c) ==
  /\ AtPc(c, "hash")
  /\ reqs' = [reqs EXCEPT ![c].pc = "lookup", ![c].base = version]
  /\ UNCHANGED <<planVars, dirs, treeVars, jobs, counts, seen>>

LookupTargets(c) ==
  /\ AtPc(c, "lookup")
  /\ reqs' = [reqs EXCEPT ![c].pc = "set",
       ![c].todo = [i \in 1..Size |-> IF at[Items[i]] = NoPage THEN "create" ELSE "skip"]]
  /\ UNCHANGED <<planVars, dirs, treeVars, jobs, counts, seen>>

Planned(r) ==
  [id |-> r.id, base |-> r.base, todo |-> r.todo, status |-> "planned", cancel |-> FALSE,
   processed |-> 0, result |-> NoResult]

SetPlan(c) ==
  /\ AtPc(c, "set")
  /\ \/ ~broken /\ Persists(Planned(reqs[c])) /\ UNCHANGED <<dirs, counts>>
     \/ /\ IF broken THEN UNCHANGED <<planVars, counts>>
           ELSE MayFail /\ PersistFails(Planned(reqs[c])) /\ Count("faults")
        /\ Cleanup(reqs[c].id)
  /\ Done(c)
  /\ UNCHANGED <<treeVars, jobs, seen>>

\* ClearImportPlanUseCase: of a running plan the cancellation is requested, and
\* any other plan is cleared.
RequestCancel(c) ==
  /\ AtPc(c, "idle") /\ ~broken
  /\ IF Is("running")
     THEN /\ ~plan.cancel /\ UNCHANGED reqs
          /\ LET new == [plan EXCEPT !.cancel = TRUE] IN
             \/ Persists(new) /\ UNCHANGED counts
             \/ MayFail /\ PersistFails(new) /\ Count("faults")
     ELSE reqs' = [reqs EXCEPT ![c] = [Idle EXCEPT !.pc = "check"]] /\ UNCHANGED <<planVars, counts>>
  /\ UNCHANGED <<dirs, treeVars, jobs, seen>>

\* TryStartExecution: a plan that has failed or was canceled starts again, from its
\* first item.  The execution works on the copy it is given.
StartExecution ==
  /\ ~broken /\ plan # NoPlan /\ plan.status \notin {"running", "completed"}
  /\ counts.runs < MaxRuns
  /\ LET new == [plan EXCEPT !.status = "running", !.cancel = FALSE, !.processed = 0,
                             !.result = NoResult]
     IN \/ /\ Persists(new) /\ Count("runs")
           /\ jobs' = [jobs EXCEPT ![counts.runs + 1] =
                         [NoJob EXCEPT !.pc = "begin", !.id = plan.id, !.todo = plan.todo,
                                       !.base = plan.base]]
           /\ written' = {w \in written : w[1] # plan.id}
        \/ /\ MayFail /\ PersistFails(new) /\ Count("faults")
           /\ UNCHANGED <<jobs, written>>
  /\ UNCHANGED <<dirs, treeVars, reqs, before>>

-----------------------------------------------------------------------------
(* The execution *)

Job(r, pc) == jobs[r].pc = pc
Ends(r, how, result) == jobs' = [jobs EXCEPT ![r].pc = "finish", ![r].ends = how, ![r].result = result]
Occupied == {p \in Place : at[p] # NoPage}

\* Mutant: a resumed execution does not check the tree.
ExpectedAtStart(j) == IF j.next > 1 THEN version ELSE j.base

\* The tree must be as it was when the plan was made, or when the last item of a
\* resumed execution was recorded.
Expected(j) == IF j.next > 1 THEN j.result.hash ELSE j.base

Begin(r) ==
  /\ Job(r, "begin")
  /\ IF Expected(jobs[r]) # version
     THEN Ends(r, "failed", NoResult) /\ UNCHANGED <<planVars, counts, before>>
     ELSE /\ jobs' = [jobs EXCEPT ![r].pc = "item"]
          /\ before' = IF jobs[r].next = 1 THEN [before EXCEPT ![jobs[r].id] = Occupied] ELSE before
          /\ Progress(jobs[r].id, jobs[r].next - 1, jobs[r].result)
  /\ UNCHANGED <<dirs, treeVars, reqs, written>>

NextItem(r) ==
  /\ Job(r, "item") /\ jobs[r].next <= Size
  /\ LET j == jobs[r] IN
     IF Stored(j.id) /\ plan.cancel
     THEN Ends(r, "canceled", j.result) /\ UNCHANGED <<planVars, counts>>
     ELSE /\ jobs' = [jobs EXCEPT ![r].pc = IF j.todo[j.next] = "create" THEN "ensure" ELSE "note",
                                  ![r].page = NoPage]
          /\ Progress(j.id, j.next - 1, j.result)
  /\ UNCHANGED <<dirs, treeVars, reqs, seen>>

\* An item that fails is in the result, which is stored with the next item.
Skips(r) ==
  jobs' = [jobs EXCEPT ![r].pc = "item", ![r].next = @ + 1,
                       ![r].result.items = Append(@, "skipped")]

Touched == version' = version + 1

EnsurePath(r) ==
  /\ Job(r, "ensure")
  /\ LET p == Items[jobs[r].next]
         new == [born |-> version + 1, text |-> "empty"]
     IN \/ Skips(r) /\ UNCHANGED treeVars
        \/ /\ IF at[p] = NoPage THEN Touched /\ at' = [at EXCEPT ![p] = new] ELSE UNCHANGED treeVars
           /\ jobs' = [jobs EXCEPT ![r].pc = "write", ![r].page = at'[p].born]
  /\ UNCHANGED <<planVars, dirs, reqs, counts, seen>>

\* The file is read from the workspace and the page updated, whatever it says by
\* now: the version that is checked is read just before.  The item is skipped when
\* its file or its page is gone, and when any step of this fails.
WritePage(r) ==
  /\ Job(r, "write")
  /\ LET j == jobs[r]
         p == Items[j.next]
     IN \/ /\ j.id \in dirs /\ at[p] # NoPage /\ at[p].born = j.page
           /\ Touched /\ at' = [at EXCEPT ![p].text = "imported"]
           /\ jobs' = [jobs EXCEPT ![r].pc = "note"]
           /\ written' = written \cup {<<j.id, j.next>>}
        \/ Skips(r) /\ UNCHANGED <<treeVars, written>>
  /\ UNCHANGED <<planVars, dirs, reqs, counts, before>>

NoteItem(r) ==
  /\ Job(r, "note")
  /\ LET j == jobs[r]
         result == [items |-> Append(j.result.items, IF j.page = NoPage THEN "skipped" ELSE "created"),
                    hash |-> version]
     IN /\ jobs' = [jobs EXCEPT ![r].pc = "item", ![r].next = @ + 1, ![r].result = result]
        /\ Progress(j.id, j.next, result)
  /\ UNCHANGED <<dirs, treeVars, reqs, seen>>

AllDone(r) ==
  /\ Job(r, "item") /\ jobs[r].next > Size
  /\ LET result == [jobs[r].result EXCEPT !.hash = version] IN
     /\ Ends(r, "completed", result)
     /\ Progress(jobs[r].id, Size, result)
  /\ UNCHANGED <<dirs, treeVars, reqs, seen>>

Finished(j) ==
  [plan EXCEPT !.status = j.ends, !.cancel = FALSE, !.result = j.result,
               !.processed = IF j.ends = "completed" THEN Size ELSE @]

\* FinishExecution; an execution that cannot store its end leaves its workspace.
Finish(r) ==
  /\ Job(r, "finish")
  /\ LET goes(pc) == jobs' = [jobs EXCEPT ![r] = IF pc = "none" THEN NoJob ELSE [@ EXCEPT !.pc = pc]] IN
     IF broken THEN goes("none") /\ UNCHANGED <<planVars, counts>>
     ELSE IF ~Stored(jobs[r].id) THEN goes("cleanup") /\ UNCHANGED <<planVars, counts>>
     ELSE \/ Persists(Finished(jobs[r])) /\ goes("cleanup") /\ UNCHANGED counts
          \/ MayFail /\ PersistFails(Finished(jobs[r])) /\ goes("none") /\ Count("faults")
  /\ UNCHANGED <<dirs, treeVars, reqs, seen>>

CleanupWorkspace(r) ==
  /\ Job(r, "cleanup")
  /\ Cleanup(jobs[r].id)
  /\ jobs' = [jobs EXCEPT ![r] = NoJob]
  /\ UNCHANGED <<planVars, treeVars, reqs, counts, seen>>

-----------------------------------------------------------------------------
(* Users, and the process *)

UserWrites(p) ==
  /\ counts.edits < MaxEdits /\ Count("edits") /\ Touched
  /\ at' = [at EXCEPT ![p] = [born |-> IF at[p] = NoPage THEN version + 1 ELSE at[p].born,
                              text |-> "user"]]
  /\ UNCHANGED <<planVars, dirs, reqs, jobs, seen>>

UserDeletes(p) ==
  /\ counts.edits < MaxEdits /\ at[p] # NoPage /\ Count("edits") /\ Touched
  /\ at' = [at EXCEPT ![p] = NoPage]
  /\ UNCHANGED <<planVars, dirs, reqs, jobs, seen>>

Resumed(p) ==
  [NoJob EXCEPT !.pc = "begin", !.id = p.id, !.todo = p.todo, !.base = p.base,
                !.next = p.processed + 1, !.result = p.result]

\* Mutant: a running plan waits for a start that it refuses.
RestartIdle ==
  /\ MayFail
  /\ plan' = saved /\ broken' = FALSE
  /\ reqs' = [c \in Request |-> Idle] /\ jobs' = [r \in Run |-> NoJob]
  /\ Count("faults")
  /\ UNCHANGED <<saved, dirs, treeVars, seen>>

\* The process is gone, or is restarted because its state is unavailable: the file is
\* loaded, and a plan that was running is resumed.
Restart ==
  /\ MayFail
  /\ plan' = saved /\ broken' = FALSE
  /\ reqs' = [c \in Request |-> Idle]
  /\ LET resumes == saved # NoPlan /\ saved.status = "running" IN
     /\ resumes => counts.runs < MaxRuns
     /\ jobs' = [r \in Run |-> IF resumes /\ r = counts.runs + 1 THEN Resumed(saved) ELSE NoJob]
     /\ counts' = [counts EXCEPT !.faults = @ + 1, !.runs = IF resumes THEN @ + 1 ELSE @]
  /\ UNCHANGED <<saved, dirs, treeVars, seen>>

-----------------------------------------------------------------------------
ImportInit ==
  /\ plan = NoPlan /\ saved = NoPlan /\ broken = FALSE
  /\ dirs = {} /\ version = 1 /\ at = [p \in Place |-> NoPage]
  /\ reqs = [c \in Request |-> Idle] /\ jobs = [r \in Run |-> NoJob]
  /\ counts \in Spent
  /\ written = {} /\ before = [id \in Upload |-> {}]

RequestStep(c) ==
  \/ UploadArchive(c) \/ CheckOld(c) \/ RemoveOld(c) \/ Clear(c) \/ ReadHash(c)
  \/ LookupTargets(c) \/ SetPlan(c) \/ RequestCancel(c)

JobStep(r) ==
  \/ Begin(r) \/ NextItem(r) \/ EnsurePath(r) \/ WritePage(r) \/ NoteItem(r)
  \/ AllDone(r) \/ Finish(r) \/ CleanupWorkspace(r)

ImportNext ==
  \/ \E c \in Request : RequestStep(c)
  \/ StartExecution
  \/ \E r \in Run : JobStep(r)
  \/ \E p \in Edited : UserWrites(p) \/ UserDeletes(p)
  \/ Restart

\* The goroutine of an execution is scheduled.
ImportFairness == \A r \in Run : WF_importVars(JobStep(r))

ImportSpec == ImportInit /\ [][ImportNext]_importVars /\ ImportFairness

-----------------------------------------------------------------------------
(* Properties *)

\* The result that is stored accounts for each item exactly once and in order,
\* whether the execution was interrupted and resumed or the plan was replaced while
\* another was executed: as many as were processed while it runs, all of them when
\* it is completed.  An item is only recorded as created if it was to be.
OutcomesComplete ==
  plan # NoPlan =>
    LET done == Len(plan.result.items) IN
    /\ plan.status = "running" => done = plan.processed
    /\ plan.status = "completed" => done = Size
    /\ plan.status = "canceled" => done \in {plan.processed, plan.processed + 1}
    /\ \A i \in 1..done : plan.result.items[i] = "created" => plan.todo[i] = "create"

\* An execution, interrupted and resumed or not, writes an item at most once from one start of
\* the plan to the next, and never over a page that a user had when it was started: what was
\* looked up when the plan was made still holds, or the plan is stale.  Pages that users create
\* while it runs are not protected.
WritesAreFresh ==
  [][\A r \in Run : jobs[r].pc = "write" /\ jobs'[r].pc = "note" =>
       LET p == Items[jobs[r].next] IN
       /\ <<jobs[r].id, jobs[r].next>> \notin written
       /\ p \in before[jobs[r].id] => at[p].text # "user"]_importVars

\* A plan that was started is completed, canceled, failed or replaced in the end,
\* also when the process is restarted, unless its state cannot be stored.
ImportEnds == Is("running") ~> broken \/ ~Is("running")
=============================================================================
