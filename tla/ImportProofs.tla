---------------------------- MODULE ImportProofs ----------------------------
(***************************************************************************)
(* The import of an archive, for any archive, any requests, uploads, edits *)
(* and faults: the stored result accounts for each item, and an execution  *)
(* writes no item twice and none over a page of a user.  After it, what    *)
(* becomes of the links of the archive.                                    *)
(*                                                                         *)
(* The invariant has two halves.  While the store works, an execution      *)
(* whose plan is stored is the only one of its plan, and the plan says how *)
(* far it is.  Whatever becomes of the store, a plan was made of a tree    *)
(* that changes its hash with every write, so that what was looked up, or  *)
(* was written and not recorded, shows when the next execution begins.     *)
(***************************************************************************)
EXTENDS ImportPlan, ImportLinks, FiniteSetTheorems, SequenceTheorems, WellFoundedInduction, TLAPS

Result == [items : Seq({"created", "skipped"}), hash : Nat]
Live(j) == j.pc \notin {"none", "cleanup"}

\* What was looked up holds as long as the tree has the hash that was read before.
Looked(base, todo, v, tree) ==
  /\ base \in Nat /\ base <= v /\ todo \in [1..Size -> {"create", "skip"}]
  /\ base = v => \A i \in 1..Size : todo[i] = "create" => tree[Items[i]] = NoPage

\* A result records as created what was to be created.
Recorded(result, todo, v) ==
  /\ result \in Result /\ result.hash <= v
  /\ \A i \in 1..Len(result.items) : result.items[i] = "created" => todo[i] = "create"

PlanKept(p, v, tree, n) ==
  p # NoPlan =>
    /\ p \in StoredPlan /\ p.id <= n
    /\ Looked(p.base, p.todo, v, tree) /\ Recorded(p.result, p.todo, v)
    /\ p.status = "running" => Len(p.result.items) = p.processed
    /\ p.status = "completed" => Len(p.result.items) = Size
    /\ p.status = "canceled" => Len(p.result.items) \in {p.processed, p.processed + 1}

\* No item that is to be created had a page when the plan was started.
Free(todo, places) == \A i \in 1..Size : todo[i] = "create" => Items[i] \notin places

\* What the stored plan of a running execution promises to the one that resumes it: what was
\* written and is not recorded has changed the tree.
Resumable(p, wr, bef, v) ==
  p # NoPlan /\ p.status = "running" =>
    /\ \A w \in wr : w[1] = p.id =>
         w[2] <= p.processed \/ (IF p.processed > 0 THEN p.result.hash ELSE p.base) < v
    /\ p.processed > 0 => Free(p.todo, bef[p.id])

Fields(j) ==
  j = [pc |-> j.pc, id |-> j.id, todo |-> j.todo, base |-> j.base, next |-> j.next,
       result |-> j.result, page |-> j.page, ends |-> j.ends]

\* What an execution holds, whether its plan is still stored or not
JobKept(j, v, tree, n) ==
  \/ j = NoJob
  \/ /\ Fields(j) /\ j.pc \in {"begin", "item", "ensure", "write", "note", "finish", "cleanup"}
     /\ j.id \in Upload /\ j.id <= n /\ j.next \in 1..Size + 1
     /\ Looked(j.base, j.todo, v, tree) /\ Recorded(j.result, j.todo, v)
     /\ j.pc \in {"begin", "item", "ensure", "write", "note"} => Len(j.result.items) = j.next - 1
     /\ j.pc \in {"ensure", "write", "note"} => j.next <= Size
     /\ j.pc \in {"ensure", "write"} => j.todo[j.next] = "create"
     /\ j.pc = "note" /\ j.page # NoPage => j.todo[j.next] = "create"
     /\ j.pc = "finish" => /\ j.ends \in {"completed", "failed", "canceled"}
                           /\ j.ends = "completed" => Len(j.result.items) = Size

\* It writes no item twice, and none that had a page.
JobFresh(j, wr, bef, v) ==
  /\ j.pc = "begin" => \A w \in wr : w[1] = j.id => w[2] < j.next \/ Expected(j) < v
  /\ j.pc \in {"item", "ensure", "write"} => \A w \in wr : w[1] = j.id => w[2] < j.next
  /\ j.pc = "note" => \A w \in wr : w[1] = j.id => w[2] <= j.next
  /\ j.pc \in {"item", "ensure", "write", "note"} \/ (j.pc = "begin" /\ j.next > 1) =>
       Free(j.todo, bef[j.id])

\* The plan of an execution is the one it was given, and says how far it is.
SameWork(j, p) == p # NoPlan /\ p.id = j.id => p.todo = j.todo /\ p.base = j.base
InStep(j, p) ==
  Live(j) /\ p # NoPlan /\ p.id = j.id =>
    /\ p.status = "running"
    /\ j.pc = "begin" => j.next = p.processed + 1
    /\ j.pc = "item" => j.next \in {p.processed + 1, p.processed + 2}
    /\ j.pc \in {"ensure", "write", "note"} => j.next = p.processed + 1
    /\ j.pc = "finish" /\ j.ends = "canceled" =>
         Len(j.result.items) \in {p.processed, p.processed + 1}

ReqFields(q) == q = [pc |-> q.pc, id |-> q.id, old |-> q.old, base |-> q.base, todo |-> q.todo]

ReqKept(q, v, tree, n) ==
  /\ ReqFields(q)
  /\ q.id \in Upload \cup {0} /\ q.id <= n
  /\ q.pc \in {"hash", "lookup", "set"} => q.id # 0
  /\ q.pc = "lookup" => q.base \in Nat /\ q.base <= v
  /\ q.pc = "set" => Looked(q.base, q.todo, v, tree)

\* The upload of a request is not in the store yet.
Unstored(id, p) == id # 0 /\ p # NoPlan => p.id # id

Plans ==
  /\ PlanKept(plan, version, at, counts.uploads) /\ PlanKept(saved, version, at, counts.uploads)
  /\ ~broken => saved = plan
  /\ Resumable(saved, written, before, version)

Jobs ==
  /\ jobs = [r \in Run |-> jobs[r]]
  /\ \A r \in Run : /\ JobKept(jobs[r], version, at, counts.uploads)
                    /\ JobFresh(jobs[r], written, before, version)
                    /\ SameWork(jobs[r], plan) /\ SameWork(jobs[r], saved)
                    /\ ~broken => InStep(jobs[r], plan)
  /\ \A r, s \in Run : Live(jobs[r]) /\ Live(jobs[s]) /\ jobs[r].id = jobs[s].id => r = s

Requests ==
  /\ reqs = [c \in Request |-> reqs[c]]
  /\ \A c \in Request : /\ ReqKept(reqs[c], version, at, counts.uploads)
                        /\ Unstored(reqs[c].id, plan) /\ Unstored(reqs[c].id, saved)
                        /\ \A r \in Run : reqs[c].id # 0 => jobs[r].id # reqs[c].id
  /\ \A c, d \in Request : reqs[c].id # 0 /\ reqs[c].id = reqs[d].id => c = d

Observed ==
  /\ version \in Nat /\ counts \in [uploads : Nat, runs : Nat, edits : Nat, faults : Nat]
  /\ written \subseteq Upload \X (1..Size) /\ before \in [Upload -> SUBSET Place]

ImportInv == Observed /\ Plans /\ Jobs /\ Requests

-----------------------------------------------------------------------------
(* What time does to what is known *)

\* The tree changes only with its hash, and uploads are counted.
Later(v, tree, n, v2, tree2, n2) ==
  /\ v \in Nat /\ v2 \in Nat /\ v <= v2 /\ (v2 = v => tree2 = tree)
  /\ n \in Nat /\ n2 \in Nat /\ n <= n2

LEMMA LookedLater ==
  ASSUME NEW v, NEW tree, NEW n, NEW v2, NEW tree2, NEW n2, Later(v, tree, n, v2, tree2, n2),
         NEW base, NEW todo, Looked(base, todo, v, tree)
  PROVE  Looked(base, todo, v2, tree2)
<1>1. base \in Nat /\ v \in Nat /\ v2 \in Nat /\ base <= v /\ v <= v2
  BY DEF Later, Looked
<1>2. base = v2 => base = v /\ tree2 = tree
  BY <1>1 DEF Later
<1>3. base <= v2
  BY <1>1
<1> QED BY <1>1, <1>2, <1>3 DEF Looked

LEMMA RecordedLater ==
  ASSUME NEW v \in Nat, NEW v2 \in Nat, v <= v2, NEW result, NEW todo, Recorded(result, todo, v)
  PROVE  Recorded(result, todo, v2)
<1>1. result.hash \in Nat /\ result.hash <= v
  BY DEF Recorded, Result
<1>2. result.hash <= v2
  BY <1>1
<1> QED BY <1>2 DEF Recorded

LEMMA PlanLater ==
  ASSUME NEW v, NEW tree, NEW n, NEW v2, NEW tree2, NEW n2, Later(v, tree, n, v2, tree2, n2),
         NEW p, PlanKept(p, v, tree, n)
  PROVE  PlanKept(p, v2, tree2, n2)
<1> SUFFICES ASSUME p # NoPlan
             PROVE  PlanKept(p, v2, tree2, n2)
  BY DEF PlanKept
<1>1. p \in StoredPlan /\ p.id <= n /\ Looked(p.base, p.todo, v, tree) /\ Recorded(p.result, p.todo, v)
  BY DEF PlanKept
<1>2. p.id \in Nat /\ n \in Nat /\ n2 \in Nat /\ n <= n2 /\ v \in Nat /\ v2 \in Nat /\ v <= v2
  BY <1>1 DEF StoredPlan, Upload, Later
<1>3. p.id <= n2
  BY <1>1, <1>2
<1>4. Looked(p.base, p.todo, v2, tree2)
  BY <1>1, LookedLater
<1>5. Recorded(p.result, p.todo, v2)
  BY <1>1, <1>2, RecordedLater
<1> QED BY <1>3, <1>4, <1>5 DEF PlanKept

LEMMA JobLater ==
  ASSUME NEW v, NEW tree, NEW n, NEW v2, NEW tree2, NEW n2, Later(v, tree, n, v2, tree2, n2),
         NEW j, JobKept(j, v, tree, n)
  PROVE  JobKept(j, v2, tree2, n2)
<1> SUFFICES ASSUME j # NoJob
             PROVE  JobKept(j, v2, tree2, n2)
  BY DEF JobKept
<1>1. j.id \in Upload /\ j.id <= n /\ Looked(j.base, j.todo, v, tree) /\ Recorded(j.result, j.todo, v)
  BY DEF JobKept
<1>2. j.id \in Nat /\ n \in Nat /\ n2 \in Nat /\ n <= n2 /\ v \in Nat /\ v2 \in Nat /\ v <= v2
  BY <1>1 DEF Upload, Later
<1>3. j.id <= n2
  BY <1>1, <1>2
<1>4. Looked(j.base, j.todo, v2, tree2)
  BY <1>1, LookedLater
<1>5. Recorded(j.result, j.todo, v2)
  BY <1>1, <1>2, RecordedLater
<1> QED BY <1>3, <1>4, <1>5 DEF JobKept

LEMMA ReqLater ==
  ASSUME NEW v, NEW tree, NEW n, NEW v2, NEW tree2, NEW n2, Later(v, tree, n, v2, tree2, n2),
         NEW q, ReqKept(q, v, tree, n)
  PROVE  ReqKept(q, v2, tree2, n2)
<1>1. q.id \in Nat /\ q.id <= n /\ n \in Nat /\ n2 \in Nat /\ n <= n2 /\ v \in Nat /\ v2 \in Nat /\ v <= v2
  BY DEF Upload, Later, ReqKept
<1>2. q.id <= n2
  BY <1>1
<1>3. q.pc = "lookup" => q.base \in Nat /\ q.base <= v2
  BY <1>1 DEF ReqKept
<1>4. q.pc = "set" => Looked(q.base, q.todo, v2, tree2)
  BY LookedLater DEF ReqKept
<1> QED BY <1>2, <1>3, <1>4 DEF ReqKept

\* The hash that an execution expects is a number, and has been the hash of the tree.
LEMMA ExpectedIsHash ==
  ASSUME NEW v, NEW tree, NEW n, NEW j, JobKept(j, v, tree, n), j # NoJob
  PROVE  /\ Expected(j) \in Nat /\ Expected(j) <= v /\ j.next \in Nat /\ j.next >= 1
         /\ Len(j.result.items) \in Nat /\ Size \in Nat
<1>1. j.base \in Nat /\ j.base <= v /\ j.result \in Result /\ j.result.hash <= v /\ j.next \in 1..Size + 1
  BY DEF JobKept, Looked, Recorded
<1>2. j.result.hash \in Nat /\ j.result.items \in Seq({"created", "skipped"})
  BY <1>1 DEF Result
<1>3. Size \in Nat
  BY ImportAssumption DEF Size
<1> QED BY <1>1, <1>2, <1>3 DEF Expected

\* Nothing that others do makes an execution write twice.
LEMMA FreshLater ==
  ASSUME NEW v \in Nat, NEW v2 \in Nat, v <= v2, NEW tree, NEW n, NEW j, JobKept(j, v, tree, n),
         NEW wr, NEW wr2, NEW bef, NEW bef2, JobFresh(j, wr, bef, v),
         Live(j) => (\A w \in wr2 : w[1] = j.id => w \in wr) /\ bef2[j.id] = bef[j.id]
  PROVE  JobFresh(j, wr2, bef2, v2)
<1> SUFFICES ASSUME j # NoJob, Live(j)
             PROVE  JobFresh(j, wr2, bef2, v2)
  BY DEF JobFresh, NoJob, Live
<1>1. Expected(j) \in Nat
  BY ExpectedIsHash
<1>2. Expected(j) < v => Expected(j) < v2
  BY <1>1
<1> QED BY <1>2 DEF JobFresh

\* A stored plan stays one that can be resumed: who writes an item changes the tree.
LEMMA ResumableLater ==
  ASSUME NEW v \in Nat, NEW v2 \in Nat, v <= v2, NEW tree, NEW n, NEW p, PlanKept(p, v, tree, n),
         NEW wr, NEW wr2, NEW bef, NEW bef2, Resumable(p, wr, bef, v),
         p # NoPlan /\ p.status = "running" =>
           /\ \A w \in wr2 : w[1] = p.id => w \in wr \/ v < v2
           /\ p.processed > 0 => Free(p.todo, bef2[p.id])
  PROVE  Resumable(p, wr2, bef2, v2)
<1> SUFFICES ASSUME p # NoPlan, p.status = "running"
             PROVE  Resumable(p, wr2, bef2, v2)
  BY DEF Resumable
<1>1. PICK hash : hash = IF p.processed > 0 THEN p.result.hash ELSE p.base
  OBVIOUS
<1>2. hash \in Nat /\ hash <= v
  BY <1>1 DEF PlanKept, Looked, Recorded, Result
<1>3. hash < v => hash < v2
  BY <1>2
<1>4. v < v2 => hash < v2
  BY <1>2
<1>5. \A w \in wr2 : w[1] = p.id => w[2] <= p.processed \/ hash < v2
  BY <1>1, <1>3, <1>4 DEF Resumable
<1> QED BY <1>1, <1>5 DEF Resumable

-----------------------------------------------------------------------------
(* The steps of an execution *)

\* The store does not change, or it is the plan of this execution that does.
Stores(r) ==
  \/ UNCHANGED planVars
  \/ /\ ~broken /\ plan # NoPlan /\ plan.id = jobs[r].id /\ Live(jobs[r])
     /\ \E new : /\ PlanKept(new, version', at', counts'.uploads)
                 /\ Resumable(new, written', before', version')
                 /\ new # NoPlan => new.id = plan.id /\ new.todo = plan.todo /\ new.base = plan.base
                 /\ Persists(new) \/ PersistFails(new)

\* What an execution does outside the store: the tree gets a new hash, and the observers
\* notice what concerns this execution.
Works(r) ==
  /\ Later(version, at, counts.uploads, version', at', counts'.uploads) /\ Observed'
  /\ \A w \in written' : w \in written \/ (w[1] = jobs[r].id /\ version < version')
  /\ \A id \in Upload : before'[id] = before[id] \/ (id = jobs[r].id /\ Free(jobs[r].todo, before'[id]))
  /\ Live(jobs[r]) \/ UNCHANGED <<written, before>>

LEMMA SavedStaysResumable ==
  ASSUME ImportInv, NEW r \in Run, Works(r)
  PROVE  Resumable(saved, written', before', version')
<1>1. PlanKept(saved, version, at, counts.uploads) /\ Resumable(saved, written, before, version)
  BY DEF ImportInv, Plans
<1>2. version \in Nat /\ version' \in Nat /\ version <= version'
  BY DEF Works, Later
<1>3. ASSUME saved # NoPlan, saved.status = "running"
      PROVE  /\ \A w \in written' : w[1] = saved.id => w \in written \/ version < version'
             /\ saved.processed > 0 => Free(saved.todo, before'[saved.id])
  <2>1. saved.id \in Upload
    BY <1>1, <1>3 DEF PlanKept, StoredPlan
  <2>2. SameWork(jobs[r], saved)
    BY DEF ImportInv, Jobs
  <2>3. saved.processed > 0 => Free(saved.todo, before[saved.id])
    BY <1>1, <1>3 DEF Resumable
  <2>4. before'[saved.id] = before[saved.id] \/ Free(saved.todo, before'[saved.id])
    BY <1>3, <2>1, <2>2 DEF Works, SameWork
  <2> QED BY <2>3, <2>4 DEF Works
<1> QED BY <1>1, <1>2, <1>3, ResumableLater

LEMMA StoresKeep ==
  ASSUME ImportInv, NEW r \in Run, Works(r), Stores(r)
  PROVE  /\ Plans'
         /\ \A s \in Run : SameWork(jobs[s], plan') /\ SameWork(jobs[s], saved')
         /\ \A s \in Run \ {r} : ~broken' => InStep(jobs[s], plan')
         /\ \A id : Unstored(id, plan) /\ Unstored(id, saved) => Unstored(id, plan') /\ Unstored(id, saved')
<1>1. /\ PlanKept(plan, version', at', counts'.uploads) /\ PlanKept(saved, version', at', counts'.uploads)
      /\ Resumable(saved, written', before', version')
  BY PlanLater, SavedStaysResumable DEF Works, ImportInv, Plans
<1>2. /\ \A s \in Run : SameWork(jobs[s], plan) /\ SameWork(jobs[s], saved)
      /\ \A s \in Run : ~broken => InStep(jobs[s], plan)
      /\ ~broken => saved = plan
  BY DEF ImportInv, Jobs, Plans
<1>3. CASE UNCHANGED planVars
  BY <1>1, <1>2, <1>3 DEF Plans, planVars
<1>4. CASE ~ UNCHANGED planVars
  <2>1. PICK new :
          /\ PlanKept(new, version', at', counts'.uploads) /\ Resumable(new, written', before', version')
          /\ new # NoPlan => new.id = plan.id /\ new.todo = plan.todo /\ new.base = plan.base
          /\ Persists(new) \/ PersistFails(new)
    BY <1>4 DEF Stores
  <2>2. ~broken /\ plan # NoPlan /\ plan.id = jobs[r].id /\ Live(jobs[r]) /\ saved = plan
    BY <1>2, <1>4 DEF Stores
  <2>3. plan' = new /\ (saved' = new \/ (saved' = saved /\ broken'))
    BY <2>1 DEF Persists, PersistFails
  <2>4. Plans'
    BY <1>1, <2>1, <2>3 DEF Plans
  <2>5. \A s \in Run : SameWork(jobs[s], new)
    BY <1>2, <2>1, <2>2 DEF SameWork
  <2>6. \A s \in Run \ {r} : InStep(jobs[s], new)
    BY <2>1, <2>2 DEF InStep, ImportInv, Jobs
  <2>7. \A id : Unstored(id, plan) => Unstored(id, new)
    BY <2>1, <2>2 DEF Unstored
  <2> QED BY <1>2, <2>3, <2>4, <2>5, <2>6, <2>7
<1> QED BY <1>3, <1>4

LEMMA JobSteps ==
  ASSUME ImportInv, NEW r \in Run, NEW j, jobs' = [jobs EXCEPT ![r] = j], UNCHANGED reqs,
         Works(r), Stores(r),
         j # NoJob => /\ j.id = jobs[r].id /\ j.todo = jobs[r].todo /\ j.base = jobs[r].base
                      /\ Live(j) => Live(jobs[r]),
         JobKept(j, version', at', counts'.uploads), JobFresh(j, written', before', version'),
         ~broken' => InStep(j, plan')
  PROVE  ImportInv'
<1>1. /\ jobs = [s \in Run |-> jobs[s]] /\ jobs' = [s \in Run |-> jobs'[s]]
      /\ jobs'[r] = j /\ \A s \in Run \ {r} : jobs'[s] = jobs[s]
  BY DEF ImportInv, Jobs
<1>2. /\ Plans'
      /\ \A s \in Run : SameWork(jobs[s], plan') /\ SameWork(jobs[s], saved')
      /\ \A s \in Run \ {r} : ~broken' => InStep(jobs[s], plan')
      /\ \A id : Unstored(id, plan) /\ Unstored(id, saved) => Unstored(id, plan') /\ Unstored(id, saved')
  BY StoresKeep
<1>3. /\ \A s \in Run : JobKept(jobs[s], version, at, counts.uploads)
      /\ \A s \in Run : JobFresh(jobs[s], written, before, version)
      /\ \A s, t \in Run : Live(jobs[s]) /\ Live(jobs[t]) /\ jobs[s].id = jobs[t].id => s = t
  BY DEF ImportInv, Jobs
<1>4. \A s \in Run \ {r} : JobKept(jobs[s], version', at', counts'.uploads)
  BY <1>3, JobLater DEF Works
<1>5. ASSUME NEW s \in Run \ {r}
      PROVE  JobFresh(jobs[s], written', before', version')
  <2>1. version \in Nat /\ version' \in Nat /\ version <= version'
    BY DEF Works, Later
  <2>2. ASSUME Live(jobs[s])
        PROVE  /\ \A w \in written' : w[1] = jobs[s].id => w \in written
               /\ before'[jobs[s].id] = before[jobs[s].id]
    <3>1. jobs[s].id \in Upload
      BY <1>3, <2>2 DEF JobKept, NoJob, Live
    <3>2. CASE UNCHANGED <<written, before>>
      BY <3>2
    <3>3. CASE Live(jobs[r])
      <4>1. jobs[s].id # jobs[r].id
        BY <1>3, <2>2, <3>3
      <4> QED BY <3>1, <4>1 DEF Works
    <3> QED BY <3>2, <3>3 DEF Works
  <2> QED BY <1>3, <2>1, <2>2, FreshLater
<1>6. SameWork(j, plan') /\ SameWork(j, saved')
  <2>1. CASE j = NoJob
    <3>1. (plan' # NoPlan => plan'.id \in Upload) /\ (saved' # NoPlan => saved'.id \in Upload)
      BY <1>2 DEF Plans, PlanKept, StoredPlan
    <3>2. NoJob.id \notin Upload
      BY DEF NoJob, Upload
    <3> QED BY <2>1, <3>1, <3>2 DEF SameWork
  <2>2. CASE j # NoJob
    BY <1>2, <2>2 DEF SameWork
  <2> QED BY <2>1, <2>2
<1>7. \A s, t \in Run : Live(jobs'[s]) /\ Live(jobs'[t]) /\ jobs'[s].id = jobs'[t].id => s = t
  <2>1. ASSUME Live(j)
        PROVE  Live(jobs[r]) /\ j.id = jobs[r].id
    BY <2>1 DEF NoJob, Live
  <2> QED BY <1>1, <1>3, <2>1
<1>8. Jobs'
  BY <1>1, <1>2, <1>4, <1>5, <1>6, <1>7 DEF Jobs
<1>9. Requests'
  <2>1. \A c \in Request : ReqKept(reqs[c], version', at', counts'.uploads)
    BY ReqLater DEF Works, ImportInv, Requests
  <2>2. \A c \in Request : reqs[c].id # 0 => j.id # reqs[c].id
    BY DEF ImportInv, Requests, NoJob
  <2>3. reqs' = reqs /\ Requests
    BY DEF ImportInv
  <2> QED BY <1>1, <1>2, <2>1, <2>2, <2>3 DEF Requests
<1> QED BY <1>2, <1>8, <1>9 DEF ImportInv, Works

LEMMA FaultsAreCounted ==
  ASSUME Observed, UNCHANGED counts \/ Count("faults")
  PROVE  /\ counts' \in [uploads : Nat, runs : Nat, edits : Nat, faults : Nat]
         /\ counts'.uploads = counts.uploads /\ counts.uploads \in Nat
<1>1. counts \in [uploads : Nat, runs : Nat, edits : Nat, faults : Nat]
  BY DEF Observed
<1>2. PICK faults : faults = counts.faults + 1
  OBVIOUS
<1>3. faults \in Nat
  BY <1>1, <1>2
<1>4. CASE UNCHANGED counts
  BY <1>1, <1>4
<1>5. CASE Count("faults")
  <2>1. counts' = [counts EXCEPT !.faults = faults]
    BY <1>2, <1>5 DEF Count
  <2> QED BY <1>1, <1>3, <2>1
<1> QED BY <1>4, <1>5

\* A step that leaves the tree and the observers alone
LEMMA QuietWorks ==
  ASSUME ImportInv, NEW r \in Run, UNCHANGED <<version, at, written, before>>,
         UNCHANGED counts \/ Count("faults")
  PROVE  Works(r)
<1>1. Observed
  BY DEF ImportInv
<1>2. /\ counts' \in [uploads : Nat, runs : Nat, edits : Nat, faults : Nat]
      /\ counts'.uploads = counts.uploads /\ counts.uploads \in Nat
  BY <1>1, FaultsAreCounted
<1> QED BY <1>1, <1>2 DEF Works, Later, Observed

LEMMA JobAtWork ==
  ASSUME ImportInv, NEW r \in Run, Live(jobs[r])
  PROVE  LET j == jobs[r] IN
         /\ Fields(j) /\ j.pc \in {"begin", "item", "ensure", "write", "note", "finish"}
         /\ j.id \in Upload /\ j.id <= counts.uploads /\ j.next \in 1..Size + 1
         /\ Looked(j.base, j.todo, version, at) /\ Recorded(j.result, j.todo, version)
         /\ j.pc \in {"begin", "item", "ensure", "write", "note"} => Len(j.result.items) = j.next - 1
         /\ j.pc \in {"ensure", "write", "note"} => j.next <= Size
         /\ j.pc \in {"ensure", "write"} => j.todo[j.next] = "create"
         /\ j.pc = "note" /\ j.page # NoPage => j.todo[j.next] = "create"
         /\ j.pc = "finish" => /\ j.ends \in {"completed", "failed", "canceled"}
                               /\ j.ends = "completed" => Len(j.result.items) = Size
         /\ JobFresh(j, written, before, version) /\ SameWork(j, plan) /\ (~broken => InStep(j, plan))
         /\ j # NoJob /\ version \in Nat /\ Size \in Nat
<1>1. jobs[r] # NoJob
  BY DEF Live, NoJob
<1>2. JobKept(jobs[r], version, at, counts.uploads)
  BY DEF ImportInv, Jobs
<1>3. Size \in Nat
  BY ImportAssumption DEF Size
<1>4. /\ JobFresh(jobs[r], written, before, version) /\ SameWork(jobs[r], plan)
      /\ ~broken => InStep(jobs[r], plan)
  BY DEF ImportInv, Jobs
<1> QED BY <1>1, <1>2, <1>3, <1>4 DEF JobKept, ImportInv, Observed, Live

\* The progress of a running plan is stored with what it needs to be resumed.
LEMMA ProgressStores ==
  ASSUME ImportInv, NEW r \in Run, Live(jobs[r]), Works(r), UNCHANGED <<version, at>>,
         NEW processed \in 0..Size, NEW result, Progress(jobs[r].id, processed, result),
         Recorded(result, jobs[r].todo, version), Len(result.items) = processed,
         \A w \in written' : w[1] = jobs[r].id => w[2] <= processed,
         processed > 0 => Free(jobs[r].todo, before'[jobs[r].id])
  PROVE  /\ Stores(r)
         /\ ~broken' /\ plan' # NoPlan /\ plan'.id = jobs[r].id =>
              plan'.status = "running" /\ plan'.processed = processed
<1>1. CASE broken \/ ~Stored(jobs[r].id)
  BY <1>1 DEF Progress, Stores, Stored, planVars
<1>2. CASE ~broken /\ Stored(jobs[r].id)
  <2>1. PICK new : new = [plan EXCEPT !.processed = processed, !.result = result]
    OBVIOUS
  <2>2. plan # NoPlan /\ plan.id = jobs[r].id /\ PlanKept(plan, version, at, counts.uploads)
    BY <1>2 DEF Stored, ImportInv, Plans
  <2>3. plan.status = "running" /\ plan.todo = jobs[r].todo
    BY <1>2, <2>2, JobAtWork DEF InStep, SameWork
  <2>4. plan \in StoredPlan /\ result \in Result
    BY <2>2 DEF PlanKept, Recorded
  <2>5. /\ new \in StoredPlan /\ new.id = plan.id /\ new.todo = plan.todo /\ new.base = plan.base
        /\ new.status = "running" /\ new.processed = processed /\ new.result = result
    BY <2>1, <2>3, <2>4 DEF StoredPlan, Result
  <2>6. PlanKept(new, version, at, counts.uploads)
    BY <2>2, <2>3, <2>5 DEF PlanKept
  <2>7. PlanKept(new, version', at', counts'.uploads)
    BY <2>6, PlanLater DEF Works
  <2>8. Resumable(new, written', before', version')
    BY <2>2, <2>3, <2>5 DEF Resumable
  <2>9. Persists(new) \/ PersistFails(new)
    BY <1>2, <2>1 DEF Progress
  <2>10. Stores(r)
    BY <1>2, <2>2, <2>5, <2>7, <2>8, <2>9 DEF Stores
  <2>11. plan' = new
    BY <2>9 DEF Persists, PersistFails
  <2> QED BY <2>5, <2>10, <2>11
<1> QED BY <1>1, <1>2

\* What is written belongs to an item, and progress is counted in items.
LEMMA ProgressCounts ==
  ASSUME NEW id, NEW processed, NEW result, Progress(id, processed, result)
  PROVE  UNCHANGED counts \/ Count("faults")
BY DEF Progress

LEMMA WrittenItems ==
  ASSUME ImportInv, NEW w \in written
  PROVE  w[2] \in Nat /\ w[2] >= 1 /\ w[2] <= Size
<1>1. w \in Upload \X (1..Size) /\ Size \in Nat
  BY ImportAssumption DEF ImportInv, Observed, Size
<1> QED BY <1>1

LEMMA NoResultRecorded ==
  ASSUME NEW todo, NEW v \in Nat
  PROVE  Recorded(NoResult, todo, v) /\ Len(NoResult.items) = 0
<1>1. NoResult.items = <<>> /\ NoResult.hash = 0
  BY DEF NoResult
<1>2. NoResult \in Result
  BY DEF NoResult, Result
<1> QED BY <1>1, <1>2 DEF Recorded

LEMMA BeginKeeps ==
  ASSUME ImportInv, NEW r \in Run, Begin(r)
  PROVE  ImportInv'
<1>1. jobs[r].pc = "begin" /\ Live(jobs[r]) /\ UNCHANGED <<dirs, version, at, reqs, written>>
  BY DEF Begin, Job, Live, treeVars
<1>2. PICK job : job = jobs[r]
  OBVIOUS
<1>3. /\ Fields(job) /\ job.id \in Upload /\ job.next \in 1..Size + 1 /\ job.id <= counts.uploads
      /\ Looked(job.base, job.todo, version, at) /\ Recorded(job.result, job.todo, version)
      /\ Len(job.result.items) = job.next - 1 /\ JobFresh(job, written, before, version)
      /\ ~broken => InStep(job, plan)
      /\ version \in Nat /\ Size \in Nat
  BY <1>1, <1>2, JobAtWork
<1>4. CASE Expected(job) # version
  <2>1. PICK j : j = [job EXCEPT !.pc = "finish", !.ends = "failed", !.result = NoResult]
    OBVIOUS
  <2>2. /\ jobs' = [jobs EXCEPT ![r] = j] /\ UNCHANGED <<plan, saved, broken, counts, before>>
    BY <1>2, <1>4, <2>1 DEF Begin, Ends, planVars
  <2>3. /\ Fields(j) /\ j.pc = "finish" /\ j.ends = "failed" /\ j.result = NoResult /\ j.id = job.id
        /\ j.next = job.next /\ j.todo = job.todo /\ j.base = job.base
    BY <1>3, <2>1 DEF Fields
  <2>4. Works(r) /\ Stores(r)
    BY <1>1, <2>2, QuietWorks DEF Stores, planVars
  <2>5. Recorded(NoResult, job.todo, version)
    BY <1>3, NoResultRecorded
  <2>6. JobKept(j, version', at', counts'.uploads) /\ JobFresh(j, written', before', version')
    BY <1>1, <1>3, <2>2, <2>3, <2>5 DEF JobKept, JobFresh
  <2>7. ~broken' => InStep(j, plan')
    BY <1>1, <1>2, <1>3, <2>2, <2>3 DEF InStep
  <2> QED BY <1>1, <1>2, <2>2, <2>3, <2>4, <2>6, <2>7, JobSteps
<1>5. CASE Expected(job) = version
  <2>1. PICK j : j = [job EXCEPT !.pc = "item"]
    OBVIOUS
  <2>2. PICK processed : processed = job.next - 1
    OBVIOUS
  <2>3. /\ jobs' = [jobs EXCEPT ![r] = j] /\ Progress(jobs[r].id, processed, job.result)
        /\ before' = IF job.next = 1 THEN [before EXCEPT ![job.id] = Occupied] ELSE before
    BY <1>2, <1>5, <2>1, <2>2 DEF Begin
  <2>4. /\ Fields(j) /\ j.pc = "item" /\ j.result = job.result /\ j.id = job.id
        /\ j.next = job.next /\ j.todo = job.todo /\ j.base = job.base
    BY <1>3, <2>1 DEF Fields
  <2>5. job.next = 1 => Free(job.todo, Occupied)
    BY <1>3, <1>5 DEF Expected, Looked, Free, Occupied
  <2>6. before \in [Upload -> SUBSET Place] /\ Occupied \subseteq Place
    BY DEF ImportInv, Observed, Occupied
  <2>7. /\ before' \in [Upload -> SUBSET Place] /\ Free(job.todo, before'[job.id])
        /\ \A id \in Upload : before'[id] = before[id] \/ (id = job.id /\ Free(job.todo, before'[id]))
    <3>1. CASE job.next = 1
      BY <1>3, <2>3, <2>5, <2>6, <3>1
    <3>2. CASE job.next # 1
      <4>1. job.next > 1
        BY <1>3, <3>2
      <4> QED BY <1>1, <1>2, <1>3, <2>3, <2>6, <3>2, <4>1 DEF JobFresh
    <3> QED BY <3>1, <3>2
  <2>8. UNCHANGED counts \/ Count("faults")
    BY <2>3, ProgressCounts
  <2>9. Works(r)
    <3>1. Observed
      BY DEF ImportInv
    <3>2. /\ counts' \in [uploads : Nat, runs : Nat, edits : Nat, faults : Nat]
          /\ counts'.uploads = counts.uploads /\ counts.uploads \in Nat
      BY <2>8, <3>1, FaultsAreCounted
    <3>3. Observed'
      BY <1>1, <2>7, <3>1, <3>2 DEF Observed
    <3> QED BY <1>1, <1>2, <1>3, <2>7, <3>2, <3>3 DEF Works, Later
  <2>10. \A w \in written : w[1] = job.id => w[2] < job.next
    BY <1>1, <1>2, <1>3, <1>5 DEF JobFresh
  <2>11. processed \in 0..Size /\ \A w \in written' : w[1] = job.id => w[2] <= processed
    BY <1>1, <1>3, <2>2, <2>10, WrittenItems
  <2>12. /\ Stores(r)
         /\ ~broken' /\ plan' # NoPlan /\ plan'.id = job.id =>
              plan'.status = "running" /\ plan'.processed = processed
    BY <1>1, <1>2, <1>3, <2>2, <2>3, <2>7, <2>9, <2>11, ProgressStores
  <2>13. JobKept(j, version, at, counts.uploads)
    BY <1>3, <2>4 DEF JobKept
  <2>14. JobKept(j, version', at', counts'.uploads)
    BY <2>9, <2>13, JobLater DEF Works
  <2>15. JobFresh(j, written', before', version')
    BY <1>1, <2>4, <2>7, <2>10 DEF JobFresh
  <2>16. ~broken' => InStep(j, plan')
    BY <1>3, <2>2, <2>4, <2>12 DEF InStep
  <2> QED BY <1>1, <1>2, <2>3, <2>4, <2>9, <2>12, <2>14, <2>15, <2>16, JobSteps
<1> QED BY <1>4, <1>5

LEMMA NextItemKeeps ==
  ASSUME ImportInv, NEW r \in Run, NextItem(r)
  PROVE  ImportInv'
<1>1. /\ jobs[r].pc = "item" /\ Live(jobs[r]) /\ jobs[r].next <= Size
      /\ UNCHANGED <<dirs, version, at, reqs, written, before>>
  BY DEF NextItem, Job, Live, treeVars, seen
<1>2. PICK job : job = jobs[r]
  OBVIOUS
<1>3. /\ Fields(job) /\ job.id \in Upload /\ job.next \in 1..Size + 1 /\ job.id <= counts.uploads
      /\ Looked(job.base, job.todo, version, at) /\ Recorded(job.result, job.todo, version)
      /\ Len(job.result.items) = job.next - 1 /\ JobFresh(job, written, before, version)
      /\ ~broken => InStep(job, plan)
      /\ version \in Nat /\ Size \in Nat
  BY <1>1, <1>2, JobAtWork
<1>4. CASE Stored(job.id) /\ plan.cancel
  <2>1. PICK j : j = [job EXCEPT !.pc = "finish", !.ends = "canceled", !.result = job.result]
    OBVIOUS
  <2>2. /\ jobs' = [jobs EXCEPT ![r] = j] /\ UNCHANGED <<plan, saved, broken, counts>>
    BY <1>2, <1>4, <2>1 DEF NextItem, Ends, planVars
  <2>3. /\ Fields(j) /\ j.pc = "finish" /\ j.ends = "canceled" /\ j.result = job.result /\ j.id = job.id
        /\ j.next = job.next /\ j.todo = job.todo /\ j.base = job.base
    BY <1>3, <2>1 DEF Fields
  <2>4. Works(r) /\ Stores(r)
    BY <1>1, <2>2, QuietWorks DEF Stores, planVars
  <2>5. JobKept(j, version', at', counts'.uploads) /\ JobFresh(j, written', before', version')
    BY <1>1, <1>3, <2>2, <2>3 DEF JobKept, JobFresh
  <2>6. ~broken' => InStep(j, plan')
    <3>1. ASSUME ~broken
          PROVE  plan.status = "running" /\ job.next \in {plan.processed + 1, plan.processed + 2}
      BY <1>1, <1>2, <1>3, <1>4, <3>1 DEF InStep, Stored
    <3>2. plan.processed \in Nat
      BY <1>4 DEF Stored, ImportInv, Plans, PlanKept, StoredPlan
    <3>3. ASSUME ~broken
          PROVE  Len(j.result.items) \in {plan.processed, plan.processed + 1}
      <4>1. job.next = plan.processed + 1 \/ job.next = plan.processed + 2
        BY <3>1, <3>3
      <4>2. job.next - 1 = plan.processed \/ job.next - 1 = plan.processed + 1
        BY <1>3, <3>2, <4>1
      <4> QED BY <1>3, <2>3, <4>2
    <3> QED BY <2>2, <2>3, <3>1, <3>3 DEF InStep
  <2> QED BY <1>1, <1>2, <2>2, <2>3, <2>4, <2>5, <2>6, JobSteps
<1>5. CASE ~(Stored(job.id) /\ plan.cancel)
  <2>1. PICK pc : pc = IF job.todo[job.next] = "create" THEN "ensure" ELSE "note"
    OBVIOUS
  <2>2. PICK j : j = [job EXCEPT !.pc = pc, !.page = NoPage]
    OBVIOUS
  <2>3. PICK processed : processed = job.next - 1
    OBVIOUS
  <2>4. jobs' = [jobs EXCEPT ![r] = j] /\ Progress(jobs[r].id, processed, job.result)
    BY <1>2, <1>5, <2>1, <2>2, <2>3 DEF NextItem
  <2>5. /\ Fields(j) /\ j.pc = pc /\ j.result = job.result /\ j.id = job.id /\ j.page = NoPage
        /\ j.next = job.next /\ j.todo = job.todo /\ j.base = job.base
    BY <1>3, <2>2 DEF Fields
  <2>6. Works(r)
    BY <1>1, <2>4, ProgressCounts, QuietWorks
  <2>7. /\ \A w \in written : w[1] = job.id => w[2] < job.next
        /\ Free(job.todo, before[job.id])
    BY <1>1, <1>2, <1>3 DEF JobFresh
  <2>8. processed \in 0..Size /\ \A w \in written' : w[1] = job.id => w[2] <= processed
    BY <1>1, <1>3, <2>3, <2>7, WrittenItems
  <2>9. /\ Stores(r)
        /\ ~broken' /\ plan' # NoPlan /\ plan'.id = job.id =>
             plan'.status = "running" /\ plan'.processed = processed
    BY <1>1, <1>2, <1>3, <2>3, <2>4, <2>6, <2>7, <2>8, ProgressStores
  <2>10. JobKept(j, version, at, counts.uploads)
    BY <1>1, <1>2, <1>3, <2>1, <2>5 DEF JobKept
  <2>11. JobKept(j, version', at', counts'.uploads)
    BY <2>6, <2>10, JobLater DEF Works
  <2>12. JobFresh(j, written', before', version')
    <3>1. \A w \in written : w[1] = job.id => w[2] <= job.next
      BY <1>3, <2>7, WrittenItems
    <3> QED BY <1>1, <2>1, <2>5, <2>7, <3>1 DEF JobFresh
  <2>13. ~broken' => InStep(j, plan')
    BY <1>3, <2>1, <2>3, <2>5, <2>9 DEF InStep
  <2> QED BY <1>1, <1>2, <2>4, <2>5, <2>6, <2>9, <2>11, <2>12, <2>13, JobSteps
<1> QED BY <1>4, <1>5

\* An item that is skipped is in the result, but not yet in the store.
LEMMA SkippingKeeps ==
  ASSUME ImportInv, NEW r \in Run, jobs[r].pc \in {"ensure", "write"}, Skips(r),
         UNCHANGED <<plan, saved, broken, version, at, reqs, counts, written, before>>
  PROVE  ImportInv'
<1>1. Live(jobs[r])
  BY DEF Live
<1>2. PICK job : job = jobs[r]
  OBVIOUS
<1>3. /\ Fields(job) /\ job.id \in Upload /\ job.next \in 1..Size + 1 /\ job.id <= counts.uploads
      /\ Looked(job.base, job.todo, version, at) /\ Recorded(job.result, job.todo, version)
      /\ Len(job.result.items) = job.next - 1 /\ JobFresh(job, written, before, version)
      /\ ~broken => InStep(job, plan)
      /\ job.next <= Size /\ version \in Nat /\ Size \in Nat
  BY <1>1, <1>2, JobAtWork
<1>4. PICK items : items = Append(job.result.items, "skipped")
  OBVIOUS
<1>5. PICK result : result = [job.result EXCEPT !.items = items]
  OBVIOUS
<1>6. PICK next : next = job.next + 1
  OBVIOUS
<1>7. job.result \in Result /\ job.result.items \in Seq({"created", "skipped"}) /\ job.result.hash \in Nat
  BY <1>3 DEF Recorded, Result
<1>8. /\ items \in Seq({"created", "skipped"}) /\ Len(items) = job.next
      /\ \A i \in 1..Len(items) : items[i] = "created" =>
           i \in 1..Len(job.result.items) /\ items[i] = job.result.items[i]
  <2>1. PICK n \in Nat : n = Len(job.result.items)
    BY <1>7
  <2>2. /\ items \in Seq({"created", "skipped"}) /\ Len(items) = n + 1 /\ items[n + 1] = "skipped"
        /\ \A i \in 1..n : items[i] = job.result.items[i]
    BY <1>4, <1>7, <2>1
  <2>3. Len(items) = job.next
    BY <1>3, <2>1, <2>2
  <2>4. \A i \in 1..n + 1 : i = n + 1 \/ i \in 1..n
    BY <2>1
  <2> QED BY <2>1, <2>2, <2>3, <2>4
<1>9. result \in Result /\ result.items = items /\ result.hash = job.result.hash
  BY <1>5, <1>7, <1>8 DEF Result
<1>10. Recorded(result, job.todo, version)
  BY <1>3, <1>8, <1>9 DEF Recorded
<1>11. PICK j : j = [job EXCEPT !.pc = "item", !.next = next, !.result = result]
  OBVIOUS
<1>12. jobs' = [jobs EXCEPT ![r] = j]
  <2>1. jobs' = [jobs EXCEPT ![r].pc = "item", ![r].next = next, ![r].result.items = items]
    BY <1>2, <1>4, <1>6 DEF Skips
  <2>2. jobs' = [jobs EXCEPT ![r].pc = "item", ![r].next = next, ![r].result = result]
    BY <1>2, <1>5, <2>1
  <2> QED BY <1>2, <1>11, <2>2
<1>13. /\ Fields(j) /\ j.pc = "item" /\ j.result = result /\ j.id = job.id /\ j.next = next
       /\ j.todo = job.todo /\ j.base = job.base
  BY <1>3, <1>11 DEF Fields
<1>14. next \in 1..Size + 1 /\ Len(items) = next - 1
  BY <1>3, <1>6, <1>8
<1>15. JobKept(j, version, at, counts.uploads)
  BY <1>3, <1>9, <1>10, <1>13, <1>14 DEF JobKept
<1>16. JobFresh(j, written, before, version)
  <2>1. (\A w \in written : w[1] = job.id => w[2] < job.next) /\ Free(job.todo, before[job.id])
    BY <1>2, <1>3 DEF JobFresh
  <2>2. \A w \in written : w[1] = job.id => w[2] < next
    BY <1>3, <1>6, <2>1, WrittenItems
  <2> QED BY <1>13, <2>1, <2>2 DEF JobFresh
<1>17. ~broken => InStep(j, plan)
  <2>1. plan # NoPlan => plan.processed \in Nat
    BY DEF ImportInv, Plans, PlanKept, StoredPlan
  <2>2. ~broken /\ plan # NoPlan /\ plan.id = job.id =>
          plan.status = "running" /\ job.next = plan.processed + 1
    BY <1>1, <1>2, <1>3 DEF InStep
  <2>3. ~broken /\ plan # NoPlan /\ plan.id = job.id => next = plan.processed + 2
    BY <1>6, <2>1, <2>2
  <2> QED BY <1>13, <2>2, <2>3 DEF InStep
<1>18. Works(r) /\ Stores(r)
  BY QuietWorks DEF Stores, planVars
<1> QED BY <1>1, <1>2, <1>12, <1>13, <1>15, <1>16, <1>17, <1>18, JobSteps

\* A write to the tree
LEMMA TouchingWorks ==
  ASSUME ImportInv, NEW r \in Run, Live(jobs[r]), version' = version + 1, UNCHANGED <<counts, before>>,
         written' \subseteq Upload \X (1..Size),
         \A w \in written' : w \in written \/ w[1] = jobs[r].id
  PROVE  Works(r) /\ version < version'
<1>1. Observed
  BY DEF ImportInv
<1>2. version \in Nat /\ version' \in Nat /\ version < version' /\ version <= version' /\ version' # version
  BY <1>1 DEF Observed
<1>3. counts.uploads \in Nat /\ counts'.uploads = counts.uploads
  BY <1>1 DEF Observed
<1>4. Observed'
  BY <1>1, <1>2 DEF Observed
<1> QED BY <1>2, <1>3, <1>4 DEF Works, Later

LEMMA EnsurePathKeeps ==
  ASSUME ImportInv, NEW r \in Run, EnsurePath(r)
  PROVE  ImportInv'
<1>1. /\ jobs[r].pc = "ensure" /\ Live(jobs[r])
      /\ UNCHANGED <<plan, saved, broken, dirs, reqs, counts, written, before>>
  BY DEF EnsurePath, Job, Live, planVars, seen
<1>2. CASE Skips(r) /\ UNCHANGED <<version, at>>
  BY <1>1, <1>2, SkippingKeeps
<1>3. CASE ~(Skips(r) /\ UNCHANGED <<version, at>>)
  <2>1. PICK job : job = jobs[r]
    OBVIOUS
  <2>2. PICK page : page = at'[Items[job.next]].born
    OBVIOUS
  <2>3. PICK j : j = [job EXCEPT !.pc = "write", !.page = page]
    OBVIOUS
  <2>4. /\ version' = version + 1 \/ UNCHANGED <<version, at>>
        /\ jobs' = [jobs EXCEPT ![r] = j]
    BY <1>3, <2>1, <2>2, <2>3 DEF EnsurePath, Touched, treeVars
  <2>5. /\ Fields(job) /\ JobKept(job, version, at, counts.uploads) /\ job.todo[job.next] = "create"
        /\ JobFresh(job, written, before, version)
        /\ ~broken => InStep(job, plan)
    BY <1>1, <2>1, JobAtWork DEF ImportInv, Jobs
  <2>6. /\ Fields(j) /\ j.pc = "write" /\ j.result = job.result /\ j.id = job.id
        /\ j.next = job.next /\ j.todo = job.todo /\ j.base = job.base
    BY <2>3, <2>5 DEF Fields
  <2>7. Works(r) /\ Stores(r)
    <3>1. Stores(r)
      BY <1>1 DEF Stores, planVars
    <3>2. written' \subseteq Upload \X (1..Size) /\ written' = written
      BY <1>1 DEF ImportInv, Observed
    <3> QED BY <1>1, <2>4, <3>1, <3>2, QuietWorks, TouchingWorks
  <2>8. JobKept(j, version, at, counts.uploads)
    BY <1>1, <2>1, <2>5, <2>6 DEF JobKept, NoJob
  <2>9. JobKept(j, version', at', counts'.uploads)
    BY <2>7, <2>8, JobLater DEF Works
  <2>10. JobFresh(j, written', before', version')
    BY <1>1, <2>1, <2>5, <2>6 DEF JobFresh
  <2>11. ~broken' => InStep(j, plan')
    <3>1. Live(job) /\ job.pc = "ensure"
      BY <1>1, <2>1
    <3> QED BY <1>1, <2>5, <2>6, <3>1 DEF InStep
  <2> QED BY <1>1, <2>1, <2>4, <2>6, <2>7, <2>9, <2>10, <2>11, JobSteps
<1> QED BY <1>2, <1>3

LEMMA WritePageKeeps ==
  ASSUME ImportInv, NEW r \in Run, WritePage(r)
  PROVE  ImportInv'
<1>1. /\ jobs[r].pc = "write" /\ Live(jobs[r])
      /\ UNCHANGED <<plan, saved, broken, dirs, reqs, counts, before>>
  BY DEF WritePage, Job, Live, planVars
<1>2. CASE Skips(r) /\ UNCHANGED <<version, at, written>>
  BY <1>1, <1>2, SkippingKeeps
<1>3. CASE ~(Skips(r) /\ UNCHANGED <<version, at, written>>)
  <2>1. PICK job : job = jobs[r]
    OBVIOUS
  <2>2. PICK j : j = [job EXCEPT !.pc = "note"]
    OBVIOUS
  <2>3. /\ version' = version + 1 /\ jobs' = [jobs EXCEPT ![r] = j]
        /\ written' = written \cup {<<job.id, job.next>>}
    BY <1>3, <2>1, <2>2 DEF WritePage, Touched, treeVars
  <2>4. /\ Fields(job) /\ JobKept(job, version, at, counts.uploads) /\ job.todo[job.next] = "create"
        /\ JobFresh(job, written, before, version)
        /\ ~broken => InStep(job, plan)
        /\ job.id \in Upload /\ job.next \in 1..Size + 1 /\ job.next <= Size /\ Size \in Nat
    BY <1>1, <2>1, JobAtWork DEF ImportInv, Jobs
  <2>5. /\ Fields(j) /\ j.pc = "note" /\ j.result = job.result /\ j.id = job.id
        /\ j.next = job.next /\ j.todo = job.todo /\ j.base = job.base
    BY <2>2, <2>4 DEF Fields
  <2>6. Works(r) /\ Stores(r)
    <3>1. Stores(r)
      BY <1>1 DEF Stores, planVars
    <3>2. job.next \in 1..Size
      BY <2>4
    <3>3. written' \subseteq Upload \X (1..Size)
      BY <2>3, <2>4, <3>2 DEF ImportInv, Observed
    <3>4. \A w \in written' : w \in written \/ w[1] = jobs[r].id
      BY <2>1, <2>3
    <3> QED BY <1>1, <2>3, <3>1, <3>3, <3>4, TouchingWorks
  <2>7. JobKept(j, version, at, counts.uploads)
    BY <1>1, <2>1, <2>4, <2>5 DEF JobKept, NoJob
  <2>8. JobKept(j, version', at', counts'.uploads)
    BY <2>6, <2>7, JobLater DEF Works
  <2>9. JobFresh(j, written', before', version')
    <3>1. (\A w \in written : w[1] = job.id => w[2] < job.next) /\ Free(job.todo, before[job.id])
      BY <1>1, <2>1, <2>4 DEF JobFresh
    <3>2. \A w \in written : w[1] = job.id => w[2] <= job.next
      BY <2>4, <3>1, WrittenItems
    <3>3. job.next <= job.next
      BY <2>4
    <3>4. \A w \in written' : w[1] = job.id => w[2] <= job.next
      BY <2>3, <3>2, <3>3
    <3> QED BY <1>1, <2>5, <3>1, <3>4 DEF JobFresh
  <2>10. ~broken' => InStep(j, plan')
    <3>1. Live(job) /\ job.pc = "write"
      BY <1>1, <2>1
    <3> QED BY <1>1, <2>4, <2>5, <3>1 DEF InStep
  <2> QED BY <1>1, <2>1, <2>3, <2>5, <2>6, <2>8, <2>9, <2>10, JobSteps
<1> QED BY <1>2, <1>3

LEMMA NoteItemKeeps ==
  ASSUME ImportInv, NEW r \in Run, NoteItem(r)
  PROVE  ImportInv'
<1>1. jobs[r].pc = "note" /\ Live(jobs[r]) /\ UNCHANGED <<dirs, version, at, reqs, written, before>>
  BY DEF NoteItem, Job, Live, treeVars, seen
<1>2. PICK job : job = jobs[r]
  OBVIOUS
<1>3. /\ Fields(job) /\ job.id \in Upload /\ job.next \in 1..Size + 1 /\ job.id <= counts.uploads
      /\ Looked(job.base, job.todo, version, at) /\ Recorded(job.result, job.todo, version)
      /\ Len(job.result.items) = job.next - 1 /\ JobFresh(job, written, before, version)
      /\ ~broken => InStep(job, plan)
      /\ job.page # NoPage => job.todo[job.next] = "create"
      /\ job.next <= Size /\ version \in Nat /\ Size \in Nat
  BY <1>1, <1>2, JobAtWork
<1>4. PICK outcome \in {"created", "skipped"} : outcome = IF job.page = NoPage THEN "skipped" ELSE "created"
  OBVIOUS
<1>5. PICK items : items = Append(job.result.items, outcome)
  OBVIOUS
<1>6. PICK result : result = [items |-> items, hash |-> version]
  OBVIOUS
<1>7. PICK next : next = job.next + 1
  OBVIOUS
<1>8. PICK j : j = [job EXCEPT !.pc = "item", !.next = next, !.result = result]
  OBVIOUS
<1>9. jobs' = [jobs EXCEPT ![r] = j] /\ Progress(jobs[r].id, job.next, result)
  BY <1>2, <1>4, <1>5, <1>6, <1>7, <1>8 DEF NoteItem
<1>10. job.result \in Result /\ job.result.items \in Seq({"created", "skipped"})
  BY <1>3 DEF Recorded, Result
<1>11. /\ items \in Seq({"created", "skipped"}) /\ Len(items) = job.next
       /\ \A i \in 1..Len(items) : \/ i \in 1..Len(job.result.items) /\ items[i] = job.result.items[i]
                                   \/ i = job.next /\ items[i] = outcome
  <2>1. Len(job.result.items) + 1 = job.next /\ Len(job.result.items) \in Nat
    BY <1>3, <1>10
  <2>2. items \in Seq({"created", "skipped"}) /\ Len(items) = Len(job.result.items) + 1
    BY <1>5, <1>10
  <2>3. \A i \in 1..Len(items) : \/ i \in 1..Len(job.result.items) /\ items[i] = job.result.items[i]
                                 \/ i = Len(job.result.items) + 1 /\ items[i] = outcome
    BY <1>5, <1>10
  <2> QED BY <2>1, <2>2, <2>3
<1>12. result \in Result /\ result.items = items /\ result.hash = version /\ version <= version
  BY <1>3, <1>6, <1>11 DEF Result
<1>13. Recorded(result, job.todo, version)
  BY <1>3, <1>4, <1>11, <1>12 DEF Recorded
<1>14. /\ Fields(j) /\ j.pc = "item" /\ j.result = result /\ j.id = job.id /\ j.next = next
       /\ j.todo = job.todo /\ j.base = job.base
  BY <1>3, <1>8 DEF Fields
<1>15. next \in 1..Size + 1 /\ Len(items) = next - 1
  BY <1>3, <1>7, <1>11
<1>16. Works(r)
  BY <1>1, <1>9, ProgressCounts, QuietWorks
<1>17. (\A w \in written : w[1] = job.id => w[2] <= job.next) /\ Free(job.todo, before[job.id])
  BY <1>1, <1>2, <1>3 DEF JobFresh
<1>18. /\ Stores(r)
       /\ ~broken' /\ plan' # NoPlan /\ plan'.id = job.id =>
            plan'.status = "running" /\ plan'.processed = job.next
  <2>1. job.next \in 0..Size
    BY <1>3
  <2> QED BY <1>1, <1>2, <1>9, <1>11, <1>12, <1>13, <1>16, <1>17, <2>1, ProgressStores
<1>19. JobKept(j, version, at, counts.uploads)
  BY <1>3, <1>12, <1>13, <1>14, <1>15 DEF JobKept
<1>20. JobKept(j, version', at', counts'.uploads)
  BY <1>16, <1>19, JobLater DEF Works
<1>21. JobFresh(j, written', before', version')
  <2>1. \A w \in written : w[1] = job.id => w[2] < next
    BY <1>3, <1>7, <1>17, WrittenItems
  <2> QED BY <1>1, <1>14, <1>17, <2>1 DEF JobFresh
<1>22. ~broken' => InStep(j, plan')
  BY <1>7, <1>14, <1>18 DEF InStep
<1> QED BY <1>1, <1>2, <1>9, <1>14, <1>16, <1>18, <1>20, <1>21, <1>22, JobSteps

LEMMA AllDoneKeeps ==
  ASSUME ImportInv, NEW r \in Run, AllDone(r)
  PROVE  ImportInv'
<1>1. /\ jobs[r].pc = "item" /\ Live(jobs[r]) /\ jobs[r].next > Size
      /\ UNCHANGED <<dirs, version, at, reqs, written, before>>
  BY DEF AllDone, Job, Live, treeVars, seen
<1>2. PICK job : job = jobs[r]
  OBVIOUS
<1>3. /\ Fields(job) /\ job.id \in Upload /\ job.next \in 1..Size + 1 /\ job.id <= counts.uploads
      /\ Looked(job.base, job.todo, version, at) /\ Recorded(job.result, job.todo, version)
      /\ Len(job.result.items) = job.next - 1 /\ JobFresh(job, written, before, version)
      /\ version \in Nat /\ Size \in Nat
  BY <1>1, <1>2, JobAtWork
<1>4. PICK result : result = [job.result EXCEPT !.hash = version]
  OBVIOUS
<1>5. PICK j : j = [job EXCEPT !.pc = "finish", !.ends = "completed", !.result = result]
  OBVIOUS
<1>6. jobs' = [jobs EXCEPT ![r] = j] /\ Progress(jobs[r].id, Size, result)
  BY <1>2, <1>4, <1>5 DEF AllDone, Ends
<1>7. /\ Fields(j) /\ j.pc = "finish" /\ j.ends = "completed" /\ j.result = result /\ j.id = job.id
      /\ j.next = job.next /\ j.todo = job.todo /\ j.base = job.base
  BY <1>3, <1>5 DEF Fields
<1>8. result \in Result /\ result.items = job.result.items /\ result.hash = version /\ version <= version
  BY <1>3, <1>4 DEF Result, Recorded
<1>9. Recorded(result, job.todo, version)
  BY <1>3, <1>8 DEF Recorded
<1>10. Len(result.items) = Size
  BY <1>1, <1>2, <1>3, <1>8
<1>11. Works(r)
  BY <1>1, <1>6, ProgressCounts, QuietWorks
<1>12. (\A w \in written : w[1] = job.id => w[2] <= Size) /\ Free(job.todo, before[job.id])
  BY <1>1, <1>2, <1>3, WrittenItems DEF JobFresh
<1>13. /\ Stores(r)
       /\ ~broken' /\ plan' # NoPlan /\ plan'.id = job.id =>
            plan'.status = "running" /\ plan'.processed = Size
  <2>1. Size \in 0..Size
    BY <1>3
  <2> QED BY <1>1, <1>2, <1>6, <1>9, <1>10, <1>11, <1>12, <2>1, ProgressStores
<1>14. JobKept(j, version, at, counts.uploads)
  BY <1>3, <1>7, <1>9, <1>10 DEF JobKept
<1>15. JobKept(j, version', at', counts'.uploads)
  BY <1>11, <1>14, JobLater DEF Works
<1>16. JobFresh(j, written', before', version') /\ (~broken' => InStep(j, plan'))
  BY <1>7, <1>13 DEF JobFresh, InStep
<1> QED BY <1>1, <1>2, <1>6, <1>7, <1>11, <1>13, <1>15, <1>16, JobSteps

\* The end of an execution is what it found, and the plan is left as it ended.
LEMMA FinishKeeps ==
  ASSUME ImportInv, NEW r \in Run, Finish(r)
  PROVE  ImportInv'
<1>1. jobs[r].pc = "finish" /\ Live(jobs[r]) /\ UNCHANGED <<dirs, version, at, reqs, written, before>>
  BY DEF Finish, Job, Live, treeVars, seen
<1>2. PICK job : job = jobs[r]
  OBVIOUS
<1>3. /\ Fields(job) /\ job.id \in Upload /\ job.next \in 1..Size + 1 /\ job.id <= counts.uploads
      /\ Looked(job.base, job.todo, version, at) /\ Recorded(job.result, job.todo, version)
      /\ job.ends \in {"completed", "failed", "canceled"}
      /\ job.ends = "completed" => Len(job.result.items) = Size
      /\ ~broken => InStep(job, plan)
      /\ version \in Nat /\ Size \in Nat
  BY <1>1, <1>2, JobAtWork
<1>4. PICK left : left = [job EXCEPT !.pc = "cleanup"]
  OBVIOUS
<1>5. PICK new : new = Finished(job)
  OBVIOUS
<1>6. /\ jobs' = [jobs EXCEPT ![r] = NoJob] \/ jobs' = [jobs EXCEPT ![r] = left]
      /\ \/ UNCHANGED <<planVars, counts>>
         \/ /\ UNCHANGED counts \/ Count("faults")
            /\ ~broken /\ Stored(job.id) /\ (Persists(new) \/ PersistFails(new))
  BY <1>2, <1>4, <1>5 DEF Finish
<1>7. UNCHANGED counts \/ Count("faults")
  BY <1>6
<1>8. Works(r)
  BY <1>1, <1>7, QuietWorks
<1>9. Stores(r)
  <2>1. CASE UNCHANGED planVars
    BY <2>1 DEF Stores
  <2>2. CASE ~broken /\ Stored(job.id) /\ (Persists(new) \/ PersistFails(new))
    <3>1. /\ plan # NoPlan /\ plan.id = job.id /\ plan \in StoredPlan
          /\ PlanKept(plan, version, at, counts.uploads)
      BY <2>2 DEF Stored, ImportInv, Plans, PlanKept
    <3>2. plan.status = "running" /\ plan.todo = job.todo
      BY <1>1, <1>2, <1>3, <2>2, <3>1, JobAtWork DEF InStep, SameWork
    <3>3. PICK processed \in 0..Size : processed = IF job.ends = "completed" THEN Size ELSE plan.processed
      BY <1>3, <3>1 DEF StoredPlan
    <3>4. new = [plan EXCEPT !.status = job.ends, !.cancel = FALSE, !.result = job.result,
                             !.processed = processed]
      BY <1>5, <3>3 DEF Finished
    <3>5. job.result \in Result
      BY <1>3 DEF Recorded
    <3>6. /\ new \in StoredPlan /\ new.id = plan.id /\ new.todo = plan.todo /\ new.base = plan.base
          /\ new.status = job.ends /\ new.processed = processed /\ new.result = job.result
      BY <1>3, <3>1, <3>4, <3>5 DEF StoredPlan, Result, Status
    <3>7. job.ends = "canceled" => Len(job.result.items) \in {processed, processed + 1}
      BY <1>1, <1>2, <1>3, <2>2, <3>1, <3>3 DEF InStep
    <3>8. PlanKept(new, version, at, counts.uploads)
      BY <1>3, <3>1, <3>2, <3>6, <3>7 DEF PlanKept
    <3>9. PlanKept(new, version', at', counts'.uploads)
      BY <1>8, <3>8, PlanLater DEF Works
    <3>10. Resumable(new, written', before', version')
      BY <1>3, <3>6 DEF Resumable
    <3> QED BY <1>1, <1>2, <2>2, <3>1, <3>6, <3>9, <3>10 DEF Stores
  <2> QED BY <1>6, <2>1, <2>2
<1>10. CASE jobs' = [jobs EXCEPT ![r] = NoJob]
  <2>1. ~Live(NoJob) /\ NoJob.pc = "none"
    BY DEF Live, NoJob
  <2>2. JobKept(NoJob, version', at', counts'.uploads)
    BY DEF JobKept
  <2>3. JobFresh(NoJob, written', before', version') /\ InStep(NoJob, plan')
    BY <2>1 DEF JobFresh, InStep
  <2> QED BY <1>1, <1>8, <1>9, <1>10, <2>2, <2>3, JobSteps
<1>11. CASE jobs' = [jobs EXCEPT ![r] = left]
  <2>1. /\ Fields(left) /\ left.pc = "cleanup" /\ left.result = job.result /\ left.id = job.id
        /\ left.next = job.next /\ left.todo = job.todo /\ left.base = job.base /\ ~Live(left)
    BY <1>3, <1>4 DEF Fields, Live
  <2>2. JobKept(left, version, at, counts.uploads)
    BY <1>3, <2>1 DEF JobKept
  <2>3. JobKept(left, version', at', counts'.uploads)
    BY <1>8, <2>2, JobLater DEF Works
  <2>4. JobFresh(left, written', before', version') /\ InStep(left, plan')
    BY <2>1 DEF JobFresh, InStep
  <2> QED BY <1>1, <1>2, <1>8, <1>9, <1>11, <2>1, <2>3, <2>4, JobSteps
<1> QED BY <1>6, <1>10, <1>11

LEMMA CleanupKeeps ==
  ASSUME ImportInv, NEW r \in Run, CleanupWorkspace(r)
  PROVE  ImportInv'
<1>1. /\ UNCHANGED <<plan, saved, broken, version, at, reqs, counts, written, before>>
      /\ jobs' = [jobs EXCEPT ![r] = NoJob]
  BY DEF CleanupWorkspace, planVars, treeVars, seen
<1>2. Works(r) /\ Stores(r)
  BY <1>1, QuietWorks DEF Stores, planVars
<1>3. JobKept(NoJob, version', at', counts'.uploads)
  BY DEF JobKept
<1>4. JobFresh(NoJob, written', before', version') /\ InStep(NoJob, plan')
  BY DEF JobFresh, InStep, NoJob, Live
<1> QED BY <1>1, <1>2, <1>3, <1>4, JobSteps

-----------------------------------------------------------------------------
(* The steps of a request *)

\* A plan is cleared, set by the request that uploaded it, or told to stop.
Replaces(c, q, new) ==
  \/ new = NoPlan
  \/ q.id = 0 /\ reqs[c].id # 0 /\ new.id = reqs[c].id /\ new.status = "planned"
  \/ /\ plan # NoPlan /\ new.id = plan.id /\ new.todo = plan.todo /\ new.base = plan.base
     /\ new.status = plan.status /\ new.processed = plan.processed /\ new.result = plan.result

LEMMA RequestSteps ==
  ASSUME ImportInv, NEW c \in Request, NEW q, reqs' = [reqs EXCEPT ![c] = q],
         UNCHANGED <<version, at, jobs, written, before>>, Observed', counts.uploads <= counts'.uploads,
         ReqKept(q, version, at, counts'.uploads), q.id \in {0, reqs[c].id} \/ counts.uploads < q.id,
         \/ UNCHANGED planVars
         \/ /\ ~broken
            /\ \E new : /\ PlanKept(new, version, at, counts'.uploads) /\ Replaces(c, q, new)
                        /\ Persists(new) \/ PersistFails(new)
  PROVE  ImportInv'
<1>1. Later(version, at, counts.uploads, version', at', counts'.uploads)
  BY DEF ImportInv, Observed, Later
<1>2. /\ PlanKept(plan, version', at', counts'.uploads) /\ PlanKept(saved, version', at', counts'.uploads)
      /\ Resumable(saved, written', before', version') /\ (~broken => saved = plan)
  BY <1>1, PlanLater DEF ImportInv, Plans
<1>3. /\ \A r \in Run : SameWork(jobs[r], plan) /\ SameWork(jobs[r], saved)
      /\ \A r \in Run : ~broken => InStep(jobs[r], plan)
      /\ \A r \in Run : JobKept(jobs[r], version, at, counts.uploads)
      /\ \A r \in Run : jobs[r].id = 0 \/ (jobs[r].id \in Nat /\ jobs[r].id <= counts.uploads)
  BY DEF ImportInv, Jobs, JobKept, NoJob, Upload
<1>4. /\ reqs = [d \in Request |-> reqs[d]] /\ reqs'[c] = q /\ \A d \in Request \ {c} : reqs'[d] = reqs[d]
      /\ \A d \in Request : /\ ReqKept(reqs[d], version, at, counts.uploads)
                            /\ Unstored(reqs[d].id, plan) /\ Unstored(reqs[d].id, saved)
                            /\ \A r \in Run : reqs[d].id # 0 => jobs[r].id # reqs[d].id
      /\ \A d, e \in Request : reqs[d].id # 0 /\ reqs[d].id = reqs[e].id => d = e
  BY DEF ImportInv, Requests
<1>5. /\ counts.uploads \in Nat /\ counts'.uploads \in Nat
      /\ \A d \in Request : reqs[d].id \in Nat /\ reqs[d].id <= counts.uploads
  BY <1>4 DEF ImportInv, Observed, ReqKept, Upload
<1>6. q.id # 0 => /\ Unstored(q.id, plan) /\ Unstored(q.id, saved)
                  /\ \A r \in Run : jobs[r].id # q.id
                  /\ \A d \in Request \ {c} : reqs[d].id # q.id
  <2>1. CASE q.id \in {0, reqs[c].id}
    BY <1>4, <2>1
  <2>2. CASE counts.uploads < q.id
    <3>1. q.id \in Nat
      BY DEF ReqKept, Upload
    <3>2. \A p \in {plan, saved} : p # NoPlan => p.id \in Nat /\ p.id <= counts.uploads
      BY DEF ImportInv, Plans, PlanKept, StoredPlan, Upload
    <3>3. \A p \in {plan, saved} : p # NoPlan => p.id # q.id
      BY <1>5, <2>2, <3>1, <3>2
    <3>4. \A r \in Run : q.id # 0 => jobs[r].id # q.id
      BY <1>3, <1>5, <2>2, <3>1
    <3>5. \A d \in Request : reqs[d].id # q.id
      BY <1>5, <2>2, <3>1
    <3> QED BY <3>3, <3>4, <3>5 DEF Unstored
  <2> QED BY <2>1, <2>2
<1>7. /\ Plans'
      /\ \A r \in Run : SameWork(jobs[r], plan') /\ SameWork(jobs[r], saved')
      /\ \A r \in Run : ~broken' => InStep(jobs[r], plan')
      /\ \A d \in Request : Unstored(reqs'[d].id, plan') /\ Unstored(reqs'[d].id, saved')
  <2>1. \A d \in Request : Unstored(reqs'[d].id, plan) /\ Unstored(reqs'[d].id, saved)
    BY <1>4, <1>6 DEF Unstored
  <2>2. CASE UNCHANGED planVars
    BY <1>2, <1>3, <2>1, <2>2 DEF Plans, planVars
  <2>3. CASE ~broken /\ \E new : /\ PlanKept(new, version, at, counts'.uploads) /\ Replaces(c, q, new)
                                 /\ Persists(new) \/ PersistFails(new)
    <3>1. PICK new : /\ PlanKept(new, version, at, counts'.uploads) /\ Replaces(c, q, new)
                     /\ Persists(new) \/ PersistFails(new)
      BY <2>3
    <3>2. plan' = new /\ (saved' = new \/ (saved' = saved /\ broken')) /\ (broken' \/ saved' = new)
      BY <3>1 DEF Persists, PersistFails
    <3>3. Resumable(new, written', before', version')
      BY <1>2, <2>3, <3>1 DEF Resumable, Replaces
    <3>4. \A r \in Run : SameWork(jobs[r], new) /\ InStep(jobs[r], new)
      BY <1>3, <1>4, <2>3, <3>1 DEF SameWork, InStep, Replaces
    <3>5. \A d \in Request : Unstored(reqs'[d].id, new)
      BY <1>4, <2>1, <3>1 DEF Unstored, Replaces
    <3>6. Plans'
      BY <1>2, <3>1, <3>2, <3>3 DEF Plans
    <3> QED BY <1>3, <2>1, <3>2, <3>4, <3>5, <3>6
  <2> QED BY <2>2, <2>3
<1>8. \A r \in Run : JobKept(jobs[r], version', at', counts'.uploads)
  BY <1>1, <1>3, JobLater
<1>9. Jobs'
  BY <1>7, <1>8 DEF ImportInv, Jobs
<1>10. \A d \in Request : ReqKept(reqs'[d], version', at', counts'.uploads)
  BY <1>1, <1>4, ReqLater
<1>11. Requests'
  BY <1>4, <1>6, <1>7, <1>10 DEF Requests
<1> QED BY <1>7, <1>9, <1>11 DEF ImportInv

LEMMA IdleKept ==
  ASSUME NEW v, NEW tree, NEW n \in Nat
  PROVE  ReqKept(Idle, v, tree, n) /\ Idle.id = 0
BY DEF ReqKept, ReqFields, Idle

\* A request goes on, and nothing changes that others see.
LEMMA RequestTurns ==
  ASSUME ImportInv, NEW c \in Request, NEW q, reqs' = [reqs EXCEPT ![c] = q],
         UNCHANGED <<plan, saved, broken, version, at, jobs, counts, written, before>>,
         ReqKept(q, version, at, counts.uploads), q.id \in {0, reqs[c].id}
  PROVE  ImportInv'
<1>1. Observed' /\ counts.uploads <= counts'.uploads
  BY DEF ImportInv, Observed
<1> QED BY <1>1, RequestSteps DEF planVars

LEMMA RequestFields ==
  ASSUME ImportInv, NEW c \in Request
  PROVE  /\ ReqFields(reqs[c])
         /\ ReqKept(reqs[c], version, at, counts.uploads) /\ counts.uploads \in Nat /\ version \in Nat
BY DEF ImportInv, Requests, Observed, ReqKept

LEMMA UploadKeeps ==
  ASSUME ImportInv, NEW c \in Request, UploadArchive(c)
  PROVE  ImportInv'
<1>1. PICK id : id = counts.uploads + 1
  OBVIOUS
<1>2. PICK q : q = [Idle EXCEPT !.pc = "check", !.id = id]
  OBVIOUS
<1>3. Observed /\ counts.uploads \in Nat /\ counts.uploads < MaxUploads /\ MaxUploads \in Nat
  BY ImportAssumption DEF UploadArchive, ImportInv, Observed
<1>4. id \in Upload /\ id \in Nat /\ counts.uploads < id /\ counts.uploads <= id
  BY <1>1, <1>3 DEF Upload
<1>5. counts' = [counts EXCEPT !.uploads = id] /\ reqs' = [reqs EXCEPT ![c] = q]
      /\ UNCHANGED <<plan, saved, broken, version, at, jobs, written, before>>
  BY <1>1, <1>2 DEF UploadArchive, Count, planVars, treeVars, seen
<1>6. counts' \in [uploads : Nat, runs : Nat, edits : Nat, faults : Nat] /\ counts'.uploads = id
  BY <1>3, <1>4, <1>5 DEF Observed
<1>7. Observed'
  BY <1>3, <1>5, <1>6 DEF Observed
<1>8. /\ ReqFields(q)
      /\ q.id = id /\ q.pc = "check"
  BY <1>2 DEF Idle, ReqFields
<1>9. ReqKept(q, version, at, counts'.uploads)
  BY <1>4, <1>6, <1>8 DEF ReqKept
<1> QED BY <1>4, <1>5, <1>6, <1>7, <1>8, <1>9, RequestSteps DEF planVars

LEMMA CheckOldKeeps ==
  ASSUME ImportInv, NEW c \in Request, CheckOld(c)
  PROVE  ImportInv'
<1>1. UNCHANGED <<plan, saved, broken, version, at, jobs, counts, written, before>>
  BY DEF CheckOld, planVars, treeVars, seen
<1>2. PICK q : q = reqs'[c]
  OBVIOUS
<1>3. PICK req : req = reqs[c]
  OBVIOUS
<1>4. /\ reqs' = [reqs EXCEPT ![c] = q] /\ q.id \in {0, reqs[c].id}
      /\ ReqFields(q)
      /\ q.pc \in {"clear", "hash", "idle", "remove"} /\ (q.pc = "hash" => q.id # 0)
  <2>1. /\ reqs = [d \in Request |-> reqs[d]]
        /\ ReqFields(req)
    BY <1>3, RequestFields DEF ImportInv, Requests
  <2>2. CASE reqs' = [reqs EXCEPT ![c].pc = IF reqs[c].id = 0 THEN "clear" ELSE "hash"]
    <3>1. PICK pc : pc = IF reqs[c].id = 0 THEN "clear" ELSE "hash"
      OBVIOUS
    <3>2. q = [req EXCEPT !.pc = pc]
      BY <1>2, <1>3, <2>1, <2>2, <3>1
    <3> QED BY <1>3, <2>1, <2>2, <3>1, <3>2 DEF ReqFields
  <2>3. CASE reqs' = [reqs EXCEPT ![c] = Idle]
    BY <1>2, <1>3, <2>1, <2>3 DEF Idle, ReqFields
  <2>4. CASE reqs' = [reqs EXCEPT ![c].pc = "remove", ![c].old = plan.id]
    <3>1. q = [req EXCEPT !.pc = "remove", !.old = plan.id]
      BY <1>2, <1>3, <2>1, <2>4
    <3> QED BY <1>3, <2>1, <2>4, <3>1 DEF ReqFields
  <2> QED BY <2>2, <2>3, <2>4 DEF CheckOld, To, Done
<1>5. ReqKept(q, version, at, counts.uploads)
  BY <1>3, <1>4, RequestFields DEF ReqKept
<1> QED BY <1>1, <1>4, <1>5, RequestTurns

LEMMA RemoveOldKeeps ==
  ASSUME ImportInv, NEW c \in Request, RemoveOld(c)
  PROVE  ImportInv'
<1>1. PICK req : req = reqs[c]
  OBVIOUS
<1>2. PICK q : q = [req EXCEPT !.pc = "clear"]
  OBVIOUS
<1>3. /\ UNCHANGED <<plan, saved, broken, version, at, jobs, counts, written, before>>
      /\ reqs' = [reqs EXCEPT ![c] = q]
  BY <1>1, <1>2 DEF RemoveOld, To, planVars, treeVars, seen
<1>4. /\ ReqFields(q)
      /\ q.id = reqs[c].id /\ q.id \in {0, reqs[c].id} /\ q.pc = "clear"
  <2>1. ReqFields(req)
    BY <1>1, RequestFields
  <2> QED BY <1>1, <1>2, <2>1 DEF ReqFields
<1>5. ReqKept(q, version, at, counts.uploads)
  BY <1>4, RequestFields DEF ReqKept
<1> QED BY <1>3, <1>4, <1>5, RequestTurns

LEMMA ReadHashKeeps ==
  ASSUME ImportInv, NEW c \in Request, ReadHash(c)
  PROVE  ImportInv'
<1>1. PICK req : req = reqs[c]
  OBVIOUS
<1>2. PICK q : q = [req EXCEPT !.pc = "lookup", !.base = version]
  OBVIOUS
<1>3. /\ UNCHANGED <<plan, saved, broken, version, at, jobs, counts, written, before>>
      /\ reqs' = [reqs EXCEPT ![c] = q] /\ reqs[c].pc = "hash"
  BY <1>1, <1>2 DEF ReadHash, AtPc, planVars, treeVars, seen
<1>4. /\ ReqFields(q)
      /\ q.id = reqs[c].id /\ q.id \in {0, reqs[c].id} /\ q.pc = "lookup" /\ q.base = version
  <2>1. ReqFields(req)
    BY <1>1, RequestFields
  <2> QED BY <1>1, <1>2, <2>1 DEF ReqFields
<1>5. version \in Nat /\ version <= version /\ reqs[c].id # 0
  BY <1>3, RequestFields DEF ReqKept
<1>6. ReqKept(q, version, at, counts.uploads)
  BY <1>4, <1>5, RequestFields DEF ReqKept
<1> QED BY <1>3, <1>4, <1>6, RequestTurns

LEMMA LookupKeeps ==
  ASSUME ImportInv, NEW c \in Request, LookupTargets(c)
  PROVE  ImportInv'
<1>1. PICK req : req = reqs[c]
  OBVIOUS
<1>2. PICK todo : todo = [i \in 1..Size |-> IF at[Items[i]] = NoPage THEN "create" ELSE "skip"]
  OBVIOUS
<1>3. PICK q : q = [req EXCEPT !.pc = "set", !.todo = todo]
  OBVIOUS
<1>4. /\ UNCHANGED <<plan, saved, broken, version, at, jobs, counts, written, before>>
      /\ reqs' = [reqs EXCEPT ![c] = q] /\ reqs[c].pc = "lookup"
  BY <1>1, <1>2, <1>3 DEF LookupTargets, AtPc, planVars, treeVars, seen
<1>5. /\ ReqFields(q)
      /\ q.id = reqs[c].id /\ q.id \in {0, reqs[c].id} /\ q.pc = "set"
      /\ q.todo = todo /\ q.base = reqs[c].base
  <2>1. ReqFields(req)
    BY <1>1, RequestFields
  <2> QED BY <1>1, <1>3, <2>1 DEF ReqFields
<1>6. reqs[c].base \in Nat /\ reqs[c].base <= version /\ reqs[c].id # 0
  BY <1>4, RequestFields DEF ReqKept
<1>7. Looked(reqs[c].base, todo, version, at)
  <2>1. todo \in [1..Size -> {"create", "skip"}]
    BY <1>2
  <2>2. \A i \in 1..Size : todo[i] = "create" => at[Items[i]] = NoPage
    BY <1>2
  <2> QED BY <1>6, <2>1, <2>2 DEF Looked
<1>8. ReqKept(q, version, at, counts.uploads)
  BY <1>5, <1>6, <1>7, RequestFields DEF ReqKept
<1> QED BY <1>4, <1>5, <1>8, RequestTurns

LEMMA ClearKeeps ==
  ASSUME ImportInv, NEW c \in Request, Clear(c)
  PROVE  ImportInv'
<1>1. PICK req : req = reqs[c]
  OBVIOUS
<1>2. ReqFields(req) /\ ReqKept(req, version, at, counts.uploads) /\ counts.uploads \in Nat
  BY <1>1, RequestFields
<1>3. PICK on : on = [req EXCEPT !.pc = "hash"]
  OBVIOUS
<1>4. ReqFields(on) /\ on.pc = "hash" /\ on.id = req.id
  BY <1>2, <1>3 DEF ReqFields
<1>5. UNCHANGED <<version, at, jobs, written, before>>
  BY DEF Clear, treeVars, seen
<1>6. /\ UNCHANGED counts \/ Count("faults")
      /\ UNCHANGED planVars \/ (~broken /\ (Persists(NoPlan) \/ PersistFails(NoPlan)))
      /\ reqs' = [reqs EXCEPT ![c] = Idle] \/ (req.id # 0 /\ reqs' = [reqs EXCEPT ![c] = on])
  BY <1>1, <1>3 DEF Clear, Done, To
<1>7. /\ counts' \in [uploads : Nat, runs : Nat, edits : Nat, faults : Nat]
      /\ counts'.uploads = counts.uploads /\ Observed'
  BY <1>5, <1>6, FaultsAreCounted DEF ImportInv, Observed
<1>8. counts.uploads <= counts'.uploads
  BY <1>2, <1>7
<1>9. ASSUME NEW q, reqs' = [reqs EXCEPT ![c] = q], ReqKept(q, version, at, counts.uploads),
             q.id \in {0, reqs[c].id}
      PROVE  ImportInv'
  <2>1. PlanKept(NoPlan, version, at, counts'.uploads) /\ Replaces(c, q, NoPlan)
    BY DEF PlanKept, Replaces
  <2>2. ReqKept(q, version, at, counts'.uploads)
    BY <1>7, <1>9
  <2> QED BY <1>5, <1>6, <1>7, <1>8, <1>9, <2>1, <2>2, RequestSteps
<1>10. CASE reqs' = [reqs EXCEPT ![c] = Idle]
  <2>1. ReqKept(Idle, version, at, counts.uploads) /\ Idle.id \in {0, reqs[c].id}
    BY <1>2, IdleKept
  <2> QED BY <1>9, <1>10, <2>1
<1>11. CASE req.id # 0 /\ reqs' = [reqs EXCEPT ![c] = on]
  <2>1. ReqKept(on, version, at, counts.uploads) /\ on.id \in {0, reqs[c].id}
    BY <1>1, <1>2, <1>4, <1>11 DEF ReqKept
  <2> QED BY <1>9, <1>11, <2>1
<1> QED BY <1>6, <1>10, <1>11

LEMMA SetPlanKeeps ==
  ASSUME ImportInv, NEW c \in Request, SetPlan(c)
  PROVE  ImportInv'
<1>1. PICK req : req = reqs[c]
  OBVIOUS
<1>2. ReqFields(req) /\ ReqKept(req, version, at, counts.uploads) /\ counts.uploads \in Nat /\ version \in Nat
  BY <1>1, RequestFields
<1>3. req.id \in Upload /\ req.id # 0 /\ req.id <= counts.uploads /\ Looked(req.base, req.todo, version, at)
  BY <1>1, <1>2 DEF SetPlan, AtPc, ReqKept
<1>4. PICK new : new = Planned(req)
  OBVIOUS
<1>5. /\ UNCHANGED <<version, at, jobs, written, before>> /\ reqs' = [reqs EXCEPT ![c] = Idle]
      /\ UNCHANGED counts \/ Count("faults")
      /\ UNCHANGED planVars \/ (~broken /\ (Persists(new) \/ PersistFails(new)))
  BY <1>1, <1>4 DEF SetPlan, Done, treeVars, seen
<1>6. /\ counts' \in [uploads : Nat, runs : Nat, edits : Nat, faults : Nat]
      /\ counts'.uploads = counts.uploads /\ Observed'
  BY <1>5, FaultsAreCounted DEF ImportInv, Observed
<1>7. counts.uploads <= counts'.uploads
  BY <1>2, <1>6
<1>8. Size \in Nat /\ Recorded(NoResult, req.todo, version) /\ Len(NoResult.items) = 0
  BY <1>2, ImportAssumption, NoResultRecorded DEF Size
<1>9. /\ new.id = req.id /\ new.base = req.base /\ new.todo = req.todo /\ new.status = "planned"
      /\ new.result = NoResult /\ new.processed = 0
  BY <1>4 DEF Planned
<1>10. new \in StoredPlan
  <2>1. /\ req.base \in Nat /\ req.todo \in [1..Size -> {"create", "skip"}]
        /\ NoResult \in Result /\ 0 \in 0..Size
    BY <1>3, <1>8 DEF Looked, Recorded
  <2> QED BY <1>3, <1>4, <2>1 DEF Planned, StoredPlan, Result, Status
<1>11. PlanKept(new, version, at, counts'.uploads)
  BY <1>3, <1>6, <1>8, <1>9, <1>10 DEF PlanKept
<1>12. ReqKept(Idle, version, at, counts'.uploads) /\ Idle.id \in {0, reqs[c].id} /\ Idle.id = 0
  BY <1>2, <1>6, IdleKept
<1>13. Replaces(c, Idle, new)
  BY <1>1, <1>3, <1>9, <1>12 DEF Replaces
<1> QED BY <1>5, <1>6, <1>7, <1>11, <1>12, <1>13, RequestSteps

LEMMA RequestCancelKeeps ==
  ASSUME ImportInv, NEW c \in Request, RequestCancel(c)
  PROVE  ImportInv'
<1>1. UNCHANGED <<version, at, jobs, written, before>> /\ AtPc(c, "idle") /\ ~broken
  BY DEF RequestCancel, treeVars, seen
<1>2. CASE Is("running")
  <2>1. PICK new : new = [plan EXCEPT !.cancel = TRUE]
    OBVIOUS
  <2>2. /\ UNCHANGED counts \/ Count("faults")
        /\ Persists(new) \/ PersistFails(new)
        /\ UNCHANGED reqs
    BY <1>2, <2>1 DEF RequestCancel
  <2>3. plan # NoPlan /\ plan \in StoredPlan /\ PlanKept(plan, version, at, counts.uploads)
    BY <1>2 DEF Is, ImportInv, Plans, PlanKept
  <2>4. /\ new \in StoredPlan /\ new.id = plan.id /\ new.todo = plan.todo /\ new.base = plan.base
        /\ new.status = plan.status /\ new.processed = plan.processed /\ new.result = plan.result
    BY <2>1, <2>3 DEF StoredPlan
  <2>5. PICK q : q = reqs[c]
    OBVIOUS
  <2>6. /\ counts' \in [uploads : Nat, runs : Nat, edits : Nat, faults : Nat]
        /\ counts'.uploads = counts.uploads /\ Observed' /\ counts.uploads \in Nat
    BY <1>1, <2>2, FaultsAreCounted DEF ImportInv, Observed
  <2>7. counts.uploads <= counts'.uploads
    BY <2>6
  <2>8. PlanKept(new, version, at, counts'.uploads) /\ Replaces(c, q, new)
    BY <2>3, <2>4, <2>6 DEF PlanKept, Replaces
  <2>9. ReqKept(q, version, at, counts'.uploads) /\ q.id \in {0, reqs[c].id}
    BY <2>5, <2>6, RequestFields
  <2>10. reqs' = [reqs EXCEPT ![c] = q]
    BY <2>2, <2>5 DEF ImportInv, Requests
  <2> QED BY <1>1, <2>2, <2>6, <2>7, <2>8, <2>9, <2>10, RequestSteps
<1>3. CASE ~Is("running")
  <2>1. PICK q : q = [Idle EXCEPT !.pc = "check"]
    OBVIOUS
  <2>2. reqs' = [reqs EXCEPT ![c] = q] /\ UNCHANGED <<plan, saved, broken, counts>>
    BY <1>3, <2>1 DEF RequestCancel, planVars
  <2>3. ReqFields(q) /\ q.id = 0 /\ q.pc = "check" /\ q.id \in {0, reqs[c].id}
    BY <2>1 DEF Idle, ReqFields
  <2>4. counts.uploads \in Nat
    BY RequestFields
  <2>5. ReqKept(q, version, at, counts.uploads)
    BY <2>3, <2>4 DEF ReqKept
  <2> QED BY <1>1, <2>2, <2>3, <2>5, RequestTurns
<1> QED BY <1>2, <1>3

-----------------------------------------------------------------------------
(* Starting, editing and restarting *)

\* A plan is started from its first item; no other execution has it.
LEMMA StartKeeps ==
  ASSUME ImportInv, StartExecution
  PROVE  ImportInv'
<1>1. PICK new : new = [plan EXCEPT !.status = "running", !.cancel = FALSE, !.processed = 0,
                                    !.result = NoResult]
  OBVIOUS
<1>2. /\ ~broken /\ plan # NoPlan /\ plan.status \notin {"running", "completed"} /\ counts.runs < MaxRuns
      /\ UNCHANGED <<version, at, reqs, before>>
  BY DEF StartExecution, treeVars
<1>3. saved = plan /\ plan \in StoredPlan /\ PlanKept(plan, version, at, counts.uploads)
  BY <1>2 DEF ImportInv, Plans, PlanKept
<1>4. /\ version \in Nat /\ Size \in Nat /\ 0 \in 0..Size /\ counts.uploads \in Nat
      /\ counts \in [uploads : Nat, runs : Nat, edits : Nat, faults : Nat]
      /\ written \subseteq Upload \X (1..Size) /\ before \in [Upload -> SUBSET Place]
  BY ImportAssumption DEF ImportInv, Observed, Size
<1>5. Recorded(NoResult, plan.todo, version) /\ Len(NoResult.items) = 0 /\ NoResult \in Result
  BY <1>4, NoResultRecorded DEF Recorded
<1>6. /\ new \in StoredPlan /\ new.id = plan.id /\ new.todo = plan.todo /\ new.base = plan.base
      /\ new.status = "running" /\ new.processed = 0 /\ new.result = NoResult
  BY <1>1, <1>3, <1>4, <1>5 DEF StoredPlan, Result, Status
<1>7. PlanKept(new, version, at, counts.uploads)
  <2>1. plan.id <= counts.uploads /\ Looked(plan.base, plan.todo, version, at)
    BY <1>2, <1>3 DEF PlanKept
  <2> QED BY <1>5, <1>6, <2>1 DEF PlanKept
<1>8. \A s \in Run : /\ JobKept(jobs[s], version, at, counts.uploads)
                     /\ JobFresh(jobs[s], written, before, version)
                     /\ SameWork(jobs[s], plan) /\ InStep(jobs[s], plan)
  BY <1>2 DEF ImportInv, Jobs
<1>9. \A s \in Run : Live(jobs[s]) => jobs[s].id # plan.id
  BY <1>2, <1>8 DEF InStep
<1>10. \A s \in Run : SameWork(jobs[s], new) /\ InStep(jobs[s], new)
  BY <1>2, <1>6, <1>8, <1>9 DEF SameWork, InStep
<1>11. \A id : Unstored(id, plan) => Unstored(id, new)
  BY <1>2, <1>6 DEF Unstored
<1>12. CASE Persists(new) /\ Count("runs")
  <2>1. PICK r : r = counts.runs + 1
    OBVIOUS
  <2>2. r \in Run /\ r \in Nat
    BY <1>2, <1>4, <2>1, ImportAssumption DEF Run
  <2>3. PICK j : j = [NoJob EXCEPT !.pc = "begin", !.id = plan.id, !.todo = plan.todo, !.base = plan.base]
    OBVIOUS
  <2>4. /\ plan' = new /\ saved' = new /\ broken' = broken /\ counts' = [counts EXCEPT !.runs = r]
    BY <1>12, <2>1 DEF Persists, Count
  <2>5. jobs' = [jobs EXCEPT ![r] = j] /\ written' = {w \in written : w[1] # plan.id}
    <3>1. ~broken'
      BY <1>2, <2>4
    <3> QED BY <1>1, <2>1, <2>3, <3>1 DEF StartExecution, PersistFails
  <2>6. counts' \in [uploads : Nat, runs : Nat, edits : Nat, faults : Nat] /\ counts'.uploads = counts.uploads
    BY <1>4, <2>2, <2>4
  <2>7. Observed'
    BY <1>2, <1>4, <2>5, <2>6 DEF Observed
  <2>8. Resumable(new, written', before', version')
    BY <1>6, <2>5 DEF Resumable
  <2>9. Plans'
    BY <1>2, <1>7, <2>4, <2>6, <2>8 DEF Plans
  <2>10. /\ Fields(j) /\ j.pc = "begin" /\ j.id = plan.id /\ j.todo = plan.todo /\ j.base = plan.base
         /\ j.next = 1 /\ j.result = NoResult /\ Live(j)
    BY <2>3 DEF NoJob, Fields, Live
  <2>11. JobKept(j, version', at', counts'.uploads)
    <3>1. plan.id \in Upload /\ plan.id <= counts.uploads /\ Looked(plan.base, plan.todo, version, at)
      BY <1>2, <1>3 DEF PlanKept, StoredPlan
    <3>2. 1 \in 1..Size + 1 /\ 0 = 1 - 1
      BY <1>4
    <3> QED BY <1>2, <1>5, <2>6, <2>10, <3>1, <3>2 DEF JobKept
  <2>12. JobFresh(j, written', before', version')
    BY <2>5, <2>10 DEF JobFresh
  <2>13. SameWork(j, new) /\ InStep(j, new)
    BY <1>6, <2>10 DEF SameWork, InStep
  <2>14. \A s \in Run : JobFresh(jobs[s], written', before', version')
    <3>1. version <= version
      BY <1>4
    <3>2. \A w \in written' : w \in written
      BY <2>5
    <3> QED BY <1>2, <1>4, <1>8, <3>1, <3>2, FreshLater
  <2>15. jobs' = [s \in Run |-> jobs'[s]] /\ jobs'[r] = j /\ \A s \in Run \ {r} : jobs'[s] = jobs[s]
    BY <2>2, <2>5 DEF ImportInv, Jobs
  <2>16. \A s, t \in Run : Live(jobs'[s]) /\ Live(jobs'[t]) /\ jobs'[s].id = jobs'[t].id => s = t
    BY <1>9, <2>10, <2>15 DEF ImportInv, Jobs
  <2>17. Jobs'
    BY <1>2, <1>8, <1>10, <2>4, <2>6, <2>11, <2>12, <2>13, <2>14, <2>15, <2>16 DEF Jobs
  <2>18. \A c \in Request : reqs[c].id # 0 => j.id # reqs[c].id
    BY <1>2, <2>10 DEF ImportInv, Requests, Unstored
  <2>19. Requests'
    BY <1>2, <1>11, <2>4, <2>6, <2>15, <2>18 DEF ImportInv, Requests
  <2> QED BY <2>7, <2>9, <2>17, <2>19 DEF ImportInv
<1>13. CASE PersistFails(new) /\ Count("faults") /\ UNCHANGED <<jobs, written>>
  <2>1. plan' = new /\ saved' = saved /\ broken' = TRUE
    BY <1>13 DEF PersistFails
  <2>2. Observed' /\ counts'.uploads = counts.uploads
    BY <1>2, <1>13, FaultsAreCounted DEF ImportInv, Observed
  <2>3. Plans'
    BY <1>2, <1>7, <2>1, <2>2, <1>13 DEF ImportInv, Plans
  <2>4. Jobs'
    BY <1>2, <1>10, <1>13, <2>1, <2>2 DEF ImportInv, Jobs
  <2>5. Requests'
    BY <1>2, <1>11, <1>13, <2>1, <2>2 DEF ImportInv, Requests
  <2> QED BY <2>2, <2>3, <2>4, <2>5 DEF ImportInv
<1> QED BY <1>1, <1>12, <1>13 DEF StartExecution

\* A user changes the tree, and its hash with it.
LEMMA EditKeeps ==
  ASSUME ImportInv, version' = version + 1, Count("edits"),
         UNCHANGED <<plan, saved, broken, reqs, jobs, written, before>>
  PROVE  ImportInv'
<1>1. counts \in [uploads : Nat, runs : Nat, edits : Nat, faults : Nat] /\ version \in Nat
  BY DEF ImportInv, Observed
<1>2. PICK edits \in Nat : edits = counts.edits + 1
  BY <1>1
<1>3. counts' = [counts EXCEPT !.edits = edits]
  BY <1>2 DEF Count
<1>4. counts' \in [uploads : Nat, runs : Nat, edits : Nat, faults : Nat] /\ counts'.uploads = counts.uploads
  BY <1>1, <1>3
<1>5. Later(version, at, counts.uploads, version', at', counts'.uploads)
  BY <1>1, <1>4 DEF Later
<1>6. version' \in Nat /\ version <= version'
  BY <1>1
<1>7. Observed'
  BY <1>4, <1>6 DEF ImportInv, Observed
<1>8. Resumable(saved, written', before', version')
  BY <1>1, <1>6, ResumableLater DEF ImportInv, Plans, Resumable
<1>9. Plans'
  BY <1>5, <1>8, PlanLater DEF ImportInv, Plans
<1>10. \A r \in Run : JobFresh(jobs[r], written', before', version')
  BY <1>1, <1>6, FreshLater DEF ImportInv, Jobs
<1>11. \A r \in Run : JobKept(jobs[r], version', at', counts'.uploads)
  BY <1>5, JobLater DEF ImportInv, Jobs
<1>12. Jobs'
  BY <1>10, <1>11 DEF ImportInv, Jobs
<1>13. \A c \in Request : ReqKept(reqs[c], version', at', counts'.uploads)
  BY <1>5, ReqLater DEF ImportInv, Requests
<1>14. Requests'
  BY <1>13 DEF ImportInv, Requests
<1> QED BY <1>7, <1>9, <1>12, <1>14 DEF ImportInv

\* The execution that resumes a plan knows what the stored plan says, and nobody else has it.
LEMMA RestartKeeps ==
  ASSUME ImportInv, Restart
  PROVE  ImportInv'
<1>1. PICK resumes : resumes = (saved # NoPlan /\ saved.status = "running")
  OBVIOUS
<1>2. PICK next : next = counts.runs + 1
  OBVIOUS
<1>3. PICK j : j = Resumed(saved)
  OBVIOUS
<1>4. /\ plan' = saved /\ saved' = saved /\ broken' = FALSE /\ UNCHANGED <<version, at, written, before>>
      /\ reqs' = [c \in Request |-> Idle]
      /\ jobs' = [r \in Run |-> IF resumes /\ r = next THEN j ELSE NoJob]
      /\ counts' = [counts EXCEPT !.faults = @ + 1, !.runs = IF resumes THEN @ + 1 ELSE @]
  BY <1>1, <1>2, <1>3 DEF Restart, treeVars, seen
<1>5. /\ counts \in [uploads : Nat, runs : Nat, edits : Nat, faults : Nat] /\ version \in Nat
      /\ Size \in Nat /\ counts.uploads \in Nat
  BY ImportAssumption DEF ImportInv, Observed, Size
<1>6. counts' \in [uploads : Nat, runs : Nat, edits : Nat, faults : Nat] /\ counts'.uploads = counts.uploads
  <2>1. PICK faults \in Nat : faults = counts.faults + 1
    BY <1>5
  <2>2. PICK runs \in Nat : runs = IF resumes THEN counts.runs + 1 ELSE counts.runs
    BY <1>5
  <2>3. counts' = [counts EXCEPT !.faults = faults, !.runs = runs]
    BY <1>4, <2>1, <2>2
  <2> QED BY <1>5, <2>3
<1>7. Observed'
  BY <1>4, <1>6 DEF ImportInv, Observed
<1>8. PlanKept(saved, version, at, counts.uploads) /\ Resumable(saved, written, before, version)
  BY DEF ImportInv, Plans
<1>9. Plans'
  BY <1>4, <1>6, <1>8 DEF Plans
<1>10. NoJob.id = 0 /\ NoJob.pc = "none" /\ ~Live(NoJob)
  BY DEF NoJob, Live
<1>11. /\ JobKept(NoJob, version, at, counts.uploads) /\ JobFresh(NoJob, written, before, version)
       /\ SameWork(NoJob, saved) /\ InStep(NoJob, saved)
  <2>1. saved # NoPlan => saved.id # 0
    BY <1>8 DEF PlanKept, StoredPlan, Upload
  <2> QED BY <1>10, <2>1 DEF JobKept, JobFresh, SameWork, InStep
<1>12. ASSUME resumes
       PROVE  /\ JobKept(j, version, at, counts.uploads) /\ JobFresh(j, written, before, version)
              /\ SameWork(j, saved) /\ InStep(j, saved)
  <2>1. /\ saved # NoPlan /\ saved \in StoredPlan /\ saved.status = "running" /\ saved.id <= counts.uploads
        /\ Looked(saved.base, saved.todo, version, at) /\ Recorded(saved.result, saved.todo, version)
        /\ Len(saved.result.items) = saved.processed
    BY <1>1, <1>8, <1>12 DEF PlanKept
  <2>2. saved.id \in Upload /\ saved.processed \in 0..Size
    BY <2>1 DEF StoredPlan
  <2>3. PICK n : n = saved.processed + 1
    OBVIOUS
  <2>4. /\ n \in 1..Size + 1 /\ saved.processed = n - 1 /\ (n > 1 <=> saved.processed > 0)
        /\ \A w \in written : w[2] <= saved.processed => w[2] < n
    BY <1>5, <2>2, <2>3, WrittenItems
  <2>5. /\ Fields(j) /\ j.pc = "begin" /\ j.id = saved.id /\ j.todo = saved.todo /\ j.base = saved.base
        /\ j.next = n /\ j.result = saved.result
    BY <1>3, <2>3 DEF Resumed, NoJob, Fields
  <2>6. JobKept(j, version, at, counts.uploads)
    BY <2>1, <2>2, <2>4, <2>5 DEF JobKept
  <2>7. Expected(j) = IF saved.processed > 0 THEN saved.result.hash ELSE saved.base
    BY <2>4, <2>5 DEF Expected
  <2>8. JobFresh(j, written, before, version)
    BY <1>8, <2>1, <2>4, <2>5, <2>7 DEF JobFresh, Resumable
  <2> QED BY <2>1, <2>3, <2>5, <2>6, <2>8 DEF SameWork, InStep
<1>13. \A r \in Run : /\ JobKept(jobs'[r], version, at, counts.uploads)
                      /\ JobFresh(jobs'[r], written, before, version)
                      /\ SameWork(jobs'[r], saved) /\ InStep(jobs'[r], saved)
  BY <1>4, <1>11, <1>12
<1>14. \A r, s \in Run : Live(jobs'[r]) /\ Live(jobs'[s]) /\ jobs'[r].id = jobs'[s].id => r = s
  BY <1>4, <1>10
<1>15. Jobs'
  BY <1>4, <1>6, <1>13, <1>14 DEF Jobs
<1>16. Requests'
  <2>1. ReqKept(Idle, version, at, counts.uploads) /\ Idle.id = 0
    BY <1>5, IdleKept
  <2> QED BY <1>4, <1>6, <2>1 DEF Requests, Unstored
<1> QED BY <1>7, <1>9, <1>15, <1>16 DEF ImportInv

LEMMA ImportStarts ==
  ASSUME ImportInit
  PROVE  ImportInv
<1>1. /\ plan = NoPlan /\ saved = NoPlan /\ version = 1 /\ reqs = [c \in Request |-> Idle]
      /\ jobs = [r \in Run |-> NoJob] /\ counts \in Spent /\ written = {}
      /\ before = [id \in Upload |-> {}]
  BY DEF ImportInit
<1>2. Observed /\ counts.uploads \in Nat
  BY <1>1, ImportAssumption DEF Observed
<1>3. Plans
  BY <1>1 DEF Plans, PlanKept, Resumable
<1>4. NoJob.id = 0 /\ NoJob.pc = "none" /\ ~Live(NoJob)
  BY DEF NoJob, Live
<1>5. Jobs
  BY <1>1, <1>4 DEF Jobs, JobKept, JobFresh, SameWork, InStep
<1>6. ReqKept(Idle, version, at, counts.uploads) /\ Idle.id = 0
  BY <1>2, IdleKept
<1>7. Requests
  BY <1>1, <1>4, <1>6 DEF Requests, Unstored
<1> QED BY <1>2, <1>3, <1>5, <1>7 DEF ImportInv

LEMMA ImportStep ==
  ASSUME ImportInv, [ImportNext]_importVars
  PROVE  ImportInv'
<1>1. ASSUME NEW c \in Request, RequestStep(c)
      PROVE  ImportInv'
  BY <1>1, UploadKeeps, CheckOldKeeps, RemoveOldKeeps, ClearKeeps, ReadHashKeeps, LookupKeeps,
     SetPlanKeeps, RequestCancelKeeps DEF RequestStep
<1>2. ASSUME NEW r \in Run, JobStep(r)
      PROVE  ImportInv'
  BY <1>2, BeginKeeps, NextItemKeeps, EnsurePathKeeps, WritePageKeeps, NoteItemKeeps, AllDoneKeeps,
     FinishKeeps, CleanupKeeps DEF JobStep
<1>3. ASSUME NEW p \in Edited, UserWrites(p) \/ UserDeletes(p)
      PROVE  ImportInv'
  BY <1>3, EditKeeps DEF UserWrites, UserDeletes, Touched, planVars, seen
<1>4. ASSUME UNCHANGED importVars
      PROVE  ImportInv'
  BY <1>4 DEF importVars, ImportInv, Observed, Plans, Jobs, Requests
<1> QED BY <1>1, <1>2, <1>3, <1>4, StartKeeps, RestartKeeps DEF ImportNext

LEMMA ImportInvariant == ImportSpec => []ImportInv
<1>1. ImportInit => ImportInv
  BY ImportStarts
<1>2. ImportInv /\ [ImportNext]_importVars => ImportInv'
  BY ImportStep
<1> QED BY <1>1, <1>2, PTL DEF ImportSpec

-----------------------------------------------------------------------------

\* The result that is stored accounts for each item, for any archive, however often an execution
\* is interrupted, resumed, canceled or replaced, and wherever the state file cannot be written.
THEOREM OutcomesAreComplete == ImportSpec => []OutcomesComplete
<1>1. ImportInv => OutcomesComplete
  BY DEF ImportInv, Plans, PlanKept, Recorded, OutcomesComplete
<1> QED BY <1>1, ImportInvariant, PTL

\* No execution writes an item twice, or over a page that a user had when it was started.
THEOREM OnlyFreshWrites == ImportSpec => WritesAreFresh
<1>1. ASSUME ImportInv, NEW r \in Run, jobs[r].pc = "write"
      PROVE  /\ <<jobs[r].id, jobs[r].next>> \notin written
             /\ Items[jobs[r].next] \notin before[jobs[r].id]
  <2>1. /\ JobFresh(jobs[r], written, before, version) /\ jobs[r].todo[jobs[r].next] = "create"
        /\ jobs[r].next \in 1..Size + 1 /\ jobs[r].next <= Size /\ Size \in Nat
    BY <1>1, JobAtWork DEF Live
  <2>2. PICK n \in 1..Size : n = jobs[r].next
    BY <2>1
  <2>3. \A w \in written : w[1] = jobs[r].id => w[2] < n
    BY <1>1, <2>1, <2>2 DEF JobFresh
  <2>4. <<jobs[r].id, n>> \notin written
    BY <2>2, <2>3
  <2>5. Items[n] \notin before[jobs[r].id]
    BY <1>1, <2>1, <2>2 DEF JobFresh, Free
  <2> QED BY <2>2, <2>4, <2>5
<1>2. ImportInv /\ [ImportNext]_importVars =>
        [\A r \in Run : jobs[r].pc = "write" /\ jobs'[r].pc = "note" =>
           LET p == Items[jobs[r].next] IN
           /\ <<jobs[r].id, jobs[r].next>> \notin written
           /\ p \in before[jobs[r].id] => at[p].text # "user"]_importVars
  BY <1>1
<1> QED BY <1>2, ImportInvariant, PTL DEF ImportSpec, WritesAreFresh

-----------------------------------------------------------------------------
(***************************************************************************)
(* What becomes of the links of an archive, for any archive, any names and *)
(* any failures.                                                           *)
(***************************************************************************)

Smaller == {pair \in Nat \X Nat : pair[1] < pair[2]}

\* A set of natural numbers has a least one: what the inductions below rest on.
LEMMA LeastNatural ==
  ASSUME NEW T, T \subseteq Nat, T # {}
  PROVE  \E m \in T : \A n \in T : m <= n
<1>1. IsWellFoundedOn(Smaller, Nat)
  BY NatLessThanWellFounded DEF OpToRel, Smaller
<1>2. PICK m \in T : \A n \in T : <<n, m>> \notin Smaller
  BY <1>1, WFMin
<1>3. ASSUME NEW n \in T, n < m
      PROVE  FALSE
  <2>1. n \in Nat /\ m \in Nat
    OBVIOUS
  <2>2. <<n, m>> \in Smaller
    BY <2>1, <1>3 DEF Smaller
  <2> QED BY <2>2, <1>2
<1>4. \A n \in T : n \in Nat /\ m \in Nat /\ ~(n < m)
  BY <1>3
<1> QED BY <1>4

IsWalk(w, start, segs, N) == w = [n \in 0..N |-> IF n = 0 THEN start ELSE Into(w[n - 1], segs[n])]

\* path.Join can be unfolded.
LEMMA WalkExists ==
  ASSUME NEW L \in Nat, NEW start, NEW segs
  PROVE  \E w : IsWalk(w, start, segs, L)
<1> DEFINE Bad == {N \in Nat : ~ \E w : IsWalk(w, start, segs, N)}
<1>1. Bad = {}
  <2> SUFFICES ASSUME Bad # {}
               PROVE  FALSE
    OBVIOUS
  <2>1. PICK m \in Bad : \A n \in Bad : m <= n
    <3> Bad \subseteq Nat
      OBVIOUS
    <3> HIDE DEF Bad
    <3> QED BY LeastNatural
  <2>2. m \in Nat /\ ~ \E w : IsWalk(w, start, segs, m)
    OBVIOUS
  <2>3. m # 0
    <3> DEFINE w0 == [n \in 0..0 |-> start]
    <3>1. IsWalk(w0, start, segs, 0)
      BY DEF IsWalk
    <3> QED BY <2>2, <3>1
  <2>4. m - 1 \in Nat /\ m - 1 \notin Bad
    BY <2>1, <2>2, <2>3
  <2>5. PICK w : IsWalk(w, start, segs, m - 1)
    BY <2>4
  <2> DEFINE v == [n \in 0..m |-> IF n = m THEN Into(w[m - 1], segs[m]) ELSE w[n]]
  <2>6. \A n \in 0..m : v[n] = IF n = 0 THEN start ELSE Into(v[n - 1], segs[n])
    <3> SUFFICES ASSUME NEW n \in 0..m
                 PROVE  v[n] = IF n = 0 THEN start ELSE Into(v[n - 1], segs[n])
      OBVIOUS
    <3>1. CASE n = m
      <4>1. v[n] = Into(w[m - 1], segs[m]) /\ v[m - 1] = w[m - 1]
        BY <3>1, <2>2, <2>3
      <4> QED BY <4>1, <3>1, <2>3
    <3>2. CASE n # m
      <4>1. n \in 0..(m - 1) /\ v[n] = w[n]
        BY <3>2, <2>2
      <4>2. w[n] = IF n = 0 THEN start ELSE Into(w[n - 1], segs[n])
        BY <4>1, <2>5 DEF IsWalk
      <4>3. n # 0 => v[n - 1] = w[n - 1]
        BY <4>1, <3>2, <2>2
      <4> QED BY <4>1, <4>2, <4>3
    <3> QED BY <3>1, <3>2
  <2>7. v = [n \in 0..m |-> IF n = 0 THEN start ELSE Into(v[n - 1], segs[n])]
    <3> HIDE DEF v
    <3>1. DOMAIN v = 0..m /\ v = [n \in DOMAIN v |-> v[n]]
      BY DEF v
    <3> QED BY <3>1, <2>6
  <2>8. IsWalk(v, start, segs, m)
    BY <2>7 DEF IsWalk
  <2> QED BY <2>2, <2>8
<1> QED BY <1>1

Start(source, link) == IF link.from = "top" THEN <<>> ELSE Above(source)

LEMMA BaseWalks ==
  ASSUME NEW source, NEW link, Len(link.segs) \in Nat
  PROVE  \E w : IsWalk(w, Start(source, link), link.segs, Len(link.segs)) /\ Base(source, link) = w[Len(link.segs)]
<1> DEFINE start == Start(source, link)
           w == CHOOSE w : w = [n \in 0..Len(link.segs) |-> IF n = 0 THEN start ELSE Into(w[n - 1], link.segs[n])]
<1>1. \E u : u = [n \in 0..Len(link.segs) |-> IF n = 0 THEN start ELSE Into(u[n - 1], link.segs[n])]
  <2>1. PICK u : IsWalk(u, start, link.segs, Len(link.segs))
    <3> HIDE DEF start
    <3> QED BY WalkExists
  <2>2. u = [n \in 0..Len(link.segs) |-> IF n = 0 THEN start ELSE Into(u[n - 1], link.segs[n])]
    BY <2>1 DEF IsWalk
  <2> HIDE DEF start
  <2> QED BY <2>2
<1>2. w = [n \in 0..Len(link.segs) |-> IF n = 0 THEN start ELSE Into(w[n - 1], link.segs[n])]
  <2> HIDE DEF start
  <2> QED BY <1>1
<1>3. Base(source, link) = w[Len(link.segs)]
  BY DEF Base, Start
<1> QED BY <1>2, <1>3 DEF IsWalk

Places == Seq(Name) \cup {Outside}

LEMMA AboveType ==
  ASSUME NEW p \in Seq(Name), p # <<>>
  PROVE  /\ Above(p) \in Seq(Name) /\ Len(Above(p)) = Len(p) - 1
         /\ \A i \in 1..(Len(p) - 1) : Above(p)[i] = p[i]
<1>1. Len(p) \in Nat /\ Len(p) >= 1
  OBVIOUS
<1>2. \A i \in 1..(Len(p) - 1) : p[i] \in Name
  BY <1>1
<1> DEFINE n == Len(p) - 1
<1>3. n \in Int /\ \A i \in 1..n : p[i] \in Name
  BY <1>1, <1>2
<1>4. /\ SubSeq(p, 1, n) \in Seq(Name)
      /\ Len(SubSeq(p, 1, n)) = IF 1 <= n THEN n - 1 + 1 ELSE 0
      /\ \A i \in 1..(n - 1 + 1) : SubSeq(p, 1, n)[i] = p[1 + i - 1]
  <2> HIDE DEF n
  <2> QED BY <1>3, SubSeqProperties
<1>5. \A i \in 1..n : i \in 1..(n - 1 + 1) /\ 1 + i - 1 = i
  BY <1>1
<1>6. Len(SubSeq(p, 1, n)) = n
  <2>1. n \in Nat
    BY <1>1
  <2> HIDE DEF n
  <2> QED BY <2>1, <1>4
<1> QED BY <1>4, <1>5, <1>6 DEF Above

LEMMA IntoType ==
  ASSUME NEW p \in Places, NEW s \in Name \cup {Up}
  PROVE  Into(p, s) \in Places
<1>1. CASE p = Outside \/ (s = Up /\ p = <<>>)
  BY <1>1 DEF Into, Places
<1>2. CASE ~(p = Outside \/ (s = Up /\ p = <<>>))
  <2>1. p \in Seq(Name)
    BY <1>2 DEF Places
  <2>2. CASE s = Up
    BY <1>2, <2>1, <2>2, AboveType DEF Into, Places
  <2>3. CASE s # Up
    <3>1. s \in Name
      BY <2>3
    <3>2. Into(p, s) = Append(p, s)
      BY <1>2, <2>3 DEF Into
    <3> QED BY <3>1, <3>2, <2>1, AppendProperties DEF Places
  <2> QED BY <2>2, <2>3
<1> QED BY <1>1, <1>2

File == Seq(Name) \ {<<>>}

\* Where a link starts, and so wherever it has got, is a place in the archive or outside.
LEMMA WalkType ==
  ASSUME NEW source \in File, NEW link \in Link,
         NEW w, IsWalk(w, Start(source, link), link.segs, Len(link.segs))
  PROVE  \A n \in 0..Len(link.segs) : w[n] \in Places
<1> DEFINE L == Len(link.segs)
           Bad == {n \in 0..L : w[n] \notin Places}
<1>0. link.segs \in Seq(Name \cup {Up}) /\ L \in Nat /\ \A n \in 1..L : link.segs[n] \in Name \cup {Up}
  BY DEF Link
<1>1. Bad = {}
  <2> SUFFICES ASSUME Bad # {}
               PROVE  FALSE
    OBVIOUS
  <2>1. PICK m \in Bad : \A n \in Bad : m <= n
    <3> Bad \subseteq Nat
      BY <1>0
    <3> HIDE DEF Bad
    <3> QED BY LeastNatural
  <2>2. m \in 0..L /\ w[m] \notin Places
    OBVIOUS
  <2>3. w[m] = IF m = 0 THEN Start(source, link) ELSE Into(w[m - 1], link.segs[m])
    BY <2>2 DEF IsWalk
  <2>4. Start(source, link) \in Places
    BY AboveType DEF Start, Places, File
  <2>5. m # 0
    BY <2>2, <2>3, <2>4
  <2>6. m - 1 \in 0..L /\ m - 1 \notin Bad
    BY <2>1, <2>2, <2>5, <1>0
  <2>7. w[m - 1] \in Places /\ link.segs[m] \in Name \cup {Up}
    BY <2>6, <2>2, <2>5, <1>0
  <2> QED BY <2>2, <2>3, <2>5, <2>7, IntoType
<1> QED BY <1>1

LEMMA BaseType ==
  ASSUME NEW source \in File, NEW link \in Link
  PROVE  /\ Base(source, link) \in Places
         /\ (link.segs # <<>> /\ Last(link.segs) # Up /\ Base(source, link) # Outside) =>
              Base(source, link) \in File /\ Last(Base(source, link)) = Last(link.segs)
<1> DEFINE L == Len(link.segs)
<1>0. link.segs \in Seq(Name \cup {Up}) /\ L \in Nat /\ \A n \in 1..L : link.segs[n] \in Name \cup {Up}
  BY DEF Link
<1>1. PICK w : IsWalk(w, Start(source, link), link.segs, L) /\ Base(source, link) = w[L]
  BY <1>0, BaseWalks
<1>2. \A n \in 0..L : w[n] \in Places
  BY <1>1, WalkType
<1>3. Base(source, link) \in Places
  BY <1>0, <1>1, <1>2
<1>4. ASSUME link.segs # <<>>, Last(link.segs) # Up, Base(source, link) # Outside
      PROVE  Base(source, link) \in File /\ Last(Base(source, link)) = Last(link.segs)
  <2>1. L \in 1..L /\ L # 0
    BY <1>0, <1>4
  <2>2. Base(source, link) = Into(w[L - 1], link.segs[L]) /\ w[L - 1] \in Places
    <3>1. w = [n \in 0..L |-> IF n = 0 THEN Start(source, link) ELSE Into(w[n - 1], link.segs[n])]
      BY <1>1 DEF IsWalk
    <3>2. L \in 0..L /\ L - 1 \in 0..L
      BY <2>1, <1>0
    <3> HIDE DEF L
    <3>3. w[L] = IF L = 0 THEN Start(source, link) ELSE Into(w[L - 1], link.segs[L])
      BY <3>1, <3>2
    <3> QED BY <3>2, <3>3, <2>1, <1>1, <1>2
  <2>3. link.segs[L] \in Name /\ link.segs[L] = Last(link.segs) /\ link.segs[L] # Up
    BY <2>1, <1>0, <1>4 DEF Last
  <2>4. w[L - 1] # Outside
    BY <2>2, <1>4 DEF Into
  <2>5. w[L - 1] \in Seq(Name) /\ Base(source, link) = Append(w[L - 1], link.segs[L])
    BY <2>2, <2>3, <2>4 DEF Into, Places
  <2> HIDE DEF L
  <2> QED BY <2>3, <2>5, AppendProperties DEF File, Last
<1> QED BY <1>3, <1>4

-----------------------------------------------------------------------------
(* Names without regard to case, and the pages of files *)

LEMMA FoldedType ==
  ASSUME NEW p \in Seq(Name)
  PROVE  /\ Folded(p) \in Seq(Name) /\ Len(Folded(p)) = Len(p) /\ DOMAIN Folded(p) = 1..Len(p)
         /\ \A i \in 1..Len(p) : p[i] \in Name /\ Folded(p)[i] = Fold[p[i]]
<1>1. Len(p) \in Nat /\ DOMAIN p = 1..Len(p) /\ \A i \in 1..Len(p) : p[i] \in Name
  OBVIOUS
<1>2. Folded(p) = [i \in 1..Len(p) |-> Fold[p[i]]]
  BY <1>1 DEF Folded
<1>3. \A i \in 1..Len(p) : Fold[p[i]] \in Name
  BY <1>1, ImportLinksAssumption
<1>4. Folded(p) \in Seq(Name)
  BY <1>1, <1>2, <1>3, IsASeq
<1> QED BY <1>1, <1>2, <1>4, LenProperties

LEMMA SluggedType ==
  ASSUME NEW p \in Seq(Name)
  PROVE  /\ Slugged(p) \in Seq(Name) /\ Len(Slugged(p)) = Len(p) /\ DOMAIN Slugged(p) = 1..Len(p)
         /\ \A i \in 1..Len(p) : p[i] \in Name /\ Slugged(p)[i] = Slug[p[i]]
<1>1. Len(p) \in Nat /\ DOMAIN p = 1..Len(p) /\ \A i \in 1..Len(p) : p[i] \in Name
  OBVIOUS
<1>2. Slugged(p) = [i \in 1..Len(p) |-> Slug[p[i]]]
  BY <1>1 DEF Slugged
<1>3. \A i \in 1..Len(p) : Slug[p[i]] \in Name
  BY <1>1, ImportLinksAssumption
<1>4. Slugged(p) \in Seq(Name)
  BY <1>1, <1>2, <1>3, IsASeq
<1> QED BY <1>1, <1>2, <1>4, LenProperties

\* Paths that differ in case only have the same slugs.
LEMMA SluggedOfFolded ==
  ASSUME NEW f \in Seq(Name), NEW g \in Seq(Name), Folded(f) = Folded(g)
  PROVE  Slugged(f) = Slugged(g)
<1>1. Len(f) = Len(g)
  BY FoldedType
<1>2. \A i \in 1..Len(f) : Slug[f[i]] = Slug[g[i]]
  <2> SUFFICES ASSUME NEW i \in 1..Len(f)
               PROVE  Slug[f[i]] = Slug[g[i]]
    OBVIOUS
  <2>1. Fold[f[i]] = Fold[g[i]] /\ f[i] \in Name /\ g[i] \in Name
    BY <1>1, FoldedType
  <2>2. Slug[f[i]] = Slug[Fold[f[i]]] /\ Slug[g[i]] = Slug[Fold[g[i]]]
    BY <2>1, ImportLinksAssumption
  <2> QED BY <2>1, <2>2
<1> QED BY <1>1, <1>2, SluggedType, SeqEqual

LEMMA FoldedAbove ==
  ASSUME NEW f \in File, NEW g \in File, Folded(f) = Folded(g)
  PROVE  Folded(Above(f)) = Folded(Above(g)) /\ Fold[Last(f)] = Fold[Last(g)]
<1>1. /\ f \in Seq(Name) /\ g \in Seq(Name) /\ f # <<>> /\ g # <<>>
      /\ Above(f) \in Seq(Name) /\ Above(g) \in Seq(Name) /\ Len(f) = Len(g)
      /\ Len(f) \in Nat /\ Len(f) >= 1
  BY FoldedType, AboveType DEF File
<1>2. \A i \in 1..Len(f) : Fold[f[i]] = Fold[g[i]]
  BY <1>1, FoldedType
<1>3. Len(Above(f)) = Len(f) - 1 /\ Len(Above(g)) = Len(f) - 1
  BY <1>1, AboveType
<1>4. \A i \in 1..(Len(f) - 1) : Folded(Above(f))[i] = Folded(Above(g))[i]
  <2> SUFFICES ASSUME NEW i \in 1..(Len(f) - 1)
               PROVE  Folded(Above(f))[i] = Folded(Above(g))[i]
    OBVIOUS
  <2>1. Above(f)[i] = f[i] /\ Above(g)[i] = g[i] /\ i \in 1..Len(f)
    BY <1>1, AboveType
  <2>2. i \in 1..Len(Above(f)) /\ i \in 1..Len(Above(g))
    BY <1>3
  <2> QED BY <2>1, <2>2, <1>1, <1>2, FoldedType
<1>5. Folded(Above(f)) = Folded(Above(g))
  <2>1. Folded(Above(f)) \in Seq(Name) /\ Folded(Above(g)) \in Seq(Name)
    BY <1>1, FoldedType
  <2>2. Len(Folded(Above(f))) = Len(f) - 1 /\ Len(Folded(Above(g))) = Len(f) - 1
    BY <1>1, <1>3, FoldedType
  <2> QED BY <2>1, <2>2, <1>4, SeqEqual
<1> QED BY <1>1, <1>2, <1>5 DEF Last

LEMMA FoldedAppend ==
  ASSUME NEW p \in Seq(Name)
  PROVE  Append(p, Index) \in File /\ Folded(Append(p, Index)) = Append(Folded(p), Index)
<1> DEFINE q == Append(p, Index)
           r == Append(Folded(p), Index)
<1>0. Index \in Name /\ Fold[Index] = Index
  BY ImportLinksAssumption
<1>1. q \in Seq(Name) /\ Len(q) = Len(p) + 1 /\ Len(p) \in Nat /\ q[Len(p) + 1] = Index
  BY <1>0, AppendProperties
<1>2. \A i \in 1..Len(p) : q[i] = p[i]
  BY <1>0, AppendProperties
<1>3. /\ r \in Seq(Name) /\ Len(r) = Len(p) + 1 /\ r[Len(p) + 1] = Index
      /\ \A i \in 1..Len(p) : r[i] = Folded(p)[i]
  BY <1>0, FoldedType, AppendProperties
<1>4. Folded(q) \in Seq(Name) /\ Len(Folded(q)) = Len(q)
  BY <1>1, FoldedType
<1>5. \A i \in 1..(Len(p) + 1) : Folded(q)[i] = r[i]
  <2> SUFFICES ASSUME NEW i \in 1..(Len(p) + 1)
               PROVE  Folded(q)[i] = r[i]
    OBVIOUS
  <2>1. Folded(q)[i] = Fold[q[i]]
    <3> HIDE DEF q
    <3> QED BY <1>1, FoldedType
  <2>2. CASE i = Len(p) + 1
    BY <2>1, <2>2, <1>0, <1>1, <1>3
  <2>3. CASE i # Len(p) + 1
    <3>1. i \in 1..Len(p)
      BY <2>3, <1>1
    <3>2. q[i] = p[i] /\ r[i] = Folded(p)[i] /\ Folded(p)[i] = Fold[p[i]]
      BY <3>1, <1>2, <1>3, FoldedType
    <3> QED BY <2>1, <3>2
  <2> QED BY <2>2, <2>3
<1>6. q # <<>>
  <2> HIDE DEF q
  <2> QED BY <1>1
<1>7. Folded(q) = r
  <2> HIDE DEF q, r
  <2> QED BY <1>1, <1>3, <1>4, <1>5, SeqEqual
<1> QED BY <1>1, <1>6, <1>7 DEF File

\* Two files whose paths differ in case only go to one page.
LEMMA TargetOfFolded ==
  ASSUME NEW f \in File, NEW g \in File, Folded(f) = Folded(g)
  PROVE  Target(f) = Target(g)
<1>1. Fold[Last(f)] = Fold[Last(g)] /\ Folded(Above(f)) = Folded(Above(g))
  BY FoldedAbove
<1>2. f \in Seq(Name) /\ g \in Seq(Name) /\ Above(f) \in Seq(Name) /\ Above(g) \in Seq(Name)
  BY AboveType DEF File
<1>3. Slugged(f) = Slugged(g) /\ Slugged(Above(f)) = Slugged(Above(g))
  BY <1>1, <1>2, SluggedOfFolded
<1> QED BY <1>1, <1>3 DEF Target

LEMMA LastOf ==
  ASSUME NEW p \in File
  PROVE  /\ p \in Seq(Name) /\ p # <<>> /\ Len(p) \in Nat /\ Len(p) >= 1 /\ Len(p) \in 1..Len(p)
         /\ Last(p) = p[Len(p)] /\ Last(p) \in Name
         /\ Slugged(p) \in File /\ Last(Slugged(p)) = Slug[Last(p)]
<1>1. p \in Seq(Name) /\ p # <<>> /\ Len(p) \in Nat /\ Len(p) >= 1
  BY DEF File
<1>2. Len(p) \in 1..Len(p) /\ p[Len(p)] \in Name /\ Last(p) = p[Len(p)]
  BY <1>1 DEF Last
<1>3. Slugged(p) \in Seq(Name) /\ Len(Slugged(p)) = Len(p) /\ Slugged(p)[Len(p)] = Slug[p[Len(p)]]
  BY <1>1, <1>2, SluggedType
<1>4. Slugged(p) # <<>> /\ Last(Slugged(p)) = Slug[Last(p)]
  BY <1>1, <1>2, <1>3 DEF Last
<1> QED BY <1>1, <1>2, <1>3, <1>4 DEF File

LEMMA LastOfConcat ==
  ASSUME NEW u \in Seq(Name), NEW p \in File
  PROVE  u \o p \in File /\ Last(u \o p) = Last(p)
<1>1. p \in Seq(Name) /\ Len(p) \in Nat /\ Len(p) >= 1 /\ Len(u) \in Nat
  BY LastOf
<1>2. u \o p \in Seq(Name) /\ Len(u \o p) = Len(u) + Len(p) /\ (u \o p)[Len(u) + Len(p)] = p[Len(p)]
  BY <1>1, ConcatProperties
<1> DEFINE c == u \o p
<1> HIDE DEF c
<1>3. c \in Seq(Name) /\ Len(c) = Len(u) + Len(p) /\ c[Len(u) + Len(p)] = p[Len(p)]
  BY <1>2 DEF c
<1>4. c # <<>> /\ Last(c) = Last(p)
  BY <1>1, <1>3 DEF Last
<1> QED BY <1>3, <1>4 DEF c, File

\* A page has the name of its file, or of the folder that the file is the index of.
LEMMA TargetNames ==
  ASSUME NEW f \in File, zip.under \in Seq(Name)
  PROVE  /\ Target(f) \in Seq(Name)
         /\ Fold[Last(f)] # Index => Target(f) \in File /\ Last(Target(f)) = Slug[Last(f)]
         /\ Fold[Last(f)] = Index /\ Above(f) # <<>> =>
              Target(f) \in File /\ Last(Target(f)) = Slug[Last(Above(f))]
         /\ Fold[Last(f)] = Index /\ Above(f) = <<>> => Target(f) = zip.under
<1>1. f \in Seq(Name) /\ Above(f) \in Seq(Name)
  BY LastOf, AboveType DEF File
<1>2. CASE Fold[Last(f)] # Index
  <2>1. Target(f) = zip.under \o Slugged(f)
    BY <1>2 DEF Target
  <2>2. Slugged(f) \in File /\ Last(Slugged(f)) = Slug[Last(f)]
    BY LastOf
  <2>3. Target(f) \in File /\ Last(Target(f)) = Slug[Last(f)]
    BY <2>1, <2>2, LastOfConcat
  <2> QED BY <2>3, <1>2 DEF File
<1>3. CASE Fold[Last(f)] = Index /\ Above(f) # <<>>
  <2>1. Target(f) = zip.under \o Slugged(Above(f))
    BY <1>3 DEF Target
  <2>2. Above(f) \in File
    BY <1>1, <1>3 DEF File
  <2>3. Slugged(Above(f)) \in File /\ Last(Slugged(Above(f))) = Slug[Last(Above(f))]
    BY <2>2, LastOf
  <2>4. Target(f) \in File /\ Last(Target(f)) = Slug[Last(Above(f))]
    BY <2>1, <2>3, LastOfConcat
  <2> QED BY <2>4, <1>3 DEF File
<1>4. CASE Fold[Last(f)] = Index /\ Above(f) = <<>>
  <2>1. Target(f) = zip.under \o Slugged(<<>>)
    BY <1>4 DEF Target
  <2>2. Slugged(<<>>) = <<>>
    <3>1. <<>> \in Seq(Name) /\ Len(<<>>) = 0
      OBVIOUS
    <3>2. Slugged(<<>>) \in Seq(Name) /\ Len(Slugged(<<>>)) = 0
      BY <3>1, SluggedType
    <3> QED BY <3>2
  <2> QED BY <2>1, <2>2, <1>4, ConcatEmptySeq
<1> QED BY <1>2, <1>3, <1>4

LEMMA ZipType ==
  ASSUME zip \in Archive
  PROVE  /\ zip.files \in Seq(File) /\ zip.texts \in Seq(Seq(Link)) /\ zip.assets \in SUBSET Seq(Name)
         /\ zip.under \in Seq(Name) /\ Len(zip.texts) = Len(zip.files)
         /\ DOMAIN zip.texts = DOMAIN zip.files /\ DOMAIN zip.files = 1..Len(zip.files)
         /\ \A f \in Files : f \in File /\ (Above(f) = <<>> /\ Fold[Last(f)] = Index => zip.under # <<>>)
<1>1. zip \in [files : Seq(File), texts : Seq(Seq(Link)), assets : SUBSET Seq(Name), under : Seq(Name)]
  BY ArchiveAssumption DEF File
<1>2. zip.files \in Seq(File) /\ zip.texts \in Seq(Seq(Link)) /\ zip.assets \in SUBSET Seq(Name) /\ zip.under \in Seq(Name)
  BY <1>1
<1>3. Len(zip.texts) = Len(zip.files)
  BY ArchiveAssumption
<1>4. DOMAIN zip.texts = 1..Len(zip.texts) /\ DOMAIN zip.files = 1..Len(zip.files)
  BY <1>2
<1>5. ASSUME NEW f \in Files
      PROVE  f \in File /\ (Above(f) = <<>> /\ Fold[Last(f)] = Index => zip.under # <<>>)
  <2>1. PICK i \in DOMAIN zip.files : f = zip.files[i]
    BY <1>5 DEF Files, Range
  <2>2. f \in File
    BY <2>1, <1>2, <1>4
  <2>3. ASSUME Above(f) = <<>>, Fold[Last(f)] = Index
        PROVE  zip.under # <<>>
    <3>1. f \in Seq(Name) /\ f # <<>> /\ Len(Above(f)) = Len(f) - 1 /\ Len(f) \in Nat
      BY <2>2, AboveType, LastOf DEF File
    <3>2. Len(f) = 1
      BY <3>1, <2>3
    <3>3. f[1] = Last(f)
      BY <3>2 DEF Last
    <3>4. Len(zip.files[i]) = 1 /\ Fold[zip.files[i][1]] = Index
      BY <2>1, <2>3, <3>2, <3>3
    <3> QED BY <3>4, <2>1, ArchiveAssumption
  <2> QED BY <2>2, <2>3
<1> QED BY <1>2, <1>3, <1>4, <1>5

\* No page has the empty path.
LEMMA TargetsAreFiles ==
  ASSUME zip \in Archive, NEW f \in Files
  PROVE  f \in File /\ Target(f) \in File
<1>1. f \in File /\ zip.under \in Seq(Name) /\ (Above(f) = <<>> /\ Fold[Last(f)] = Index => zip.under # <<>>)
  BY ZipType
<1> QED BY <1>1, TargetNames DEF File

LEMMA SoleOf == ASSUME NEW x PROVE Sole({x}) = x
  BY DEF Sole

\* A path is the path of one page.
LEMMA BySourceIsOne ==
  ASSUME zip \in Archive, NEW p \in Seq(Name), NEW t \in BySource(p)
  PROVE  /\ BySource(p) = {t}
         /\ \E f \in Files : Folded(f) = Folded(p) /\ t = Target(f)
<1>1. PICK f \in Files : Folded(f) = Folded(p) /\ t = Target(f)
  BY DEF BySource
<1>2. ASSUME NEW u \in BySource(p)
      PROVE  u = t
  <2>1. PICK g \in Files : Folded(g) = Folded(p) /\ u = Target(g)
    BY DEF BySource
  <2>2. f \in File /\ g \in File
    BY ZipType
  <2> QED BY <1>1, <2>1, <2>2, TargetOfFolded
<1> QED BY <1>1, <1>2

\* The files a link names are those of its candidates.
LEMMA CandidatesAreNamed ==
  ASSUME zip \in Archive, NEW source \in File, NEW link \in Link
  PROVE  /\ Candidates(source, link) \in Seq(Seq(Name))
         /\ HasExtension(link) => Candidates(source, link) = <<>>
         /\ \A i \in DOMAIN Candidates(source, link) :
              \A f \in Files : Folded(f) = Folded(Candidates(source, link)[i]) => f \in NamedAt(source, link)
         /\ ~HasExtension(link) /\ NamedAt(source, link) # {} =>
              \E i \in DOMAIN Candidates(source, link) : BySource(Candidates(source, link)[i]) # {}
<1> DEFINE base == Base(source, link)
           none == base \in {<<>>, Outside} \/ HasExtension(link)
<1>0. base \in Places
  BY BaseType
<1> HIDE DEF base
<1>1. CASE none
  <2>1. Candidates(source, link) = <<>>
    BY <1>1 DEF Candidates, base
  <2>2. ~HasExtension(link) => NamedAt(source, link) = {}
    BY <1>1 DEF NamedAt, base
  <2> QED BY <2>1, <2>2
<1>2. CASE ~none
  <2>1. base \in Seq(Name)
    BY <1>0, <1>2 DEF Places
  <2>2. Candidates(source, link) = <<base, Append(base, Index)>>
    BY <1>2 DEF Candidates, base
  <2>3. Append(base, Index) \in File /\ Folded(Append(base, Index)) = Append(Folded(base), Index)
    BY <2>1, FoldedAppend
  <2>4. NamedAt(source, link) = {f \in Files : Folded(f) = Folded(base) \/ Folded(f) = Append(Folded(base), Index)}
    BY <1>2 DEF NamedAt, base
  <2>5. Candidates(source, link) \in Seq(Seq(Name)) /\ DOMAIN Candidates(source, link) = {1, 2}
    BY <2>1, <2>2, <2>3 DEF File
  <2>6. \A f \in Files : Folded(f) = Folded(base) => BySource(base) # {}
    BY DEF BySource
  <2>7. \A f \in Files : Folded(f) = Folded(Append(base, Index)) => BySource(Append(base, Index)) # {}
    BY DEF BySource
  <2>8. /\ Candidates(source, link)[1] = base /\ Candidates(source, link)[2] = Append(base, Index)
        /\ 1 \in DOMAIN Candidates(source, link) /\ 2 \in DOMAIN Candidates(source, link)
        /\ \A i \in DOMAIN Candidates(source, link) : i = 1 \/ i = 2
    BY <2>2, <2>5
  <2>9. \A i \in DOMAIN Candidates(source, link) :
          \A f \in Files : Folded(f) = Folded(Candidates(source, link)[i]) => f \in NamedAt(source, link)
    BY <2>3, <2>4, <2>8
  <2>10. NamedAt(source, link) # {} =>
           \E i \in DOMAIN Candidates(source, link) : BySource(Candidates(source, link)[i]) # {}
    BY <2>3, <2>4, <2>6, <2>7, <2>8
  <2> QED BY <1>2, <2>5, <2>9, <2>10
<1> QED BY <1>1, <1>2

\* The targets of any files are finitely many, so that one that is alone is the only one.
LEMMA AloneIsOne ==
  ASSUME zip \in Archive, NEW G \in SUBSET Files, Cardinality({Target(f) : f \in G}) = 1
  PROVE  \E t : {Target(f) : f \in G} = {t}
<1> DEFINE T == {Target(f) : f \in G}
           goal == [i \in 1..Len(zip.files) |-> Target(zip.files[i])]
<1>1. Len(zip.files) \in Nat /\ DOMAIN zip.files = 1..Len(zip.files)
  BY ZipType
<1>2. IsFiniteSet(1..Len(zip.files))
  BY <1>1, FS_Interval
<1>3. IsFiniteSet({goal[i] : i \in 1..Len(zip.files)})
  <2> DEFINE U == {goal[i] : i \in 1..Len(zip.files)}
  <2>1. goal \in Surjection(1..Len(zip.files), U)
    BY DEF Surjection
  <2> HIDE DEF goal, U
  <2>2. IsFiniteSet(U)
    BY <2>1, <1>2, FS_Surjection
  <2> QED BY <2>2 DEF U
<1>4. T \subseteq {goal[i] : i \in 1..Len(zip.files)}
  <2> SUFFICES ASSUME NEW f \in G
               PROVE  Target(f) \in {goal[i] : i \in 1..Len(zip.files)}
    OBVIOUS
  <2>1. PICK i \in 1..Len(zip.files) : f = zip.files[i]
    BY <1>1 DEF Files, Range
  <2> QED BY <2>1
<1>5. IsFiniteSet(T)
  BY <1>3, <1>4, FS_Subset
<1> HIDE DEF T
<1>6. \E t : T = {t}
  BY <1>5, FS_Singleton DEF T
<1> QED BY <1>6 DEF T

LEMMA TopLink ==
  ASSUME NEW link \in Link
  PROVE  /\ [link EXCEPT !.from = "top"] \in Link
         /\ HasExtension([link EXCEPT !.from = "top"]) = HasExtension(link)
         /\ [link EXCEPT !.from = "top"].segs = link.segs
  BY DEF Link, HasExtension

\* What resolvePagePath finds: the page of a file that the link names, if there is one, or else
\* the only page of its name, or the only one of its path.
LEMMA PagesForCases ==
  ASSUME zip \in Archive, NEW source \in File, NEW link \in Link
  PROVE  \/ /\ PagesFor(source, link) = {} /\ NamedFiles(source, link) = {}
         \/ \E f \in Files : /\ PagesFor(source, link) = {Target(f)} /\ ~HasExtension(link)
                             /\ f \in NamedAt(source, link) \cup NamedAt(source, [link EXCEPT !.from = "top"])
                             /\ NamedFiles(source, link) # {} => f \in NamedFiles(source, link)
         \/ NamedFiles(source, link) = {} /\ \E t \in ByName(link) : PagesFor(source, link) = {t}
         \/ NamedFiles(source, link) = {} /\ \E t \in BySuffix(link) : PagesFor(source, link) = {t}
<1> DEFINE top == [link EXCEPT !.from = "top"]
           near == Candidates(source, link)
           far == IF link.from = "bare" THEN Candidates(source, top) ELSE <<>>
           tries == near \o far
           hits == {i \in DOMAIN tries : BySource(tries[i]) # {}}
<1>1. top \in Link /\ HasExtension(top) = HasExtension(link)
  BY TopLink
<1> HIDE DEF top
<1>2. /\ near \in Seq(Seq(Name)) /\ far \in Seq(Seq(Name))
      /\ HasExtension(link) => near = <<>> /\ far = <<>>
  BY <1>1, CandidatesAreNamed
<1>3. /\ tries \in Seq(Seq(Name)) /\ DOMAIN tries = 1..(Len(near) + Len(far))
      /\ Len(near) \in Nat /\ Len(far) \in Nat
      /\ \A i \in 1..(Len(near) + Len(far)) : tries[i] = IF i <= Len(near) THEN near[i] ELSE far[i - Len(near)]
  <2> HIDE DEF near, far
  <2> QED BY <1>2, ConcatProperties
<1>4. hits \subseteq Nat
  BY <1>3
<1>5. PagesFor(source, link) = IF hits # {} THEN BySource(tries[Min(hits)])
                               ELSE IF Cardinality(ByName(link)) = 1 THEN ByName(link)
                               ELSE IF Cardinality(BySuffix(link)) = 1 THEN BySuffix(link) ELSE {}
  BY DEF PagesFor, top
<1>6. CASE hits # {}
  <2>1. Min(hits) \in hits /\ \A i \in hits : Min(hits) <= i
    <3> HIDE DEF hits
    <3>1. \E m \in hits : \A n \in hits : m <= n
      BY <1>4, <1>6, LeastNatural
    <3> QED BY <3>1 DEF Min
  <2> DEFINE m == Min(hits)
  <2>2. m \in 1..(Len(near) + Len(far)) /\ BySource(tries[m]) # {} /\ tries[m] \in Seq(Name)
    <3>1. m \in DOMAIN tries /\ BySource(tries[m]) # {}
      BY <2>1
    <3> HIDE DEF m, tries
    <3> QED BY <3>1, <1>3
  <2>3. \A i \in hits : m <= i
    BY <2>1
  <2> HIDE DEF m
  <2>4. PICK f \in Files : Folded(f) = Folded(tries[m]) /\ BySource(tries[m]) = {Target(f)}
    BY <2>2, BySourceIsOne
  <2>5. PagesFor(source, link) = {Target(f)}
    BY <1>5, <1>6, <2>4 DEF m
  <2>6. ~HasExtension(link)
    <3>1. near # <<>> \/ far # <<>>
      <4> HIDE DEF near, far
      <4> QED BY <2>2, <1>2, <1>3
    <3> QED BY <3>1, <1>2
  <2>7. CASE m <= Len(near)
    <3>1. tries[m] = near[m] /\ m \in DOMAIN near
      <4> HIDE DEF near, far
      <4> QED BY <2>7, <2>2, <1>2, <1>3
    <3>2. f \in NamedAt(source, link)
      BY <3>1, <2>4, CandidatesAreNamed
    <3>3. NamedFiles(source, link) = NamedAt(source, link)
      BY <3>2, <2>6 DEF NamedFiles
    <3> QED BY <2>5, <2>6, <3>2, <3>3
  <2>8. CASE ~(m <= Len(near))
    <3>1. tries[m] = far[m - Len(near)] /\ m - Len(near) \in DOMAIN far /\ far # <<>>
      <4> HIDE DEF near, far
      <4> QED BY <2>8, <2>2, <1>2, <1>3
    <3>2. link.from = "bare"
      BY <3>1
    <3>3. far = Candidates(source, top)
      BY <3>2
    <3>4. f \in NamedAt(source, top)
      <4> HIDE DEF near, far
      <4> QED BY <3>1, <3>3, <2>4, <1>1, CandidatesAreNamed
    <3>5. NamedAt(source, link) = {}
      <4> SUFFICES ASSUME NamedAt(source, link) # {}
                   PROVE  FALSE
        OBVIOUS
      <4>1. PICK i \in DOMAIN near : BySource(near[i]) # {}
        BY <2>6, CandidatesAreNamed
      <4>2. i \in 1..Len(near) /\ i \in DOMAIN tries /\ tries[i] = near[i]
        <5>1. i \in 1..Len(near)
          BY <1>2
        <5> HIDE DEF near, far
        <5>2. i \in 1..(Len(near) + Len(far)) /\ i <= Len(near)
          BY <5>1, <1>3
        <5> QED BY <5>1, <5>2, <1>3
      <4>3. i \in hits
        BY <4>1, <4>2
      <4>4. m <= i
        BY <4>3, <2>3
      <4> HIDE DEF near
      <4> QED BY <4>4, <4>2, <2>8, <2>2, <1>3
    <3>6. NamedFiles(source, link) = NamedAt(source, top)
      BY <3>2, <3>5, <2>6 DEF NamedFiles, top
    <3> QED BY <2>5, <2>6, <3>4, <3>6 DEF top
  <2> QED BY <2>7, <2>8
<1>7. CASE hits = {}
  <2>1. NamedFiles(source, link) = {}
    <3> SUFFICES ASSUME NamedFiles(source, link) # {}
                 PROVE  FALSE
      OBVIOUS
    <3>1. ~HasExtension(link)
      BY DEF NamedFiles
    <3>2. NamedAt(source, link) = {}
      <4> SUFFICES ASSUME NamedAt(source, link) # {}
                   PROVE  FALSE
        OBVIOUS
      <4>1. PICK i \in DOMAIN near : BySource(near[i]) # {}
        BY <3>1, CandidatesAreNamed
      <4>2. i \in 1..Len(near)
        BY <1>2
      <4>3. i \in DOMAIN tries /\ tries[i] = near[i]
        <5> HIDE DEF near, far
        <5>2. i \in 1..(Len(near) + Len(far)) /\ i <= Len(near)
          BY <4>2, <1>3
        <5> QED BY <5>2, <1>3
      <4> QED BY <4>1, <4>3, <1>7
    <3>3. link.from = "bare" /\ NamedAt(source, top) # {}
      BY <3>1, <3>2 DEF NamedFiles, top
    <3>4. far = Candidates(source, top)
      BY <3>3
    <3>5. PICK i \in DOMAIN far : BySource(far[i]) # {}
      BY <3>1, <3>3, <3>4, <1>1, CandidatesAreNamed
    <3>6. i \in 1..Len(far)
      BY <1>2
    <3>7. i + Len(near) \in DOMAIN tries /\ tries[i + Len(near)] = far[i]
      <4> HIDE DEF near, far
      <4>1. i + Len(near) \in 1..(Len(near) + Len(far)) /\ ~(i + Len(near) <= Len(near)) /\ i + Len(near) - Len(near) = i
        BY <3>6, <1>3
      <4> QED BY <4>1, <1>3
    <3> QED BY <3>5, <3>7, <1>7
  <2>2. CASE Cardinality(ByName(link)) = 1
    <3>1. PagesFor(source, link) = ByName(link)
      BY <1>5, <1>7, <2>2
    <3>2. \E G \in SUBSET Files : ByName(link) = {Target(f) : f \in G}
      <4>1. CASE link.from # "bare" \/ Len(link.segs) # 1 \/ link.ext = "asset" \/ Up \in Range(link.segs)
        <5>1. ByName(link) = {Target(f) : f \in {}}
          BY <4>1 DEF ByName
        <5> QED BY <5>1
      <4>2. CASE ~(link.from # "bare" \/ Len(link.segs) # 1 \/ link.ext = "asset" \/ Up \in Range(link.segs))
        BY <4>2 DEF ByName
      <4> QED BY <4>1, <4>2
    <3>3. \E t : ByName(link) = {t}
      BY <2>2, <3>2, AloneIsOne
    <3> QED BY <3>1, <3>3, <2>1
  <2>3. CASE Cardinality(ByName(link)) # 1 /\ Cardinality(BySuffix(link)) = 1
    <3>1. PagesFor(source, link) = BySuffix(link)
      BY <1>5, <1>7, <2>3
    <3>2. \E G \in SUBSET Files : BySuffix(link) = {Target(f) : f \in G}
      <4>1. CASE HasExtension(link) \/ Len(RoutePath(link)) < 2
        <5>1. BySuffix(link) = {Target(f) : f \in {}}
          BY <4>1 DEF BySuffix
        <5> QED BY <5>1
      <4>2. CASE ~(HasExtension(link) \/ Len(RoutePath(link)) < 2)
        BY <4>2 DEF BySuffix
      <4> QED BY <4>1, <4>2
    <3>3. \E t : BySuffix(link) = {t}
      BY <2>3, <3>2, AloneIsOne
    <3> QED BY <3>1, <3>3, <2>1
  <2>4. CASE Cardinality(ByName(link)) # 1 /\ Cardinality(BySuffix(link)) # 1
    BY <1>5, <1>7, <2>1, <2>4
  <2> QED BY <2>2, <2>3, <2>4
<1> QED BY <1>6, <1>7

LEMMA SlugOfFold ==
  ASSUME NEW a \in Name, NEW b \in Name, Fold[a] = Fold[b]
  PROVE  Slug[a] = Slug[b]
<1>1. Slug[a] = Slug[Fold[a]] /\ Slug[b] = Slug[Fold[b]]
  BY ImportLinksAssumption
<1> QED BY <1>1

LEMMA AboveAppend ==
  ASSUME NEW p \in Seq(Name), NEW s \in Name
  PROVE  Append(p, s) \in File /\ Above(Append(p, s)) = p /\ Last(Append(p, s)) = s
<1> DEFINE q == Append(p, s)
<1>1. q \in Seq(Name) /\ Len(q) = Len(p) + 1 /\ Len(p) \in Nat /\ q[Len(p) + 1] = s /\ \A i \in 1..Len(p) : q[i] = p[i]
  BY AppendProperties
<1> HIDE DEF q
<1>2. q # <<>> /\ q \in File /\ Last(q) = s
  BY <1>1 DEF File, Last
<1>3. Above(q) \in Seq(Name) /\ Len(Above(q)) = Len(p) /\ \A i \in 1..Len(p) : Above(q)[i] = p[i]
  BY <1>1, <1>2, AboveType
<1>4. Above(q) = p
  BY <1>3, SeqEqual
<1> QED BY <1>2, <1>4 DEF q

\* A page that a link is led to by its place has the name the link ends in.
LEMMA NamedAtHasName ==
  ASSUME zip \in Archive, NEW source \in File, NEW link \in Link, NEW f \in NamedAt(source, link),
         link.segs # <<>>, Last(link.segs) # Up, Fold[Last(link.segs)] # Index
  PROVE  Last(Target(f)) = Slug[Last(link.segs)]
<1> DEFINE base == Base(source, link)
           s == Last(link.segs)
<1>1. base # Outside /\ base # <<>> /\ f \in Files /\ (Folded(f) = Folded(base) \/ Folded(f) = Append(Folded(base), Index))
  BY DEF NamedAt
<1>2. base \in File /\ Last(base) = s
  BY <1>1, BaseType
<1>3. base \in Seq(Name) /\ s \in Name
  BY <1>2, LastOf
<1>4. f \in File /\ zip.under \in Seq(Name) /\ Last(f) \in Name
  BY <1>1, ZipType, LastOf
<1>5. Fold[s] # Index
  OBVIOUS
<1> HIDE DEF base, s
<1>6. CASE Folded(f) = Folded(base)
  <2>1. Fold[Last(f)] = Fold[s]
    BY <1>2, <1>4, <1>6, FoldedAbove
  <2>2. Last(Target(f)) = Slug[Last(f)]
    BY <2>1, <1>4, <1>5, TargetNames
  <2> QED BY <2>1, <2>2, <1>3, <1>4, SlugOfFold DEF s
<1>7. CASE Folded(f) = Append(Folded(base), Index)
  <2>1. Append(base, Index) \in File /\ Folded(f) = Folded(Append(base, Index))
    BY <1>3, <1>7, FoldedAppend
  <2>2. Folded(Above(f)) = Folded(Above(Append(base, Index))) /\ Fold[Last(f)] = Fold[Last(Append(base, Index))]
    BY <2>1, <1>4, FoldedAbove
  <2>3. Above(Append(base, Index)) = base /\ Last(Append(base, Index)) = Index
    BY <1>3, ImportLinksAssumption, AboveAppend
  <2>4. Folded(Above(f)) = Folded(base) /\ Fold[Last(f)] = Index
    BY <2>2, <2>3, ImportLinksAssumption
  <2>5. Above(f) \in Seq(Name)
    BY <1>4, AboveType DEF File
  <2>6. Above(f) \in File
    <3>1. Len(Above(f)) = Len(base) /\ Len(base) >= 1
      BY <2>4, <2>5, <1>2, <1>3, FoldedType, LastOf
    <3> QED BY <3>1, <2>5 DEF File
  <2>7. Fold[Last(Above(f))] = Fold[s] /\ Last(Above(f)) \in Name
    BY <2>4, <2>6, <1>2, FoldedAbove, LastOf
  <2>8. Last(Target(f)) = Slug[Last(Above(f))]
    BY <2>4, <2>6, <1>4, TargetNames DEF File
  <2> QED BY <2>7, <2>8, <1>3, SlugOfFold DEF s
<1> QED BY <1>1, <1>6, <1>7

LEMMA SuffixLast ==
  ASSUME NEW p \in File, NEW q \in File, IsSuffix(p, q)
  PROVE  Last(p) = Last(q)
<1>1. p \in Seq(Name) /\ q \in Seq(Name) /\ Len(p) \in Nat /\ Len(q) \in Nat /\ Len(p) >= 1 /\ Len(q) >= 1
  BY LastOf
<1> DEFINE rp == Reverse(p)
           rq == Reverse(q)
<1>2. rp = [i \in 1..Len(p) |-> p[(Len(p) - i) + 1]] /\ rq = [i \in 1..Len(q) |-> q[(Len(q) - i) + 1]]
  BY DEF Reverse
<1>3. /\ \A i \in 1..Len(p) : p[(Len(p) - i) + 1] \in Name
      /\ \A i \in 1..Len(q) : q[(Len(q) - i) + 1] \in Name
  <2>1. /\ \A i \in 1..Len(p) : (Len(p) - i) + 1 \in 1..Len(p)
        /\ \A i \in 1..Len(q) : (Len(q) - i) + 1 \in 1..Len(q)
    BY <1>1
  <2> QED BY <2>1, <1>1
<1>4. rp \in Seq(Name) /\ rq \in Seq(Name) /\ Len(rp) = Len(p) /\ Len(rq) = Len(q)
  <2> HIDE DEF rp, rq
  <2>1. rp \in Seq(Name) /\ rq \in Seq(Name)
    BY <1>1, <1>2, <1>3, IsASeq
  <2>2. DOMAIN rp = 1..Len(p) /\ DOMAIN rq = 1..Len(q)
    BY <1>2
  <2> QED BY <2>1, <2>2, <1>1, LenProperties
<1>5. rp[1] = Last(p) /\ rq[1] = Last(q)
  <2>1. 1 \in 1..Len(p) /\ 1 \in 1..Len(q)
    BY <1>1
  <2>2. rp[1] = p[(Len(p) - 1) + 1] /\ rq[1] = q[(Len(q) - 1) + 1]
    <3> HIDE DEF rp, rq
    <3> QED BY <2>1, <1>2
  <2>3. (Len(p) - 1) + 1 = Len(p) /\ (Len(q) - 1) + 1 = Len(q)
    BY <1>1
  <2> QED BY <2>2, <2>3 DEF Last
<1>6. Len(rp) <= Len(rq) /\ SubSeq(rp, 1, Len(rp)) = SubSeq(rq, 1, Len(rp))
  BY DEF IsSuffix, IsPrefix
<1> HIDE DEF rp, rq
<1>7. SubSeq(rp, 1, Len(rp))[1] = rp[1]
  BY <1>1, <1>4, SubSeqFull
<1>8. SubSeq(rq, 1, Len(rp))[1] = rq[1]
  <2> DEFINE n == Len(rp)
  <2>1. n \in Int /\ n >= 1 /\ n <= Len(rq)
    BY <1>1, <1>4, <1>6
  <2>2. \A i \in 1..n : rq[i] \in Name
    <3> HIDE DEF n
    <3>1. \A i \in 1..n : i \in 1..Len(rq)
      BY <2>1, <1>4
    <3> QED BY <3>1, <1>4
  <2> HIDE DEF n
  <2>3. \A i \in 1..(n - 1 + 1) : SubSeq(rq, 1, n)[i] = rq[1 + i - 1]
    BY <2>1, <2>2, SubSeqProperties
  <2>4. 1 \in 1..(n - 1 + 1) /\ 1 + 1 - 1 = 1
    BY <2>1
  <2> DEFINE sq == SubSeq(rq, 1, n)
  <2>5. \A i \in 1..n : sq[i] = rq[i]
    <3>1. \A i \in 1..n : i \in 1..(n - 1 + 1) /\ 1 + i - 1 = i
      BY <2>1
    <3>2. \A i \in 1..(n - 1 + 1) : sq[i] = rq[1 + i - 1]
      BY <2>3
    <3> HIDE DEF sq
    <3> QED BY <3>1, <3>2
  <2>6. 1 \in 1..n
    BY <2>1
  <2> QED BY <2>5, <2>6 DEF n
<1> QED BY <1>5, <1>6, <1>7, <1>8

\* So has one that it is led to by its slugs.
LEMMA RoutePathHasName ==
  ASSUME NEW link \in Link, RoutePath(link) # <<>>
  PROVE  /\ RoutePath(link) \in File /\ link.segs \in File
         /\ Last(RoutePath(link)) = Slug[Last(link.segs)]
<1>1. ~(Up \in Range(link.segs)) /\ link.segs # <<>> /\ RoutePath(link) = Slugged(link.segs)
  BY DEF RoutePath
<1>2. link.segs \in Seq(Name \cup {Up})
  BY DEF Link
<1>3. \A i \in DOMAIN link.segs : link.segs[i] \in Name
  <2> SUFFICES ASSUME NEW i \in DOMAIN link.segs
               PROVE  link.segs[i] \in Name
    OBVIOUS
  <2>1. link.segs[i] \in Range(link.segs)
    BY DEF Range
  <2>2. link.segs[i] \in Name \cup {Up}
    BY <1>2
  <2> QED BY <2>1, <2>2, <1>1
<1>4. link.segs \in Seq(Name)
  <2>1. Len(link.segs) \in Nat /\ DOMAIN link.segs = 1..Len(link.segs) /\ link.segs = [i \in 1..Len(link.segs) |-> link.segs[i]]
    BY <1>2
  <2>2. \A i \in 1..Len(link.segs) : link.segs[i] \in Name
    BY <2>1, <1>3
  <2> QED BY <2>1, <2>2, IsASeq
<1>5. link.segs \in File
  BY <1>1, <1>4 DEF File
<1> QED BY <1>1, <1>5, LastOf

\* The page that resolvePagePath finds for a link has the name the link ends in, and is the page of
\* a file that the link names, if there is one.
LEMMA FoundLands ==
  ASSUME zip \in Archive, NEW source \in File, NEW link \in Link, PagesFor(source, link) # {}
  PROVE  /\ Sole(PagesFor(source, link)) \in File /\ link.ext # "asset"
         /\ NamedFiles(source, link) # {} =>
              Sole(PagesFor(source, link)) \in {Target(f) : f \in NamedFiles(source, link)}
         /\ (link.segs # <<>> /\ Last(link.segs) # Up /\ Fold[Last(link.segs)] # Index) =>
              Last(Sole(PagesFor(source, link))) = Slug[Last(link.segs)]
<1> DEFINE found == PagesFor(source, link)
           top == [link EXCEPT !.from = "top"]
           named == link.segs # <<>> /\ Last(link.segs) # Up /\ Fold[Last(link.segs)] # Index
<1>1. top \in Link /\ top.segs = link.segs
  BY TopLink
<1>2. ASSUME NEW f \in Files, found = {Target(f)}, ~HasExtension(link),
             f \in NamedAt(source, link) \cup NamedAt(source, top),
             NamedFiles(source, link) # {} => f \in NamedFiles(source, link)
      PROVE  /\ Sole(found) \in File /\ link.ext # "asset"
             /\ NamedFiles(source, link) # {} => Sole(found) \in {Target(g) : g \in NamedFiles(source, link)}
             /\ named => Last(Sole(found)) = Slug[Last(link.segs)]
  <2>1. Sole(found) = Target(f)
    BY <1>2, SoleOf
  <2>2. Target(f) \in File
    BY TargetsAreFiles
  <2>3. link.ext # "asset"
    BY <1>2 DEF HasExtension
  <2>4. ASSUME named
        PROVE  Last(Target(f)) = Slug[Last(link.segs)]
    <3>1. CASE f \in NamedAt(source, link)
      BY <3>1, <2>4, NamedAtHasName
    <3>2. CASE f \in NamedAt(source, top)
      <4> HIDE DEF top
      <4>1. Last(Target(f)) = Slug[Last(top.segs)]
        BY <3>2, <2>4, <1>1, NamedAtHasName
      <4> QED BY <4>1, <1>1
    <3> QED BY <3>1, <3>2, <1>2
  <2> QED BY <2>1, <2>2, <2>3, <2>4, <1>2
<1>3. ASSUME NEW t \in ByName(link), found = {t}, NamedFiles(source, link) = {}
      PROVE  /\ Sole(found) \in File /\ link.ext # "asset"
             /\ named => Last(Sole(found)) = Slug[Last(link.segs)]
  <2>1. ~(link.from # "bare" \/ Len(link.segs) # 1 \/ link.ext = "asset" \/ Up \in Range(link.segs))
    BY DEF ByName
  <2>2. PICK g \in Files : t = Target(g) /\ Fold[Last(g)] = Fold[link.segs[1]] /\ Fold[Last(g)] # Index
    BY <2>1 DEF ByName
  <2>3. g \in File /\ zip.under \in Seq(Name) /\ Last(g) \in Name /\ Target(g) \in File
    BY ZipType, LastOf, TargetsAreFiles
  <2>4. Last(t) = Slug[Last(g)]
    BY <2>2, <2>3, TargetNames
  <2>5. ASSUME named
        PROVE  Last(t) = Slug[Last(link.segs)]
    <3>1. Last(link.segs) = link.segs[1]
      BY <2>1 DEF Last
    <3>2. link.segs[1] \in Name \cup {Up}
      <4>1. link.segs \in Seq(Name \cup {Up})
        BY DEF Link
      <4> QED BY <4>1, <2>1
    <3>3. link.segs[1] \in Name
      BY <3>1, <3>2, <2>5
    <3> QED BY <3>1, <3>3, <2>2, <2>3, <2>4, SlugOfFold
  <2>6. Sole(found) = t
    BY <1>3, SoleOf
  <2> QED BY <2>1, <2>2, <2>3, <2>5, <2>6
<1>4. ASSUME NEW t \in BySuffix(link), found = {t}, NamedFiles(source, link) = {}
      PROVE  /\ Sole(found) \in File /\ link.ext # "asset"
             /\ named => Last(Sole(found)) = Slug[Last(link.segs)]
  <2>1. ~HasExtension(link) /\ ~(Len(RoutePath(link)) < 2)
    BY DEF BySuffix
  <2>2. PICK g \in Files : t = Target(g) /\ IsSuffix(RoutePath(link), Target(g))
    BY <2>1 DEF BySuffix
  <2>3. RoutePath(link) # <<>>
    BY <2>1
  <2>4. RoutePath(link) \in File /\ Last(RoutePath(link)) = Slug[Last(link.segs)]
    BY <2>3, RoutePathHasName
  <2>5. Target(g) \in File
    BY TargetsAreFiles
  <2>6. Last(t) = Slug[Last(link.segs)]
    BY <2>2, <2>4, <2>5, SuffixLast
  <2>7. Sole(found) = t /\ link.ext # "asset"
    BY <1>4, <2>1, SoleOf DEF HasExtension
  <2> QED BY <2>2, <2>5, <2>6, <2>7
<1>5. found # {}
  OBVIOUS
<1> QED BY <1>2, <1>3, <1>4, <1>5, PagesForCases

ByTitle(source, link) ==
  link.syntax = "wiki" /\ ~link.anchor
    /\ \/ link.from = "bare" /\ Len(link.segs) = 1
       \/ \E t \in {Target(f) : f \in NamedFiles(source, link)} : Len(t) = 1

\* What the property says of one link that is not led to an asset.
Lands(source, link, out) ==
  /\ link.syntax = "code" => out = Same
  /\ link.syntax # "code" /\ ~ByTitle(source, link) /\ NamedFiles(source, link) # {} =>
       out.form # "same" /\ out.to \in {Target(f) : f \in NamedFiles(source, link)}
  /\ (out.form \in {"page", "wiki"} /\ link.segs # <<>> /\ Last(link.segs) # Up
        /\ Fold[Last(link.segs)] # Index) => Last(out.to) = Slug[Last(link.segs)]

LEMMA FallbackHasName ==
  ASSUME NEW source \in File, NEW link \in Link, Fallback(source, link) # <<>>,
         link.segs # <<>>, Last(link.segs) # Up
  PROVE  Last(Fallback(source, link)) = Slug[Last(link.segs)]
<1>1. CASE link.from = "bare"
  <2>1. Fallback(source, link) = RoutePath(link)
    BY <1>1 DEF Fallback
  <2> QED BY <2>1, RoutePathHasName
<1>2. CASE link.from # "bare"
  <2>1. Base(source, link) # Outside /\ Fallback(source, link) = Slugged(Base(source, link))
    BY <1>2 DEF Fallback
  <2>2. Base(source, link) \in File /\ Last(Base(source, link)) = Last(link.segs)
    BY <2>1, BaseType
  <2> QED BY <2>1, <2>2, LastOf
<1> QED BY <1>1, <1>2

\* Every link that needs no asset lands.
LEMMA RewrittenLands ==
  ASSUME zip \in Archive, NEW source \in File, NEW link \in Link,
         link.from = "bare" => link.segs # <<>>
  PROVE  Lands(source, link, Rewritten(source, link))
<1> DEFINE found == PagesFor(source, link)
           out == Rewritten(source, link)
           named == link.segs # <<>> /\ Last(link.segs) # Up /\ Fold[Last(link.segs)] # Index
<1>0. \A form, to : Out(form, to).form = form /\ Out(form, to).to = to
  BY DEF Out
<1>1. CASE link.syntax = "code"
  <2>1. out = Same
    BY <1>1 DEF Rewritten
  <2>2. Same.form = "same"
    BY <1>0 DEF Same
  <2> QED BY <1>1, <2>1, <2>2 DEF Lands
<1>2. CASE link.syntax # "code" /\ found = {}
  <2>1. NamedFiles(source, link) = {}
    BY <1>2, PagesForCases
  <2>2. named /\ out.form \in {"page", "wiki"} => Last(out.to) = Slug[Last(link.segs)]
    <3> SUFFICES ASSUME named, out.form \in {"page", "wiki"}
                 PROVE  Last(out.to) = Slug[Last(link.segs)]
      OBVIOUS
    <3>1. Same.form = "same"
      BY <1>0 DEF Same
    <3>2. link.syntax # "markdown" /\ out = WikiLink(source, link)
      BY <1>2, <3>1 DEF Rewritten, MarkdownLink
    <3> DEFINE path == IF link.anchor THEN Fallback(source, link) ELSE RoutePath(link)
    <3>3. WikiLink(source, link) =
            IF path = <<>> THEN Same
            ELSE IF link.anchor THEN Out("page", path)
            ELSE IF link.from # "bare" \/ Len(link.segs) > 1 THEN Out("wiki", path) ELSE Same
      BY <1>2 DEF WikiLink
    <3>4. path # <<>> /\ out.to = path
      <4> HIDE DEF path
      <4> QED BY <3>1, <3>2, <3>3, <1>0
    <3>5. CASE link.anchor
      BY <3>4, <3>5, FallbackHasName
    <3>6. CASE ~link.anchor
      BY <3>4, <3>6, RoutePathHasName
    <3> QED BY <3>5, <3>6
  <2> QED BY <1>2, <2>1, <2>2 DEF Lands
<1>3. CASE link.syntax # "code" /\ found # {}
  <2> DEFINE path == Sole(found)
  <2>1. /\ path \in File
        /\ NamedFiles(source, link) # {} => path \in {Target(f) : f \in NamedFiles(source, link)}
        /\ named => Last(path) = Slug[Last(link.segs)]
    BY <1>3, FoundLands
  <2>2. path # <<>>
    BY <2>1 DEF File
  <2>3. CASE link.syntax = "markdown"
    <3>1. out = Out("page", path)
      BY <1>3, <2>3 DEF Rewritten, MarkdownLink
    <3>2. out.form = "page" /\ out.to = path
      <4> HIDE DEF path
      <4> QED BY <3>1, <1>0
    <3> HIDE DEF path, out
    <3>3. Lands(source, link, out)
      BY <3>2, <2>1, <1>3 DEF Lands
    <3> QED BY <3>3 DEF out
  <2>4. CASE link.syntax # "markdown"
    <3>1. out = IF link.anchor THEN Out("page", path)
                ELSE IF link.from # "bare" \/ Len(link.segs) > 1 THEN Out("wiki", path) ELSE Same
      <4>1. out = WikiLink(source, link)
        BY <1>3, <2>4 DEF Rewritten
      <4> QED BY <4>1, <1>3, <2>2 DEF WikiLink
    <3>2. Same.form = "same"
      BY <1>0 DEF Same
    <3>3. out.form \in {"page", "wiki"} => out.to = path
      <4> HIDE DEF path
      <4> QED BY <3>1, <3>2, <1>0
    <3>4. ASSUME ~ByTitle(source, link)
          PROVE  out.form # "same" /\ out.to = path
      <4>1. CASE link.anchor
        <5> HIDE DEF path
        <5> QED BY <4>1, <3>1, <1>0
      <4>2. CASE ~link.anchor
        <5>1. link.syntax = "wiki"
          BY <1>3, <2>4 DEF Link
        <5>2. link.from # "bare" \/ Len(link.segs) # 1
          BY <5>1, <4>2, <3>4 DEF ByTitle
        <5>3. link.from # "bare" \/ Len(link.segs) > 1
          <6>1. link.segs \in Seq(Name \cup {Up})
            BY DEF Link
          <6>2. Len(link.segs) \in Nat /\ (link.segs # <<>> => Len(link.segs) >= 1)
            BY <6>1
          <6>3. CASE link.from = "bare"
            <7>1. Len(link.segs) # 1 /\ Len(link.segs) >= 1 /\ Len(link.segs) \in Nat
              BY <6>2, <6>3, <5>2
            <7>2. \A n \in Nat : n # 1 /\ n >= 1 => n > 1
              OBVIOUS
            <7> QED BY <7>1, <7>2
          <6> QED BY <6>3
        <5> HIDE DEF path
        <5> QED BY <5>3, <4>2, <3>1, <1>0
      <4> QED BY <4>1, <4>2
    <3> HIDE DEF path, out
    <3>5. Lands(source, link, out)
      BY <3>3, <3>4, <2>1, <1>3 DEF Lands
    <3> QED BY <3>5 DEF out
  <2> QED BY <2>3, <2>4
<1> QED BY <1>1, <1>2, <1>3

\* A link to an asset is led to it: no page has its name.
LEMMA AssetsAreNoPages ==
  ASSUME zip \in Archive, NEW source \in File, NEW link \in Link, AssetAt(source, link) # {}
  PROVE  /\ PagesFor(source, link) = {} /\ NamedFiles(source, link) = {}
         /\ AssetAt(source, link) = {Base(source, link)}
<1>1. link.ext = "asset" /\ AssetAt(source, link) = {Base(source, link)} \cap zip.assets
  BY DEF AssetAt
<1>2. PagesFor(source, link) = {}
  BY <1>1, FoundLands
<1>3. NamedFiles(source, link) = {}
  BY <1>1 DEF NamedFiles, HasExtension
<1> QED BY <1>1, <1>2, <1>3

-----------------------------------------------------------------------------
(* The import *)

IsSequence(s) == \E S : s \in Seq(S)

LEMMA AppendToSequence ==
  ASSUME NEW s, IsSequence(s), NEW x
  PROVE  /\ IsSequence(Append(s, x)) /\ Len(s) \in Nat /\ DOMAIN s = 1..Len(s)
         /\ Len(Append(s, x)) = Len(s) + 1 /\ DOMAIN Append(s, x) = 1..(Len(s) + 1)
         /\ Append(s, x)[Len(s) + 1] = x
         /\ \A k \in 1..Len(s) : Append(s, x)[k] = s[k]
<1>1. PICK S : s \in Seq(S)
  BY DEF IsSequence
<1>2. s \in Seq(S \cup {x}) /\ x \in S \cup {x}
  <2>1. Len(s) \in Nat /\ s = [i \in 1..Len(s) |-> s[i]] /\ \A i \in 1..Len(s) : s[i] \in S \cup {x}
    BY <1>1
  <2> QED BY <2>1, IsASeq
<1>3. Append(s, x) \in Seq(S \cup {x})
  BY <1>2, AppendProperties
<1> DEFINE T == S \cup {x}
           q == Append(s, x)
<1>4. /\ q \in Seq(T) /\ Len(q) = Len(s) + 1 /\ q[Len(s) + 1] = x
      /\ \A k \in 1..Len(s) : q[k] = s[k]
  <2> HIDE DEF T
  <2> s \in Seq(T) /\ x \in T
    BY <1>2 DEF T
  <2> QED BY AppendProperties
<1> HIDE DEF T, q
<1>5. Len(s) \in Nat /\ DOMAIN s = 1..Len(s) /\ DOMAIN q = 1..(Len(s) + 1)
  BY <1>1, <1>4
<1> QED BY <1>4, <1>5 DEF IsSequence, q

\* A link of a page as it was made: led to an asset, or rewritten.
Made(source, link, out) ==
  IF link.syntax # "code" /\ AssetAt(source, link) # {}
  THEN /\ out.form = "asset" /\ out.to \in DOMAIN uploads
       /\ uploads[out.to].page = Target(source) /\ uploads[out.to].asset = Base(source, link)
  ELSE out = Rewritten(source, link)

\* The first links of a text have been made.
Written(source, links, outs) ==
  /\ IsSequence(outs) /\ Len(outs) <= Len(links)
  /\ \A k \in 1..Len(outs) : Made(source, links[k], outs[k])

\* What was made of the file so far, and of each file before, and what the transformer remembers
LinksInv ==
  /\ zip \in Archive /\ item \in Nat /\ item >= 1
  /\ IsSequence(uploads) /\ IsSequence(text)
  /\ \A c \in cache : c.at \in DOMAIN uploads /\ uploads[c.at].page = c.page /\ uploads[c.at].asset = c.asset
  /\ item <= Len(zip.files) => Written(zip.files[item], zip.texts[item], text)
  /\ DOMAIN pages = DOMAIN zip.files
  /\ \A i \in DOMAIN pages : Written(zip.files[i], zip.texts[i], pages[i])

\* The archive stays, and so do the pages its files go to.

LEMMA LookupsStay ==
  ASSUME zip' = zip, NEW source, NEW link
  PROVE  /\ Target(source)' = Target(source) /\ Base(source, link)' = Base(source, link)
         /\ AssetAt(source, link)' = AssetAt(source, link)
         /\ PagesFor(source, link)' = PagesFor(source, link)
         /\ Rewritten(source, link)' = Rewritten(source, link)
<1>1. \A f : Target(f)' = Target(f)
  BY DEF Target
<1>2. Files' = Files
  BY DEF Files
<1>3. \A path : BySource(path)' = BySource(path)
  BY <1>1, <1>2 DEF BySource
<1>4. ByName(link)' = ByName(link)
  BY <1>1, <1>2 DEF ByName
<1>5. BySuffix(link)' = BySuffix(link)
  BY <1>1, <1>2 DEF BySuffix
<1>6. AssetAt(source, link)' = AssetAt(source, link)
  BY DEF AssetAt
<1>7. PagesFor(source, link)' = PagesFor(source, link)
  BY <1>3, <1>4, <1>5 DEF PagesFor
<1>8. Fallback(source, link)' = Fallback(source, link)
  BY <1>4 DEF Fallback
<1>9. MarkdownLink(source, link)' = MarkdownLink(source, link) /\ WikiLink(source, link)' = WikiLink(source, link)
  BY <1>7, <1>8 DEF MarkdownLink, WikiLink
<1> QED BY <1>1, <1>6, <1>7, <1>9 DEF Rewritten

\* A link that was made stays made: uploads are only added.
LEMMA MadeStays ==
  ASSUME zip' = zip, NEW source, NEW link, NEW out, Made(source, link, out),
         \A k \in DOMAIN uploads : k \in DOMAIN uploads' /\ uploads'[k] = uploads[k]
  PROVE  Made(source, link, out)'
<1>1. Target(source)' = Target(source) /\ Base(source, link)' = Base(source, link)
      /\ AssetAt(source, link)' = AssetAt(source, link) /\ Rewritten(source, link)' = Rewritten(source, link)
  BY LookupsStay
<1> QED BY <1>1 DEF Made

LEMMA WrittenStays ==
  ASSUME zip' = zip, NEW source, NEW links, NEW outs, Written(source, links, outs),
         \A k \in DOMAIN uploads : k \in DOMAIN uploads' /\ uploads'[k] = uploads[k]
  PROVE  Written(source, links, outs)'
<1>1. \A k \in 1..Len(outs) : Made(source, links[k], outs[k])'
  BY MadeStays DEF Written
<1> QED BY <1>1 DEF Written

LEMMA NothingWritten ==
  ASSUME NEW source, NEW links, Len(links) \in Nat
  PROVE  Written(source, links, <<>>)
<1>1. IsSequence(<<>>) /\ Len(<<>>) = 0
  <2>1. <<>> \in Seq({})
    OBVIOUS
  <2> QED BY <2>1 DEF IsSequence
<1> QED BY <1>1 DEF Written

LEMMA InitSatisfiesLinksInv == LinksInit => LinksInv
<1> SUFFICES ASSUME LinksInit
             PROVE  LinksInv
  OBVIOUS
<1>1. zip \in Archive /\ item = 1 /\ text = <<>> /\ uploads = <<>> /\ cache = {}
      /\ pages = [i \in DOMAIN zip.files |-> <<>>]
  BY DEF LinksInit
<1>2. IsSequence(<<>>)
  <2>1. <<>> \in Seq({})
    OBVIOUS
  <2> QED BY <2>1 DEF IsSequence
<1>3. \A i \in DOMAIN zip.files : Len(zip.texts[i]) \in Nat
  <2>1. zip.texts \in Seq(Seq(Link)) /\ DOMAIN zip.texts = DOMAIN zip.files
    BY <1>1, ZipType
  <2> QED BY <2>1
<1>4. \A i \in DOMAIN zip.files : Written(zip.files[i], zip.texts[i], <<>>)
  BY <1>3, NothingWritten
<1>5. item <= Len(zip.files) => item \in DOMAIN zip.files
  <2>1. zip.files \in Seq(File)
    BY <1>1, ZipType
  <2> QED BY <2>1, <1>1
<1> QED BY <1>1, <1>2, <1>4, <1>5 DEF LinksInv

\* The link that is next
LEMMA NextLink ==
  ASSUME LinksInv, Running, Unwritten # <<>>
  PROVE  /\ item \in DOMAIN zip.files /\ Source \in File /\ IsSequence(text) /\ Len(text) \in Nat
         /\ Len(text) + 1 <= Len(zip.texts[item]) /\ Len(text) + 1 \in DOMAIN zip.texts[item]
         /\ Head(Unwritten) = zip.texts[item][Len(text) + 1]
         /\ zip.texts[item][Len(text) + 1] \in Link
         /\ zip.texts[item][Len(text) + 1].from = "bare" => zip.texts[item][Len(text) + 1].segs # <<>>
<1>1. /\ zip \in Archive /\ item \in Nat /\ item >= 1 /\ item <= Len(zip.files) /\ IsSequence(text)
      /\ Written(zip.files[item], zip.texts[item], text)
  BY DEF LinksInv, Running
<1>2. /\ zip.files \in Seq(File) /\ zip.texts \in Seq(Seq(Link))
      /\ DOMAIN zip.texts = DOMAIN zip.files /\ DOMAIN zip.files = 1..Len(zip.files)
  BY <1>1, ZipType
<1>3. item \in DOMAIN zip.files /\ item \in DOMAIN zip.texts /\ Source \in File
  BY <1>1, <1>2 DEF Source
<1> DEFINE links == zip.texts[item]
           n == Len(text)
<1>4. links \in Seq(Link) /\ Len(links) \in Nat /\ DOMAIN links = 1..Len(links)
  BY <1>2, <1>3
<1>5. n \in Nat /\ n <= Len(links)
  <2>1. n \in Nat
    BY <1>1 DEF IsSequence
  <2> QED BY <2>1, <1>1 DEF Written
<1>6. Unwritten = SubSeq(links, n + 1, Len(links))
  BY DEF Unwritten
<1> HIDE DEF links, n
<1>7. n + 1 <= Len(links)
  <2> SUFFICES ASSUME ~(n + 1 <= Len(links))
               PROVE  FALSE
    OBVIOUS
  <2>1. n + 1 > Len(links)
    BY <1>4, <1>5
  <2>2. SubSeq(links, n + 1, Len(links)) = <<>>
    BY <2>1, <1>4, <1>5, SubSeqEmpty
  <2> QED BY <2>2, <1>6
<1>8. n + 1 \in DOMAIN links /\ links[n + 1] \in Link
  BY <1>4, <1>5, <1>7
<1>9. Head(SubSeq(links, n + 1, Len(links))) = links[n + 1]
  BY <1>4, <1>5, <1>7, HeadTailOfSubSeq
<1>10. links[n + 1].from = "bare" => links[n + 1].segs # <<>>
  BY <1>1, <1>3, <1>8, ArchiveAssumption DEF links
<1> QED BY <1>1, <1>3, <1>5, <1>6, <1>7, <1>8, <1>9, <1>10 DEF links, n

\* One more link of a text is made.
LEMMA WrittenFurther ==
  ASSUME zip' = zip, NEW source, NEW links, NEW outs, Written(source, links, outs),
         \A k \in DOMAIN uploads : k \in DOMAIN uploads' /\ uploads'[k] = uploads[k],
         Len(links) \in Nat, Len(outs) + 1 <= Len(links),
         NEW out, Made(source, links[Len(outs) + 1], out)'
  PROVE  Written(source, links, Append(outs, out))'
<1> DEFINE q == Append(outs, out)
<1>1. /\ IsSequence(q) /\ Len(outs) \in Nat /\ Len(q) = Len(outs) + 1 /\ q[Len(outs) + 1] = out
      /\ \A k \in 1..Len(outs) : q[k] = outs[k]
  BY AppendToSequence DEF Written
<1>2. \A k \in 1..Len(outs) : Made(source, links[k], outs[k])'
  BY MadeStays DEF Written
<1>3. ASSUME NEW k \in 1..Len(q)
      PROVE  Made(source, links[k], q[k])'
  <2>1. CASE k = Len(outs) + 1
    <3>1. q[k] = out /\ links[k] = links[Len(outs) + 1]
      BY <2>1, <1>1
    <3> HIDE DEF q
    <3> QED BY <3>1, <2>1
  <2>2. CASE k # Len(outs) + 1
    <3>1. k \in 1..Len(outs)
      <4> HIDE DEF q
      <4> QED BY <2>2, <1>1
    <3>2. q[k] = outs[k]
      BY <3>1, <1>1
    <3> HIDE DEF q
    <3> QED BY <3>1, <3>2, <1>2
  <2> QED BY <2>1, <2>2
<1> HIDE DEF q
<1>4. Written(source, links, q)'
  BY <1>1, <1>3 DEF Written
<1> QED BY <1>4 DEF q

\* What a step that goes on with the file has to show
LEMMA GoesOn ==
  ASSUME LinksInv, zip' = zip, item' = item, pages' = pages,
         \A k \in DOMAIN uploads : k \in DOMAIN uploads' /\ uploads'[k] = uploads[k],
         IsSequence(uploads)', IsSequence(text)',
         \A c \in cache' : c.at \in DOMAIN uploads' /\ uploads'[c.at].page = c.page /\ uploads'[c.at].asset = c.asset,
         \A source, links, outs : item <= Len(zip.files) /\ source = zip.files[item] /\ links = zip.texts[item] /\ outs = text'
            => Written(source, links, outs)'
  PROVE  LinksInv'
<1>1. \A i \in DOMAIN pages : Written(zip.files[i], zip.texts[i], pages[i])'
  <2> SUFFICES ASSUME NEW i \in DOMAIN pages
               PROVE  Written(zip.files[i], zip.texts[i], pages[i])'
    OBVIOUS
  <2>1. PICK source, links, outs : source = zip.files[i] /\ links = zip.texts[i] /\ outs = pages[i]
    OBVIOUS
  <2>2. Written(source, links, outs)
    BY <2>1 DEF LinksInv
  <2>3. Written(source, links, outs)'
    BY <2>2, WrittenStays
  <2> QED BY <2>1, <2>3
<1>2. item' <= Len(zip'.files) => Written(zip.files[item], zip.texts[item], text)'
  OBVIOUS
<1> QED BY <1>1, <1>2 DEF LinksInv

LEMMA TransformLinkKeeps == ASSUME LinksInv, TransformLink PROVE LinksInv'
<1>1. /\ Running /\ Unwritten # <<>> /\ ~NeedsAsset(Head(Unwritten))
      /\ text' = Append(text, Rewritten(Source, Head(Unwritten)))
      /\ zip' = zip /\ item' = item /\ pages' = pages /\ uploads' = uploads /\ cache' = cache
  BY DEF TransformLink
<1>2. PICK source, links, outs, link : /\ source = zip.files[item] /\ links = zip.texts[item] /\ outs = text
                                       /\ link = zip.texts[item][Len(text) + 1]
  OBVIOUS
<1>3. /\ source \in File /\ Len(outs) + 1 <= Len(links) /\ Head(Unwritten) = link /\ link \in Link /\ Len(links) \in Nat
      /\ link = links[Len(outs) + 1] /\ source = Source
  <2>1. Source = zip.files[item]
    BY DEF Source
  <2>2. item \in DOMAIN zip.texts /\ zip.texts \in Seq(Seq(Link))
    BY <1>1, NextLink, ZipType DEF LinksInv
  <2> QED BY <1>1, <1>2, <2>1, <2>2, NextLink
<1>4. zip \in Archive /\ IsSequence(uploads) /\ IsSequence(text) /\ Written(source, links, outs)
  BY <1>1, <1>2 DEF LinksInv, Running
<1>5. PICK out : out = Rewritten(source, link)
  OBVIOUS
<1>6. Made(source, link, out)
  <2>1. link.syntax = "code" \/ PagesFor(source, link) # {} \/ AssetAt(source, link) = {}
    BY <1>1, <1>3 DEF NeedsAsset
  <2>2. AssetAt(source, link) # {} => PagesFor(source, link) = {}
    BY <1>3, <1>4, AssetsAreNoPages
  <2> QED BY <2>1, <2>2, <1>5 DEF Made
<1>7. \A k \in DOMAIN uploads : k \in DOMAIN uploads' /\ uploads'[k] = uploads[k]
  BY <1>1
<1>8. Made(source, link, out)'
  BY <1>1, <1>6, <1>7, MadeStays
<1>9. text' = Append(outs, out)
  BY <1>1, <1>2, <1>3, <1>5
<1>10. Written(source, links, Append(outs, out))'
  BY <1>1, <1>3, <1>4, <1>7, <1>8, WrittenFurther
<1>11. IsSequence(text)'
  BY <1>1, <1>4, AppendToSequence
<1>12. \A s, l, o : item <= Len(zip.files) /\ s = zip.files[item] /\ l = zip.texts[item] /\ o = text' => Written(s, l, o)'
  BY <1>2, <1>9, <1>10
<1>13. IsSequence(uploads)'
  BY <1>1, <1>4
<1>14. \A c \in cache' : c.at \in DOMAIN uploads' /\ uploads'[c.at].page = c.page /\ uploads'[c.at].asset = c.asset
  BY <1>1 DEF LinksInv
<1> QED BY <1>1, <1>7, <1>11, <1>12, <1>13, <1>14, GoesOn

LEMMA UploadAssetKeeps == ASSUME LinksInv, UploadAsset PROVE LinksInv'
<1> DEFINE asset == Sole(AssetAt(Source, Head(Unwritten)))
           new == [page |-> Target(Source), asset |-> asset, at |-> Len(uploads) + 1]
           kept == CHOOSE c \in Remembered(asset) : TRUE
<1>1. /\ Running /\ Unwritten # <<>> /\ NeedsAsset(Head(Unwritten))
      /\ zip' = zip /\ item' = item /\ pages' = pages
      /\ IF Remembered(asset) # {}
         THEN text' = Append(text, Out("asset", kept.at)) /\ uploads' = uploads /\ cache' = cache
         ELSE /\ uploads' = Append(uploads, new) /\ cache' = cache \cup {new}
              /\ text' = Append(text, Out("asset", new.at))
  BY DEF UploadAsset
<1>2. PICK source, links, outs, link : /\ source = zip.files[item] /\ links = zip.texts[item] /\ outs = text
                                       /\ link = zip.texts[item][Len(text) + 1]
  OBVIOUS
<1>3. /\ source \in File /\ Len(outs) + 1 <= Len(links) /\ Head(Unwritten) = link /\ link \in Link /\ Len(links) \in Nat
      /\ link = links[Len(outs) + 1] /\ source = Source
  <2>1. Source = zip.files[item]
    BY DEF Source
  <2>2. item \in DOMAIN zip.texts /\ zip.texts \in Seq(Seq(Link))
    BY <1>1, NextLink, ZipType DEF LinksInv
  <2> QED BY <1>1, <1>2, <2>1, <2>2, NextLink
<1>4. zip \in Archive /\ IsSequence(uploads) /\ IsSequence(text) /\ Written(source, links, outs)
  BY <1>1, <1>2 DEF LinksInv, Running
<1>5. /\ link.syntax # "code" /\ AssetAt(source, link) # {} /\ AssetAt(source, link) = {Base(source, link)}
      /\ asset = Base(source, link)
  <2>1. link.syntax # "code" /\ AssetAt(source, link) # {}
    BY <1>1, <1>3 DEF NeedsAsset
  <2>2. AssetAt(source, link) = {Base(source, link)}
    BY <2>1, <1>3, <1>4, AssetsAreNoPages
  <2> QED BY <2>1, <2>2, <1>3, SoleOf
<1>6. \A c \in cache : c.at \in DOMAIN uploads /\ uploads[c.at].page = c.page /\ uploads[c.at].asset = c.asset
  BY DEF LinksInv
<1> DEFINE Led(spot) == /\ text' = Append(outs, Out("asset", spot)) /\ spot \in DOMAIN uploads'
                        /\ uploads'[spot].page = Target(source) /\ uploads'[spot].asset = Base(source, link)
                        /\ \E S : uploads' \in Seq(S)
                        /\ \A k \in DOMAIN uploads : k \in DOMAIN uploads' /\ uploads'[k] = uploads[k]
                        /\ \A c \in cache' : /\ c.at \in DOMAIN uploads' /\ uploads'[c.at].page = c.page
                                            /\ uploads'[c.at].asset = c.asset
<1>7. \E spot : Led(spot)
  <2>1. CASE Remembered(asset) # {}
    <3>1. kept \in cache /\ kept.asset = asset /\ kept.page = Target(Source)
      <4>1. kept \in Remembered(asset)
        BY <2>1
      <4> QED BY <4>1 DEF Remembered
    <3>2. text' = Append(outs, Out("asset", kept.at)) /\ uploads' = uploads /\ cache' = cache
      BY <1>1, <1>2, <2>1
    <3>3. kept.at \in DOMAIN uploads /\ uploads[kept.at].page = Target(source) /\ uploads[kept.at].asset = Base(source, link)
      BY <3>1, <1>3, <1>5, <1>6
    <3>4. \E S : uploads' \in Seq(S)
      BY <3>2, <1>4 DEF IsSequence
    <3> HIDE DEF kept
    <3> QED BY <3>2, <3>3, <3>4, <1>6
  <2>2. CASE Remembered(asset) = {}
    <3>1. uploads' = Append(uploads, new) /\ cache' = cache \cup {new} /\ text' = Append(outs, Out("asset", new.at))
      BY <1>1, <1>2, <2>2
    <3>2. new.page = Target(source) /\ new.asset = Base(source, link) /\ new.at = Len(uploads) + 1
      BY <1>3, <1>5
    <3> HIDE DEF new
    <3>3. /\ IsSequence(Append(uploads, new)) /\ Len(uploads) \in Nat /\ DOMAIN uploads = 1..Len(uploads)
          /\ DOMAIN Append(uploads, new) = 1..(Len(uploads) + 1)
          /\ Append(uploads, new)[Len(uploads) + 1] = new
          /\ \A k \in 1..Len(uploads) : Append(uploads, new)[k] = uploads[k]
      BY <1>4, AppendToSequence
    <3>4. new.at \in DOMAIN uploads' /\ uploads'[new.at] = new
      BY <3>1, <3>2, <3>3
    <3>5. \A k \in DOMAIN uploads : k \in DOMAIN uploads' /\ uploads'[k] = uploads[k]
      BY <3>1, <3>3
    <3>6. \A c \in cache' : c.at \in DOMAIN uploads' /\ uploads'[c.at].page = c.page /\ uploads'[c.at].asset = c.asset
      <4> SUFFICES ASSUME NEW c \in cache'
                   PROVE  c.at \in DOMAIN uploads' /\ uploads'[c.at].page = c.page /\ uploads'[c.at].asset = c.asset
        OBVIOUS
      <4>1. CASE c = new
        BY <4>1, <3>4
      <4>2. CASE c \in cache
        BY <4>2, <3>5, <1>6
      <4> QED BY <4>1, <4>2, <3>1
    <3>7. \E S : uploads' \in Seq(S)
      BY <3>1, <3>3 DEF IsSequence
    <3> QED BY <3>1, <3>2, <3>4, <3>5, <3>6, <3>7
  <2> QED BY <2>1, <2>2
<1> HIDE DEF asset, new, kept
<1>8. PICK spot : Led(spot)
  <2> HIDE DEF Led
  <2> QED BY <1>7
<1>9. PICK out : out = Out("asset", spot) /\ text' = Append(outs, out)
  BY <1>8
<1>10. Made(source, link, out)'
  <2>1. /\ Target(source)' = Target(source) /\ Base(source, link)' = Base(source, link)
        /\ AssetAt(source, link)' = AssetAt(source, link)
    BY <1>1, LookupsStay
  <2>2. out.form = "asset" /\ out.to = spot
    BY <1>9 DEF Out
  <2> QED BY <2>1, <2>2, <1>5, <1>8 DEF Made
<1>11. Written(source, links, Append(outs, out))'
  BY <1>1, <1>3, <1>4, <1>8, <1>10, WrittenFurther
<1>12. IsSequence(text)'
  BY <1>2, <1>4, <1>9, AppendToSequence
<1>13. \A s, l, o : item <= Len(zip.files) /\ s = zip.files[item] /\ l = zip.texts[item] /\ o = text' => Written(s, l, o)'
  BY <1>2, <1>9, <1>11
<1>14. zip' = zip /\ item' = item /\ pages' = pages
  BY <1>1
<1>15. \A k \in DOMAIN uploads : k \in DOMAIN uploads' /\ uploads'[k] = uploads[k]
  BY <1>8
<1>16. IsSequence(uploads)'
  BY <1>8 DEF IsSequence
<1>17. \A c \in cache' : c.at \in DOMAIN uploads' /\ uploads'[c.at].page = c.page /\ uploads'[c.at].asset = c.asset
  BY <1>8
<1> QED BY <1>12, <1>13, <1>14, <1>15, <1>16, <1>17, GoesOn

\* What a step that goes on to the next file, or begins this one again, has to show
LEMMA GoesOver ==
  ASSUME LinksInv, zip' = zip, uploads' = uploads, text' = <<>>, item' \in Nat, item' >= 1,
         cache' \in SUBSET cache, DOMAIN pages' = DOMAIN pages,
         \A i \in DOMAIN pages : \A source, links, outs :
           source = zip.files[i] /\ links = zip.texts[i] /\ outs = pages'[i] => Written(source, links, outs)
  PROVE  LinksInv'
<1>1. zip \in Archive /\ IsSequence(uploads) /\ DOMAIN pages = DOMAIN zip.files
  BY DEF LinksInv
<1>2. /\ zip.files \in Seq(File) /\ zip.texts \in Seq(Seq(Link)) /\ DOMAIN zip.texts = DOMAIN zip.files
  BY <1>1, ZipType
<1>3. ASSUME NEW i \in DOMAIN zip.files
      PROVE  Written(zip.files[i], zip.texts[i], pages[i])'
  <2>1. PICK source, links, outs : source = zip.files[i] /\ links = zip.texts[i] /\ outs = pages'[i]
    OBVIOUS
  <2>2. Written(source, links, outs)
    BY <2>1, <1>1
  <2>3. Written(source, links, outs)'
    BY <2>2, WrittenStays
  <2> QED BY <2>1, <2>3
<1>4. ASSUME item' <= Len(zip'.files)
      PROVE  Written(zip.files[item], zip.texts[item], text)'
  <2>1. item' \in DOMAIN zip.files /\ item' \in DOMAIN zip.texts
    BY <1>2, <1>4
  <2>2. PICK source, links : source = zip.files[item'] /\ links = zip.texts[item']
    OBVIOUS
  <2>3. Len(links) \in Nat
    BY <2>1, <2>2, <1>2
  <2>4. Written(source, links, <<>>)
    BY <2>3, NothingWritten
  <2>5. Written(source, links, <<>>)'
    BY <2>4, WrittenStays
  <2> QED BY <2>2, <2>5
<1>5. IsSequence(text)' /\ IsSequence(uploads)'
  <2>1. <<>> \in Seq({})
    OBVIOUS
  <2> QED BY <2>1, <1>1 DEF IsSequence
<1>6. \A c \in cache' : c.at \in DOMAIN uploads' /\ uploads'[c.at].page = c.page /\ uploads'[c.at].asset = c.asset
  BY DEF LinksInv
<1>7. DOMAIN pages' = DOMAIN zip'.files
  BY <1>1
<1> QED BY <1>1, <1>3, <1>4, <1>5, <1>6, <1>7 DEF LinksInv

LEMMA PagesAsWritten ==
  ASSUME LinksInv
  PROVE  \A i \in DOMAIN pages : \A source, links, outs :
           source = zip.files[i] /\ links = zip.texts[i] /\ outs = pages[i] => Written(source, links, outs)
  BY DEF LinksInv

LEMMA UploadFailsKeeps == ASSUME LinksInv, UploadFails PROVE LinksInv'
<1>1. /\ zip' = zip /\ uploads' = uploads /\ text' = <<>> /\ item' = item + 1 /\ cache' = cache /\ pages' = pages
      /\ item \in Nat
  BY DEF UploadFails, LinksInv
<1> QED BY <1>1, PagesAsWritten, GoesOver

LEMMA ResumeKeeps == ASSUME LinksInv, Resume PROVE LinksInv'
<1>1. /\ zip' = zip /\ uploads' = uploads /\ text' = <<>> /\ item' = item /\ cache' = {} /\ pages' = pages
      /\ item \in Nat /\ item >= 1
  BY DEF Resume, LinksInv
<1> QED BY <1>1, PagesAsWritten, GoesOver

LEMMA UpdatePageKeeps == ASSUME LinksInv, UpdatePage PROVE LinksInv'
<1>1. /\ zip' = zip /\ uploads' = uploads /\ text' = <<>> /\ item' = item + 1 /\ cache' = cache
      /\ pages' = [pages EXCEPT ![item] = text] /\ item \in Nat /\ item <= Len(zip.files)
  BY DEF UpdatePage, LinksInv, Running
<1>2. DOMAIN pages' = DOMAIN pages
  BY <1>1
<1>3. ASSUME NEW i \in DOMAIN pages, NEW source, NEW links, NEW outs,
             source = zip.files[i], links = zip.texts[i], outs = pages'[i]
      PROVE  Written(source, links, outs)
  <2>1. CASE i = item
    <3>1. outs = text
      BY <2>1, <1>1, <1>3
    <3> QED BY <3>1, <2>1, <1>1, <1>3 DEF LinksInv
  <2>2. CASE i # item
    <3>1. outs = pages[i]
      BY <2>2, <1>1, <1>3
    <3> QED BY <3>1, <1>3 DEF LinksInv
  <2> QED BY <2>1, <2>2
<1> QED BY <1>1, <1>2, <1>3, GoesOver

LEMMA StepsKeepLinksInv == ASSUME LinksInv, [LinksNext]_linksVars PROVE LinksInv'
<1>1. CASE LinksNext
  BY <1>1, TransformLinkKeeps, UploadAssetKeeps, UploadFailsKeeps, UpdatePageKeeps, ResumeKeeps DEF LinksNext
<1>2. CASE UNCHANGED linksVars
  <2>1. /\ zip' = zip /\ item' = item /\ pages' = pages /\ text' = text /\ uploads' = uploads /\ cache' = cache
    BY <1>2 DEF linksVars
  <2>2. IsSequence(uploads) /\ IsSequence(text)
        /\ \A c \in cache : c.at \in DOMAIN uploads /\ uploads[c.at].page = c.page /\ uploads[c.at].asset = c.asset
    BY DEF LinksInv
  <2>3. ASSUME NEW source, NEW links, NEW outs, item <= Len(zip.files), source = zip.files[item],
               links = zip.texts[item], outs = text'
        PROVE  Written(source, links, outs)'
    <3>1. Written(source, links, outs)
      BY <2>1, <2>3 DEF LinksInv
    <3>2. \A k \in DOMAIN uploads : k \in DOMAIN uploads' /\ uploads'[k] = uploads[k]
      BY <2>1
    <3> QED BY <3>1, <3>2, <2>1, WrittenStays
  <2>4. \A k \in DOMAIN uploads : k \in DOMAIN uploads' /\ uploads'[k] = uploads[k]
    BY <2>1
  <2>5. IsSequence(uploads)' /\ IsSequence(text)'
    BY <2>1, <2>2
  <2>6. \A c \in cache' : c.at \in DOMAIN uploads' /\ uploads'[c.at].page = c.page /\ uploads'[c.at].asset = c.asset
    BY <2>1, <2>2
  <2> QED BY <2>1, <2>3, <2>4, <2>5, <2>6, GoesOn
<1> QED BY <1>1, <1>2

\* Each link that was written was made: led to a copy of its asset that was uploaded for the page
\* of this very file, or rewritten, whatever failed and was resumed.
THEOREM LinksInvariant == LinksSpec => []LinksInv
<1> QED BY InitSatisfiesLinksInv, StepsKeepLinksInv, PTL DEF LinksSpec

LEMMA LinksInvLands == LinksInv => ImportedLinksLand
<1> SUFFICES ASSUME LinksInv, NEW i \in DOMAIN pages, NEW k \in DOMAIN pages[i]
             PROVE  LET source == zip.files[i]
                        link == zip.texts[i][k]
                        out == pages[i][k]
                        targets == {Target(f) : f \in NamedFiles(source, link)}
                        byTitle == link.syntax = "wiki" /\ ~link.anchor
                                   /\ \/ link.from = "bare" /\ Len(link.segs) = 1
                                      \/ \E t \in targets : Len(t) = 1
                    IN /\ link.syntax = "code" => out = Same
                       /\ link.syntax # "code" /\ ~byTitle /\ targets # {} => out.form # "same" /\ out.to \in targets
                       /\ link.syntax # "code" /\ AssetAt(source, link) # {} =>
                            /\ out.form = "asset" /\ uploads[out.to].page = Target(source)
                            /\ uploads[out.to].asset = Base(source, link)
                       /\ (out.form \in {"page", "wiki"} /\ link.segs # <<>> /\ Last(link.segs) # Up
                             /\ Fold[Last(link.segs)] # Index) => Last(out.to) = Slug[Last(link.segs)]
  BY DEF ImportedLinksLand
<1> DEFINE source == zip.files[i]
           links == zip.texts[i]
           link == links[k]
           out == pages[i][k]
           targets == {Target(f) : f \in NamedFiles(source, link)}
<1>1. zip \in Archive /\ i \in DOMAIN zip.files /\ Written(source, links, pages[i])
  BY DEF LinksInv
<1>2. source \in File /\ links \in Seq(Link) /\ i \in DOMAIN zip.texts
  <2>1. zip.files \in Seq(File) /\ zip.texts \in Seq(Seq(Link)) /\ DOMAIN zip.texts = DOMAIN zip.files
    BY <1>1, ZipType
  <2> QED BY <2>1, <1>1
<1>3. k \in 1..Len(pages[i]) /\ Len(pages[i]) <= Len(links) /\ Made(source, link, out)
  <2>1. \E S : pages[i] \in Seq(S)
    BY <1>1 DEF Written, IsSequence
  <2>2. k \in 1..Len(pages[i])
    BY <2>1
  <2> QED BY <2>2, <1>1 DEF Written
<1>4. k \in DOMAIN links /\ link \in Link
  <2>1. Len(links) \in Nat /\ DOMAIN links = 1..Len(links) /\ \E S : pages[i] \in Seq(S)
    BY <1>1, <1>2 DEF Written, IsSequence
  <2>2. Len(pages[i]) \in Nat
    BY <2>1
  <2>3. k \in 1..Len(links)
    BY <2>1, <2>2, <1>3
  <2> QED BY <2>1, <2>3, <1>2
<1>5. link.from = "bare" => link.segs # <<>>
  BY <1>1, <1>2, <1>4, ArchiveAssumption
<1> HIDE DEF source, link, out, links
<1>6. CASE link.syntax # "code" /\ AssetAt(source, link) # {}
  <2>1. targets = {}
    BY <1>1, <1>2, <1>4, <1>6, AssetsAreNoPages
  <2>2. /\ out.form = "asset" /\ uploads[out.to].page = Target(source) /\ uploads[out.to].asset = Base(source, link)
    BY <1>3, <1>6 DEF Made
  <2> QED BY <2>1, <2>2, <1>6 DEF source, link, out, links
<1>7. CASE ~(link.syntax # "code" /\ AssetAt(source, link) # {})
  <2>1. Lands(source, link, out)
    <3>1. out = Rewritten(source, link)
      BY <1>3, <1>7 DEF Made
    <3>2. Lands(source, link, Rewritten(source, link))
      BY <1>1, <1>2, <1>4, <1>5, RewrittenLands
    <3> QED BY <3>1, <3>2
  <2>2. targets # {} => NamedFiles(source, link) # {}
    OBVIOUS
  <2> QED BY <2>1, <2>2, <1>7 DEF Lands, ByTitle, source, link, out, links
<1> QED BY <1>6, <1>7

\* A link of an imported page leads to the page of the file that it named in the archive, or to
\* the page's own copy of an asset (resolvePagePath, resolveAndUploadAsset).
THEOREM LinksLand == LinksSpec => []ImportedLinksLand
<1> QED BY LinksInvariant, LinksInvLands, PTL
=============================================================================
