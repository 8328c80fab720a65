------------------------ MODULE BackgroundJobs_proofs ------------------------
(***************************************************************************)
(* Theorems about the durable batch runtime, for every value of the        *)
(* constants: any number of workers, jobs, tasks and targets, any lease    *)
(* length and any bounds.                                                  *)
(***************************************************************************)
EXTENDS BackgroundJobs, FiniteSetTheorems, TLAPS

\* The counts of _refresh_job are natural numbers.
LEMMA CountsType ==
  ASSUME TypeOK, NEW j \in Job
  PROVE  CountsOf(j) \in Counts
<1>1. \A s : Cardinality(InStatus(j, s)) \in Nat
  <2>1. \A s : InStatus(j, s) \subseteq Task
    BY DEF InStatus, TasksOf
  <2>2. \A s : IsFiniteSet(InStatus(j, s))
    BY <2>1, FS_Subset, JobAssumption
  <2> QED
    BY <2>2, FS_CardinalityType
<1> QED
  BY <1>1 DEF CountsOf, Counts

\* Every verdict a worker can pass to _complete_task is a Verdict.
LEMMA VerdictType == {Created, Reused, Missing, Skip, Fail, NoVerdict} \subseteq Verdict
  BY DEF Created, Reused, Missing, Skip, Fail, NoVerdict, Verdict, Finished,
         Exception

\* Raising one cell of the results on file keeps the table's type.
LEMMA CountUpType ==
  ASSUME NEW D, NEW f \in [D -> Nat], NEW d \in D
  PROVE  [f EXCEPT ![d] = @ + 1] \in [D -> Nat]
  OBVIOUS

\* Filing a result counts up one cell.
LEMMA FileType ==
  ASSUME TypeOK, NEW x \in Target, NEW s \in 0 .. MaxSnapshot, File(x, s)
  PROVE  saved' \in [Target -> [0 .. MaxSnapshot -> Nat]]
<1>1. saved[x] \in [0 .. MaxSnapshot -> Nat]
  BY DEF TypeOK
<1>2. [saved[x] EXCEPT ![s] = @ + 1] \in [0 .. MaxSnapshot -> Nat]
  BY <1>1, CountUpType, Zenon
<1>3. saved' = [saved EXCEPT ![x] = [saved[x] EXCEPT ![s] = @ + 1]]
  BY Zenon DEF File
<1> QED
  BY <1>2, <1>3 DEF TypeOK

\* A table of results may be emptied.
LEMMA NothingSavedType == NothingSaved \in [0 .. MaxSnapshot -> Nat]
  BY DEF NothingSaved

\* The initial tally is a tally.
LEMMA TallyType == Zero \in Counts /\ NoTally \in [counts : Counts, open : BOOLEAN]
  BY DEF Zero, Counts, NoTally

\* A settled job has a job status.
LEMMA SettledType == \A c : SettledStatus(c) \in JobStatus
  BY DEF SettledStatus, JobStatus

\* The values a row or a worker can hold are those the models declare; in
\* particular every worker that is not idle has a task in hand.
LEMMA TypeInit == Init => TypeOK
  BY BoundAssumption, NothingSavedType
  DEF Init, TypeOK, Counts, Zero, NoLease, Lease, NoVerdict, Verdict, Finished,
      Exception, NoTally, Holding

\* No step leaves the types.
LEMMA TypeStep == TypeOK /\ [Next]_vars => TypeOK'
<1> SUFFICES ASSUME TypeOK, [Next]_vars PROVE TypeOK'
  OBVIOUS
<1> USE JobAssumption
<1>1. ASSUME NEW j \in Job, CreateJob(j) PROVE TypeOK'
  BY <1>1 DEF TypeOK, CreateJob, JobStatus, TaskStatus, targetVars, workerVars,
              boundVars, TasksOf
<1>2. ASSUME NEW j \in Job, Retry(j) PROVE TypeOK'
  <2>1. counts' \in [Job -> Counts]
    <3>1. \A c \in Counts : [c EXCEPT !.skipped = 0, !.failed = 0] \in Counts
      BY DEF Counts
    <3> QED
      BY <1>2, <3>1 DEF TypeOK, Retry
  <2>2. taskStatus' \in [Task -> TaskStatus \cup {"absent"}]
    BY <1>2 DEF TypeOK, Retry, TaskStatus
  <2>3. NoLease \in Lease
    BY BoundAssumption DEF NoLease, Lease
  <2>4. lease' \in [Task -> Lease]
    BY <1>2, <2>3 DEF TypeOK, Retry
  <2> QED
    BY <1>2, <2>1, <2>2, <2>4
    DEF TypeOK, Retry, JobStatus, targetVars, workerVars
<1>3. ASSUME NEW j \in Job, LoseCreator(j) PROVE TypeOK'
  BY <1>3 DEF TypeOK, LoseCreator, taskVars, targetVars, workerVars, boundVars
<1>4. ASSUME NEW x \in Target, DeleteTarget(x) \/ ChangeTarget(x) PROVE TypeOK'
  <2>1. saved' \in [Target -> [0 .. MaxSnapshot -> Nat]]
    BY <1>4, NothingSavedType, Zenon DEF TypeOK, DeleteTarget, ChangeTarget
  <2>2. targetState' \in [Target -> {"ready", "unready", "gone"}]
    BY <1>4 DEF TypeOK, DeleteTarget, ChangeTarget
  <2> QED
    BY <1>4, <2>1, <2>2
    DEF TypeOK, DeleteTarget, ChangeTarget, jobVars, taskVars, workerVars, boundVars
<1>5. ASSUME NEW x \in Target, ReviseInputs(x) PROVE TypeOK'
  BY <1>5, BoundAssumption
  DEF TypeOK, ReviseInputs, jobVars, taskVars, workerVars, boundVars
<1>6. ASSUME NEW x \in Target, RunInteractively(x) PROVE TypeOK'
  <2>1. File(x, snapshot[x]) /\ snapshot[x] \in 0 .. MaxSnapshot
    BY <1>6 DEF TypeOK, RunInteractively
  <2> QED
    BY <1>6, <2>1, FileType
    DEF TypeOK, RunInteractively, jobVars, taskVars, workerVars, boundVars
<1>7. ASSUME NEW w \in Worker, NEW t \in Task, Claim(w, t) PROVE TypeOK'
  <2>1. NewLease \in Lease
    BY BoundAssumption DEF NewLease, Lease
  <2>2. lease' \in [Task -> Lease] /\ attempt' \in [Task -> Nat]
    BY <1>7, <2>1 DEF TypeOK, Claim
  <2>3. /\ jobStatus' \in [Job -> JobStatus \cup {"absent"}]
        /\ taskStatus' \in [Task -> TaskStatus \cup {"absent"}]
    BY <1>7 DEF TypeOK, Claim, JobStatus, TaskStatus
  <2>4. /\ pc' \in [Worker -> Holding \cup {"idle", "tallying", "posting"}]
        /\ task' \in [Worker -> Task \cup {NoTask}]
        /\ \A v \in Worker : pc'[v] # "idle" => task'[v] \in Task
        /\ allowed' \in [Worker -> BOOLEAN]
    BY <1>7 DEF TypeOK, Claim, Holding
  <2> QED
    BY <1>7, <2>2, <2>3, <2>4 DEF TypeOK, Claim, targetVars, boundVars
<1>8. ASSUME NEW w \in Worker, Inspect(w) PROVE TypeOK'
  <2>1. verdict' \in [Worker -> Verdict]
    BY <1>8, VerdictType DEF TypeOK, Inspect, Conclude
  <2>2. /\ pc' \in [Worker -> Holding \cup {"idle", "tallying", "posting"}]
        /\ \A v \in Worker : pc'[v] # "idle" => task'[v] \in Task
    BY <1>8 DEF TypeOK, Inspect, Conclude, Holding
  <2> QED
    BY <1>8, <2>1, <2>2
    DEF TypeOK, Inspect, jobVars, taskVars, targetVars, boundVars
<1>9. ASSUME NEW w \in Worker, Load(w) PROVE TypeOK'
  BY <1>9 DEF TypeOK, Load, Holding, jobVars, taskVars, targetVars, boundVars
<1>10. ASSUME NEW w \in Worker, Save(w) PROVE TypeOK'
  <2>1. verdict' \in [Worker -> Verdict]
    BY <1>10, VerdictType DEF TypeOK, Save, Conclude
  <2>2. /\ pc' \in [Worker -> Holding \cup {"idle", "tallying", "posting"}]
        /\ \A v \in Worker : pc'[v] # "idle" => task'[v] \in Task
    BY <1>10 DEF TypeOK, Save, Conclude, Holding
  <2>3. saved' \in [Target -> [0 .. MaxSnapshot -> Nat]]
    <3>1. /\ TargetOf[task[w]] \in Target
          /\ loaded[w] \in 0 .. MaxSnapshot
          /\ File(TargetOf[task[w]], loaded[w])
      BY <1>10 DEF TypeOK, Save
    <3> QED
      BY <3>1, FileType
  <2> QED
    BY <1>10, <2>1, <2>2, <2>3 DEF TypeOK, Save, jobVars, taskVars, boundVars
<1>11. ASSUME NEW w \in Worker, Reject(w) PROVE TypeOK'
  <2>1. verdict' \in [Worker -> Verdict]
    BY <1>11, VerdictType DEF TypeOK, Reject, Conclude
  <2>2. /\ pc' \in [Worker -> Holding \cup {"idle", "tallying", "posting"}]
        /\ \A v \in Worker : pc'[v] # "idle" => task'[v] \in Task
    BY <1>11 DEF TypeOK, Reject, Conclude, Holding
  <2> QED
    BY <1>11, <2>1, <2>2
    DEF TypeOK, Reject, jobVars, taskVars, targetVars, boundVars
<1>12. ASSUME NEW w \in Worker, Finish(w) PROVE TypeOK'
  BY <1>12, BoundAssumption
  DEF TypeOK, Finish, Holding, Verdict, Finished, Exception, TaskStatus,
      Lease, NoLease, jobVars, targetVars, boundVars
<1>13. ASSUME NEW w \in Worker, Tally(w) PROVE TypeOK'
  <2>1. JobOf[task[w]] \in Job
    BY <1>13 DEF TypeOK, Tally
  <2>2. CountsOf(JobOf[task[w]]) \in Counts
    BY <2>1, CountsType
  <2> QED
    BY <1>13, <2>2 DEF TypeOK, Tally, Holding, HasUnfinished, jobVars, taskVars,
                       targetVars, boundVars
<1>14. ASSUME NEW w \in Worker, Post(w) PROVE TypeOK'
  <2>1. /\ pc' \in [Worker -> Holding \cup {"idle", "tallying", "posting"}]
        /\ task' \in [Worker -> Task \cup {NoTask}]
        /\ \A v \in Worker : pc'[v] # "idle" => task'[v] \in Task
        /\ allowed' \in [Worker -> BOOLEAN]
    BY <1>14 DEF TypeOK, Post, Release
  <2>2. verdict' \in [Worker -> Verdict]
    BY <1>14, VerdictType DEF TypeOK, Post, Release
  <2>3. tally' \in [Worker -> [counts : Counts, open : BOOLEAN]]
    BY <1>14, TallyType DEF TypeOK, Post, Release
  <2>4. loaded' \in [Worker -> 0 .. MaxSnapshot]
    BY <1>14, BoundAssumption DEF TypeOK, Post, Release
  <2>5. /\ counts' \in [Job -> Counts]
        /\ jobStatus' \in [Job -> JobStatus \cup {"absent"}]
    BY <1>14, SettledType DEF TypeOK, Post, JobStatus
  <2> QED
    BY <1>14, <2>1, <2>2, <2>3, <2>4, <2>5
    DEF TypeOK, Post, taskVars, targetVars, boundVars
<1>15. ASSUME NEW w \in Worker, RecordFault(w) PROVE TypeOK'
  BY <1>15, VerdictType
  DEF TypeOK, RecordFault, Conclude, Holding, jobVars, taskVars, targetVars
<1>16. ASSUME NEW w \in Worker, Crash(w) PROVE TypeOK'
  BY <1>16, VerdictType, TallyType, BoundAssumption
  DEF TypeOK, Crash, Release, jobVars, taskVars, targetVars
<1>17. CASE Tick
  <2>1. \A l \in Lease : l >= 0 => l - 1 \in Lease
    BY BoundAssumption DEF Lease
  <2>2. lease' \in [Task -> Lease]
    BY <1>17, <2>1 DEF TypeOK, Tick
  <2> QED
    BY <1>17, <2>2 DEF TypeOK, Tick, jobVars, targetVars, workerVars, boundVars
<1>18. CASE UNCHANGED vars
  BY <1>18 DEF TypeOK, vars, jobVars, taskVars, targetVars, workerVars, boundVars
<1> QED
  BY <1>1, <1>2, <1>3, <1>4, <1>5, <1>6, <1>7, <1>8, <1>9, <1>10, <1>11, <1>12,
     <1>13, <1>14, <1>15, <1>16, <1>17, <1>18
  DEF Next, Step, Environment

\* Every row and every worker's local state stays in its type, for any number of
\* workers, jobs and tasks.
THEOREM TypeCorrect == Spec => []TypeOK
  BY TypeInit, TypeStep, PTL DEF Spec

-----------------------------------------------------------------------------
(* A task is running exactly while it has a lease. *)

\* A job is created over task ids none of which has a row yet.
LEMMA CreatedTasksAreNew ==
  ASSUME NEW j \in Job, CreateJob(j), NEW t \in TasksOf(j)
  PROVE  taskStatus[t] = "absent"
  BY JobAssumption DEF CreateJob, TasksOf

\* Status and lease of a task change together.
LEMMA LeaseStep ==
  TypeOK /\ LeaseIffRunning /\ [Next]_vars => LeaseIffRunning'
<1> SUFFICES ASSUME TypeOK, LeaseIffRunning, [Next]_vars PROVE LeaseIffRunning'
  OBVIOUS
<1>1. ASSUME NEW j \in Job, CreateJob(j) PROVE LeaseIffRunning'
  BY <1>1, CreatedTasksAreNew DEF LeaseIffRunning, CreateJob
<1>2. ASSUME NEW j \in Job, Retry(j) PROVE LeaseIffRunning'
  BY <1>2 DEF LeaseIffRunning, Retry, Exceptions, Exception, TasksOf
<1>3. ASSUME NEW w \in Worker, NEW t \in Task, Claim(w, t) PROVE LeaseIffRunning'
  <2>1. NewLease # NoLease
    BY BoundAssumption DEF NewLease, NoLease
  <2> QED
    BY <1>3, <2>1 DEF LeaseIffRunning, Claim, TypeOK
<1>4. ASSUME NEW w \in Worker, Finish(w) PROVE LeaseIffRunning'
  <2>1. verdict[w].status # "running" /\ task[w] \in Task
    BY <1>4 DEF Finish, TypeOK, Verdict, Finished, Exception
  <2> QED
    BY <1>4, <2>1 DEF LeaseIffRunning, Finish, TypeOK
<1>5. CASE Tick
  <2>1. \A l \in Lease : l >= 0 => l # NoLease /\ l - 1 # NoLease
    BY BoundAssumption DEF Lease, NoLease
  <2> QED
    BY <1>5, <2>1 DEF LeaseIffRunning, Tick, TypeOK
<1>6. ASSUME UNCHANGED <<taskStatus, lease>> PROVE LeaseIffRunning'
  BY <1>6 DEF LeaseIffRunning
<1> QED
  BY <1>1, <1>2, <1>3, <1>4, <1>5, <1>6
  DEF Next, Step, Environment, LoseCreator, DeleteTarget,
      ChangeTarget, ReviseInputs,
      RunInteractively, Inspect, Load, Save, Reject, Tally, Post, RecordFault,
      Crash, taskVars, vars

\* A running row always has a lease that can run out, and no other row has one
\* (_claim_task, _complete_task, retry_background_job): no task is stuck.
THEOREM LeaseTracksRunning == Spec => []LeaseIffRunning
<1>1. Init => LeaseIffRunning
  BY DEF Init, LeaseIffRunning
<1> QED
  BY <1>1, LeaseStep, TypeCorrect, PTL DEF Spec

-----------------------------------------------------------------------------
(* Success has a saved result behind it. *)

\* The inductive form also speaks of the success a worker is about to record:
\* its result was on file before the task row is touched.
AboutToSucceed(w) == pc[w] = "finishing" /\ verdict[w].status = "succeeded"

Evidence(w) ==
  AboutToSucceed(w) => verdict[w].outcome # "none" /\ Backed(TargetOf[task[w]])

BackedInv ==
  /\ SuccessBacked
  /\ \A w \in Worker : Evidence(w)

\* Filing a result changes its own cell and no other.
LEMMA FileEffect ==
  ASSUME TypeOK, NEW y \in Target, NEW s \in 0 .. MaxSnapshot, File(y, s),
         NEW x \in Target, NEW r \in 0 .. MaxSnapshot
  PROVE  /\ saved[x][r] \in Nat
         /\ saved'[x][r] = IF x = y /\ r = s THEN saved[x][r] + 1 ELSE saved[x][r]
<1>1. saved' = [saved EXCEPT ![y] = [saved[y] EXCEPT ![s] = saved[y][s] + 1]]
  BY Zenon DEF File
<1>2. /\ saved \in [Target -> [0 .. MaxSnapshot -> Nat]]
      /\ saved[x] \in [0 .. MaxSnapshot -> Nat]
      /\ saved[y] \in [0 .. MaxSnapshot -> Nat]
  BY DEF TypeOK
<1>3. saved'[x] = IF x = y THEN [saved[y] EXCEPT ![s] = saved[y][s] + 1] ELSE saved[x]
  BY <1>1, <1>2, Zenon
<1>4. CASE x = y
  BY <1>2, <1>3, <1>4
<1>5. CASE x # y
  BY <1>2, <1>3, <1>5
<1> QED
  BY <1>4, <1>5

\* Results are only added while their target exists; a deletion is final.
LEMMA BackingLasts ==
  ASSUME TypeOK, [Next]_vars, NEW x \in Target, Backed(x)
  PROVE  Backed(x)'
<1>a. targetState[x] = "gone" => targetState'[x] = "gone"
  BY DEF Next, Step, Environment, CreateJob, Retry, LoseCreator, DeleteTarget,
         ChangeTarget, ReviseInputs, RunInteractively, Claim, Inspect, Load, Save,
         Reject, Finish, Tally, Post, RecordFault, Crash, Tick, targetVars, vars, TypeOK
<1>b. CASE targetState[x] = "gone"
  BY <1>a, <1>b, Zenon DEF Backed
<1>c. CASE targetState[x] # "gone"
  <2>0. PICK r \in 0 .. MaxSnapshot : saved[x][r] > 0
    BY <1>c DEF Backed
  <2>1. ASSUME NEW y \in Target, NEW s \in 0 .. MaxSnapshot, File(y, s)
        PROVE  Backed(x)'
    <3>1. saved'[x][r] > 0
      BY <2>1, <2>0, FileEffect
    <3> QED
      BY <3>1, Zenon DEF Backed
  <2>2. CASE UNCHANGED saved
    BY <2>0, <2>2 DEF Backed
  <2>3. ASSUME NEW y \in Target, RunInteractively(y) PROVE Backed(x)'
    BY <2>3, <2>1 DEF RunInteractively, TypeOK
  <2>4. ASSUME NEW w \in Worker, Save(w) PROVE Backed(x)'
    <3>1. /\ TargetOf[task[w]] \in Target
          /\ loaded[w] \in 0 .. MaxSnapshot
          /\ File(TargetOf[task[w]], loaded[w])
      BY <2>4, JobAssumption DEF TypeOK, Save
    <3> QED
      BY <3>1, <2>1
  <2>5. ASSUME NEW y \in Target, DeleteTarget(y) PROVE Backed(x)'
    <3>1. CASE y = x
      BY <2>5, <3>1 DEF DeleteTarget, Backed, TypeOK
    <3>2. CASE y # x
      BY <2>0, <2>5, <3>2 DEF DeleteTarget, Backed, TypeOK
    <3> QED
      BY <3>1, <3>2
  <2> QED
    BY <2>2, <2>3, <2>4, <2>5
    DEF Next, Step, Environment, CreateJob, Retry, LoseCreator, ChangeTarget,
        ReviseInputs, Claim, Inspect, Load, Reject, Finish, Tally, Post,
        RecordFault, Crash, Tick, targetVars, vars
<1> QED
  BY <1>b, <1>c

\* What was saved counts as backing.
LEMMA FilingBacks ==
  ASSUME TypeOK, NEW x \in Target, NEW s \in 0 .. MaxSnapshot, File(x, s)
  PROVE  Backed(x)'
<1>1. saved'[x][s] > 0
  BY FileEffect
<1> QED
  BY <1>1, Zenon DEF Backed

\* No step makes a row say succeeded, or a worker about to say so, unbacked.
LEMMA BackedStep == TypeOK /\ BackedInv /\ [Next]_vars => BackedInv'
<1> SUFFICES ASSUME TypeOK, BackedInv, [Next]_vars PROVE BackedInv'
  OBVIOUS
<1> USE JobAssumption
<1>a. \A x \in Target : Backed(x) => Backed(x)'
  BY BackingLasts
<1>b. ASSUME \A t \in Task : taskStatus'[t] = "succeeded" =>
                taskStatus[t] = "succeeded" /\ outcome'[t] = outcome[t]
      PROVE  SuccessBacked'
  BY <1>a, <1>b DEF BackedInv, SuccessBacked
<1>c. ASSUME \A w \in Worker : AboutToSucceed(w)' =>
                /\ AboutToSucceed(w)
                /\ verdict'[w] = verdict[w]
                /\ task'[w] = task[w] /\ task[w] \in Task
      PROVE  (\A w \in Worker : Evidence(w))'
  BY <1>a, <1>c DEF BackedInv, Evidence
<1>1. ASSUME NEW j \in Job, CreateJob(j) \/ Retry(j) \/ LoseCreator(j)
      PROVE  BackedInv'
  <2>1. SuccessBacked'
    BY <1>1, <1>b DEF CreateJob, Retry, LoseCreator, taskVars, TypeOK
  <2>2. UNCHANGED workerVars
    BY <1>1 DEF CreateJob, Retry, LoseCreator
  <2>3. (\A w \in Worker : Evidence(w))'
    BY <2>2, <1>c DEF AboutToSucceed, workerVars, TypeOK
  <2> QED
    BY <2>1, <2>3 DEF BackedInv
<1>2. ASSUME NEW x \in Target,
             \/ DeleteTarget(x) \/ ChangeTarget(x)
             \/ ReviseInputs(x) \/ RunInteractively(x)
      PROVE  BackedInv'
  BY <1>2, <1>b, <1>c
  DEF BackedInv, Evidence, AboutToSucceed, DeleteTarget, ChangeTarget, ReviseInputs,
      RunInteractively, workerVars, taskVars, TypeOK
<1>3. ASSUME NEW w \in Worker, NEW t \in Task, Claim(w, t) PROVE BackedInv'
  BY <1>3, <1>b, <1>c DEF BackedInv, Evidence, AboutToSucceed, Claim, TypeOK
<1>4. ASSUME NEW w \in Worker, Inspect(w) PROVE BackedInv'
  <2>1. SuccessBacked'
    BY <1>4, <1>b DEF Inspect, taskVars
  <2>2. ASSUME NEW v \in Worker, AboutToSucceed(v)'
        PROVE  (verdict[v].outcome # "none" /\ Backed(TargetOf[task[v]]))'
    <3>0. task' = task /\ saved' = saved
      BY <1>4 DEF Inspect, targetVars
    <3>1. CASE v # w
      BY <1>4, <2>2, <3>0, <3>1, <1>a
      DEF BackedInv, Evidence, AboutToSucceed, Inspect, Conclude, TypeOK
    <3>2. CASE v = w
      <4>1. verdict'[w] = Reused /\ OnFile(TargetOf[task[w]])
        BY <1>4, <2>2, <3>2
        DEF AboutToSucceed, Inspect, Conclude, Fail, Missing, TypeOK
      <4>2. TargetOf[task[w]] \in Target
        BY <1>4 DEF TypeOK, Inspect
      <4>3. Backed(TargetOf[task[w]])
        BY <4>1, <4>2 DEF OnFile, Backed, TypeOK
      <4> QED
        BY <4>1, <4>2, <4>3, <3>0, <3>2, <1>a DEF Reused
    <3> QED
      BY <3>1, <3>2
  <2> QED
    BY <2>1, <2>2 DEF BackedInv, Evidence
<1>5. ASSUME NEW w \in Worker, Load(w) \/ Reject(w) PROVE BackedInv'
  BY <1>5, <1>b, <1>c
  DEF BackedInv, Evidence, AboutToSucceed, Load, Reject, Conclude, Fail, Skip, taskVars,
      TypeOK
<1>6. ASSUME NEW w \in Worker, Save(w) PROVE BackedInv'
  <2>1. SuccessBacked'
    BY <1>6, <1>b DEF Save, taskVars
  <2>2. ASSUME NEW v \in Worker, AboutToSucceed(v)'
        PROVE  (verdict[v].outcome # "none" /\ Backed(TargetOf[task[v]]))'
    <3>0. task' = task
      BY <1>6 DEF Save
    <3>1. CASE v # w
      BY <1>6, <2>2, <3>0, <3>1, <1>a
      DEF BackedInv, Evidence, AboutToSucceed, Save, Conclude, TypeOK
    <3>2. CASE v = w
      <4>1. PICK x \in Target, s \in 0 .. MaxSnapshot :
               x = TargetOf[task[w]] /\ File(x, s)
        BY <1>6 DEF TypeOK, Save
      <4>2. Backed(x)'
        BY <4>1, FilingBacks
      <4>3. verdict'[w] = Created
        BY <1>6 DEF Save, Conclude, TypeOK
      <4> QED
        BY <3>0, <3>2, <4>1, <4>2, <4>3 DEF Created
    <3> QED
      BY <3>1, <3>2
  <2> QED
    BY <2>1, <2>2 DEF BackedInv, Evidence
<1>7. ASSUME NEW w \in Worker, Finish(w) PROVE BackedInv'
  <2>1. task[w] \in Task /\ saved' = saved
    BY <1>7 DEF Finish, TypeOK, targetVars
  <2>2. SuccessBacked'
    <3>1. CASE verdict[w].status = "succeeded"
      BY <1>7, <1>a, <2>1, <3>1
      DEF Finish, BackedInv, Evidence, SuccessBacked, AboutToSucceed, TypeOK
    <3>2. CASE verdict[w].status # "succeeded"
      BY <1>7, <1>a, <2>1, <3>2 DEF Finish, BackedInv, SuccessBacked, TypeOK
    <3> QED
      BY <3>1, <3>2
  <2>3. (\A v \in Worker : Evidence(v))'
    BY <1>7, <1>c DEF Finish, AboutToSucceed, TypeOK
  <2> QED
    BY <2>2, <2>3 DEF BackedInv
<1>8. ASSUME NEW w \in Worker, Tally(w) \/ Post(w) \/ RecordFault(w) \/ Crash(w)
      PROVE  BackedInv'
  <2>1. SuccessBacked'
    BY <1>8, <1>b DEF Tally, Post, RecordFault, Crash, taskVars
  <2>2. /\ \A v \in Worker \ {w} : /\ pc'[v] = pc[v] /\ task'[v] = task[v]
                                   /\ verdict'[v] = verdict[v]
        /\ pc'[w] = "finishing" => verdict'[w] = Fail
    BY <1>8 DEF Tally, Post, RecordFault, Crash, Release, Conclude, TypeOK
  <2>3. (\A v \in Worker : Evidence(v))'
    BY <2>2, <1>c DEF AboutToSucceed, Fail, TypeOK
  <2> QED
    BY <2>1, <2>3 DEF BackedInv
<1>9. CASE Tick
  BY <1>9, <1>b, <1>c DEF BackedInv, Evidence, AboutToSucceed, Tick, workerVars, TypeOK
<1>10. CASE UNCHANGED vars
  BY <1>10, <1>b, <1>c
  DEF BackedInv, Evidence, AboutToSucceed, vars, taskVars, workerVars, TypeOK
<1> QED
  BY <1>1, <1>2, <1>3, <1>4, <1>5, <1>6, <1>7, <1>8, <1>9, <1>10
  DEF Next, Step, Environment

\* A task says succeeded only if its result is on file or went with its target,
\* overlapping attempts, crashes, database errors and retries included
\* (_complete_task; delete_candidate).
THEOREM SuccessIsBacked == Spec => []SuccessBacked
<1>1. Init => BackedInv
  BY DEF Init, BackedInv, SuccessBacked, Evidence, AboutToSucceed
<1>2. BackedInv => SuccessBacked
  BY DEF BackedInv
<1> QED
  BY <1>1, <1>2, BackedStep, TypeCorrect, PTL DEF Spec

-----------------------------------------------------------------------------
(* Recruiter retries never touch a success, whatever else goes wrong. *)

\* The only steps that take a task out of its status, and where it goes.
LEMMA StatusSteps ==
  ASSUME TypeOK, [Next]_vars, NEW t \in Task, taskStatus'[t] # taskStatus[t]
  PROVE  \/ \E j \in Job : CreateJob(j) /\ t \in TasksOf(j)
         \/ \E j \in Job : Retry(j) /\ t \in Exceptions(j)
         \/ \E w \in Worker : Claim(w, t)
         \/ \E w \in Worker : Finish(w) /\ t = task[w]
<1>1. ASSUME NEW j \in Job, CreateJob(j) PROVE t \in TasksOf(j)
  BY <1>1 DEF CreateJob
<1>2. ASSUME NEW j \in Job, Retry(j) PROVE t \in Exceptions(j)
  BY <1>2 DEF Retry
<1>3. ASSUME NEW w \in Worker, NEW u \in Task, Claim(w, u) PROVE u = t
  BY <1>3 DEF Claim, TypeOK
<1>4. ASSUME NEW w \in Worker, Finish(w) PROVE t = task[w]
  BY <1>4 DEF Finish, TypeOK
<1>5. taskStatus' # taskStatus
  OBVIOUS
<1> QED
  BY <1>1, <1>2, <1>3, <1>4, <1>5
  DEF Next, Step, Environment, LoseCreator, DeleteTarget,
      ChangeTarget, ReviseInputs,
      RunInteractively, Inspect, Load, Save, Reject, Tally, Post, RecordFault,
      Crash, Tick, taskVars, vars

\* "Explicit recruiter retry requeues only exceptions" (RetrySparesSuccess).
THEOREM SuccessNeverRequeued == Spec => RetrySparesSuccess
<1>1. ASSUME TypeOK, [Next]_vars, NEW t \in Task, taskStatus[t] = "succeeded"
      PROVE  taskStatus'[t] \in Finished
  <2>1. CASE taskStatus'[t] = taskStatus[t]
    BY <1>1, <2>1 DEF Finished
  <2>2. CASE taskStatus'[t] # taskStatus[t]
    <3>1. ASSUME NEW j \in Job, CreateJob(j), t \in TasksOf(j) PROVE FALSE
      BY <1>1, <3>1, CreatedTasksAreNew
    <3>2. ASSUME NEW j \in Job, Retry(j), t \in Exceptions(j) PROVE FALSE
      BY <1>1, <3>2 DEF Exceptions, Exception
    <3>3. ASSUME NEW w \in Worker, Claim(w, t) PROVE FALSE
      BY <1>1, <3>3 DEF Claim, NextClaim, Offered, Claimable
    <3>4. ASSUME NEW w \in Worker, Finish(w), t = task[w]
          PROVE  taskStatus'[t] \in Finished
      BY <1>1, <3>4 DEF Finish, TypeOK, Verdict
    <3> QED
      BY <1>1, <2>2, <3>1, <3>2, <3>3, <3>4, StatusSteps
  <2> QED
    BY <2>1, <2>2
<1>2. TypeOK /\ [Next]_vars =>
        [\A t \in Task : taskStatus[t] = "succeeded" => taskStatus'[t] \in Finished]_vars
  BY <1>1
<1> QED
  BY <1>2, TypeCorrect, PTL DEF Spec, RetrySparesSuccess

-----------------------------------------------------------------------------
(* With leases that cover the work, and no verdict recorded twice. *)

Punctual == ~OverrunsLease /\ MaxFault = 0

\* While leases cover the work, a claim only takes what no worker holds.
LEMMA ExclusiveStep ==
  ASSUME Punctual
  PROVE  TypeOK /\ ExclusiveClaim /\ [Next]_vars => ExclusiveClaim'
<1> SUFFICES ASSUME TypeOK, ExclusiveClaim, [Next]_vars PROVE ExclusiveClaim'
  OBVIOUS
\* Workers that go on holding a task keep it if its row is left alone.
<1>a. ASSUME \A v \in Worker, t \in Task : Holds(v, t)' =>
                /\ Holds(v, t)
                /\ taskStatus'[t] = taskStatus[t]
                /\ lease'[t] = lease[t]
      PROVE  ExclusiveClaim'
  BY <1>a DEF ExclusiveClaim, Expired
<1>1. ASSUME NEW j \in Job, CreateJob(j) PROVE ExclusiveClaim'
  <2>1. \A v \in Worker, t \in Task : Holds(v, t) => t \notin TasksOf(j)
    BY <1>1, CreatedTasksAreNew DEF ExclusiveClaim
  <2> QED
    BY <1>1, <1>a, <2>1 DEF CreateJob, Holds, workerVars
<1>2. ASSUME NEW j \in Job, Retry(j) PROVE ExclusiveClaim'
  <2>1. \A v \in Worker, t \in Task : Holds(v, t) => t \notin Exceptions(j)
    BY DEF ExclusiveClaim, Exceptions, Exception
  <2> QED
    BY <1>2, <1>a, <2>1 DEF Retry, Holds, workerVars
<1>3. ASSUME NEW w \in Worker, NEW t \in Task, Claim(w, t) PROVE ExclusiveClaim'
  <2>1. \A v \in Worker : ~Holds(v, t)
    BY <1>3 DEF Claim, NextClaim, Offered, Claimable, ExclusiveClaim
  <2>2. \A v \in Worker \ {w}, u \in Task : Holds(v, u)' <=> Holds(v, u)
    BY <1>3 DEF Claim, Holds, TypeOK
  <2>3. \A u \in Task : Holds(w, u)' => u = t
    BY <1>3 DEF Claim, Holds, TypeOK
  <2>4. taskStatus'[t] = "running" /\ lease'[t] # -1
    BY <1>3, BoundAssumption DEF Claim, NewLease, TypeOK
  <2>5. \A u \in Task \ {t} : taskStatus'[u] = taskStatus[u] /\ lease'[u] = lease[u]
    BY <1>3 DEF Claim, TypeOK
  <2> QED
    BY <2>1, <2>2, <2>3, <2>4, <2>5 DEF ExclusiveClaim, Expired
<1>4. ASSUME NEW w \in Worker,
             Inspect(w) \/ Load(w) \/ Save(w) \/ Reject(w)
      PROVE  ExclusiveClaim'
  <2>1. UNCHANGED <<taskStatus, lease, task>>
    BY <1>4 DEF Inspect, Load, Save, Reject, taskVars
  <2>2. pc[w] \in Holding /\ \A v \in Worker \ {w} : pc'[v] = pc[v]
    BY <1>4 DEF Inspect, Load, Save, Reject, Conclude, Holding, TypeOK
  <2> QED
    BY <1>a, <2>1, <2>2 DEF Holds
<1>5. ASSUME NEW w \in Worker, Finish(w) PROVE ExclusiveClaim'
  <2>1. Holds(w, task[w]) /\ task[w] \in Task
    BY <1>5 DEF Finish, Holds, Holding, TypeOK
  <2>2. \A v \in Worker, t \in Task : Holds(v, t)' => Holds(v, t) /\ v # w
    BY <1>5 DEF Finish, Holds, Holding, TypeOK
  <2>3. \A v \in Worker, t \in Task : Holds(v, t)' => t # task[w]
    BY <2>1, <2>2 DEF ExclusiveClaim
  <2> QED
    BY <1>5, <1>a, <2>2, <2>3 DEF Finish, TypeOK
<1>6. ASSUME NEW w \in Worker, Tally(w) \/ Post(w) \/ Crash(w)
      PROVE  ExclusiveClaim'
  <2>1. UNCHANGED <<taskStatus, lease>>
    BY <1>6 DEF Tally, Post, Crash, taskVars
  <2>2. \A v \in Worker, t \in Task : Holds(v, t)' => Holds(v, t)
    BY <1>6 DEF Tally, Post, Crash, Release, Holds, Holding, TypeOK
  <2> QED
    BY <1>a, <2>1, <2>2
<1>7. ASSUME NEW w \in Worker, RecordFault(w) PROVE FALSE
  BY <1>7 DEF RecordFault, Punctual, TypeOK
<1>8. CASE Tick
  <2>1. \A v \in Worker, t \in Task : Holds(v, t) => lease[t] # 0
    BY <1>8 DEF Tick, Punctual
  <2>2. \A v \in Worker, t \in Task : Holds(v, t) => lease'[t] # -1
    BY <1>8, <2>1 DEF Tick, ExclusiveClaim, Expired, TypeOK, Lease
  <2> QED
    BY <1>8, <2>2 DEF Tick, ExclusiveClaim, Expired, Holds, workerVars
<1>9. CASE UNCHANGED <<taskStatus, lease, pc, task>>
  BY <1>9, <1>a DEF Holds
<1> QED
  BY <1>1, <1>2, <1>3, <1>4, <1>5, <1>6, <1>7, <1>8, <1>9
  DEF Next, Step, Environment, LoseCreator, DeleteTarget,
      ChangeTarget, ReviseInputs,
      RunInteractively, taskVars, workerVars, vars

\* No two workers ever work on one task while leases cover the work.
THEOREM ClaimsAreExclusive ==
  ASSUME Punctual PROVE Spec => []ExclusiveClaim
<1>1. Init => ExclusiveClaim
  BY DEF Init, ExclusiveClaim, Holds, Holding
<1> QED
  BY <1>1, ExclusiveStep, TypeCorrect, PTL DEF Spec

\* A verdict is only ever written over a running task.
LEMMA FinishesRunning ==
  ASSUME TypeOK, ExclusiveClaim, NEW w \in Worker, Finish(w)
  PROVE  task[w] \in Task /\ taskStatus[task[w]] = "running"
  BY DEF Finish, ExclusiveClaim, Holds, Holding, TypeOK

\* "Successful targets remain complete" (SuccessIsFinal), on that condition.
THEOREM SuccessStays ==
  ASSUME Punctual PROVE Spec => SuccessIsFinal
<1>1. ASSUME TypeOK, ExclusiveClaim, [Next]_vars, NEW t \in Task,
             taskStatus[t] = "succeeded"
      PROVE  taskStatus'[t] = "succeeded"
  <2> SUFFICES ASSUME taskStatus'[t] # taskStatus[t] PROVE FALSE
    BY <1>1
  <2>1. ASSUME NEW j \in Job, CreateJob(j), t \in TasksOf(j) PROVE FALSE
    BY <1>1, <2>1, CreatedTasksAreNew
  <2>2. ASSUME NEW j \in Job, Retry(j), t \in Exceptions(j) PROVE FALSE
    BY <1>1, <2>2 DEF Exceptions, Exception
  <2>3. ASSUME NEW w \in Worker, Claim(w, t) PROVE FALSE
    BY <1>1, <2>3 DEF Claim, NextClaim, Offered, Claimable
  <2>4. ASSUME NEW w \in Worker, Finish(w), t = task[w] PROVE FALSE
    BY <1>1, <2>4, FinishesRunning
  <2> QED
    BY <1>1, <2>1, <2>2, <2>3, <2>4, StatusSteps
<1>2. TypeOK /\ ExclusiveClaim /\ [Next]_vars =>
        [\A t \in Task : taskStatus[t] = "succeeded" => taskStatus'[t] = "succeeded"]_vars
  BY <1>1
<1> QED
  BY <1>2, TypeCorrect, ClaimsAreExclusive, PTL DEF Spec, SuccessIsFinal

-----------------------------------------------------------------------------
(* The runtime implements JobPromise. *)

\* What the recruiter sees of one task, by its status.
LEMMA PromisedByStatus ==
  ASSUME TypeOK, NEW t \in Task
  PROVE  /\ taskStatus[t] = "absent" => PromisedState[t] = "absent"
         /\ taskStatus[t] \in Unfinished => PromisedState[t] = "waiting"
         /\ taskStatus[t] = "succeeded" => PromisedState[t] = "done"
         /\ taskStatus[t] \in Exception => PromisedState[t] = "exception"
  BY DEF PromisedState, TypeOK, TaskStatus, Unfinished, Exception

\* The runtime starts with every target absent.
LEMMA PromiseInit == Init => Promise!Init
<1> SUFFICES ASSUME Init PROVE Promise!Init
  OBVIOUS
<1>1. \A t \in Task : PromisedState[t] = "absent"
  BY TypeInit, PromisedByStatus DEF Init
<1>2. PromisedState = [t \in Task |-> PromisedState[t]]
  BY DEF PromisedState
<1> QED
  BY <1>1, <1>2 DEF Promise!Init

\* Every step of the runtime is a step of the promise, or a stutter.
LEMMA PromiseStep ==
  ASSUME Punctual, TypeOK, TypeOK', ExclusiveClaim, [Next]_vars
  PROVE  [Promise!Next]_PromisedState
<1>a. /\ PromisedState = [t \in Task |-> PromisedState[t]]
      /\ PromisedState' = [t \in Task |-> PromisedState'[t]]
  BY DEF PromisedState
<1>b. ASSUME NEW t \in Task
      PROVE  /\ taskStatus'[t] = "absent" => PromisedState'[t] = "absent"
             /\ taskStatus'[t] \in Unfinished => PromisedState'[t] = "waiting"
             /\ taskStatus'[t] = "succeeded" => PromisedState'[t] = "done"
             /\ taskStatus'[t] \in Exception => PromisedState'[t] = "exception"
  BY DEF PromisedState, TypeOK, TaskStatus, Unfinished, Exception
<1>c. ASSUME NEW t \in Task, taskStatus'[t] = taskStatus[t]
      PROVE  PromisedState'[t] = PromisedState[t]
  BY <1>c DEF PromisedState
<1>1. ASSUME NEW j \in Job, CreateJob(j) PROVE Promise!Submit(j)
  <2>1. \A t \in Task : JobOf[t] = j => PromisedState[t] = "absent"
    BY <1>1, CreatedTasksAreNew, PromisedByStatus DEF TasksOf
  <2>2. \A t \in Task : JobOf[t] = j => PromisedState'[t] = "waiting"
    BY <1>1, <1>b DEF CreateJob, TasksOf, Unfinished
  <2>3. \A t \in Task : JobOf[t] # j => PromisedState'[t] = PromisedState[t]
    BY <1>1, <1>c DEF CreateJob, TasksOf
  <2> QED
    BY <1>a, <2>1, <2>2, <2>3 DEF Promise!Submit
<1>2. ASSUME NEW j \in Job, Retry(j) PROVE Promise!Requeue(j)
  <2>1. \A t \in Task : t \in Exceptions(j) <=>
                           JobOf[t] = j /\ PromisedState[t] = "exception"
    BY PromisedByStatus
    DEF Exceptions, TasksOf, TypeOK, TaskStatus, Unfinished, Exception
  <2>2. \A t \in Exceptions(j) : PromisedState'[t] = "waiting"
    BY <1>2, <1>b DEF Retry, Unfinished, Exceptions, TasksOf
  <2>3. \A t \in Task \ Exceptions(j) : PromisedState'[t] = PromisedState[t]
    BY <1>2, <1>c DEF Retry
  <2>4. PromisedState' =
          [t \in Task |-> IF JobOf[t] = j /\ PromisedState[t] = "exception"
                          THEN "waiting" ELSE PromisedState[t]]
    BY <1>a, <2>1, <2>2, <2>3
  <2> QED
    BY <2>4 DEF Promise!Requeue
<1>3. ASSUME NEW w \in Worker, NEW t \in Task, Claim(w, t)
      PROVE  UNCHANGED PromisedState
  <2>1. PromisedState[t] = "waiting" /\ PromisedState'[t] = "waiting"
    BY <1>3, <1>b, PromisedByStatus
    DEF Claim, NextClaim, Offered, Claimable, Unfinished, TypeOK
  <2>2. \A u \in Task \ {t} : PromisedState'[u] = PromisedState[u]
    BY <1>3, <1>c DEF Claim, TypeOK
  <2> QED
    BY <1>a, <2>1, <2>2
<1>4. ASSUME NEW w \in Worker, Finish(w) PROVE Promise!Settle(task[w])
  <2>1. /\ task[w] \in Task
        /\ PromisedState[task[w]] = "waiting"
    BY <1>4, FinishesRunning, PromisedByStatus DEF Unfinished
  <2>2. taskStatus'[task[w]] \in Finished
    BY <1>4, <2>1 DEF Finish, TypeOK, Verdict
  <2>3. PromisedState'[task[w]] \in {"done", "exception"}
    BY <1>b, <2>1, <2>2 DEF Finished
  <2>4. \A u \in Task \ {task[w]} : PromisedState'[u] = PromisedState[u]
    BY <1>4, <1>c DEF Finish, TypeOK
  <2>5. PromisedState' = [PromisedState EXCEPT ![task[w]] = PromisedState'[task[w]]]
    BY <1>a, <2>1, <2>4
  <2> QED
    BY <2>1, <2>3, <2>5 DEF Promise!Settle
<1>5. ASSUME UNCHANGED taskStatus PROVE UNCHANGED PromisedState
  BY <1>5 DEF PromisedState
<1>6. ASSUME NEW w \in Worker, Finish(w) PROVE task[w] \in Task
  BY <1>6, FinishesRunning
<1> QED
  BY <1>1, <1>2, <1>3, <1>4, <1>5, <1>6
  DEF Promise!Next, Next, Step, Environment, LoseCreator, DeleteTarget, ChangeTarget,
      ReviseInputs, RunInteractively, Inspect, Load, Save, Reject, Tally, Post,
      RecordFault, Crash, Tick, taskVars, vars

\* The safety part of KeepsPromise: jobs appear whole, waiting targets settle
\* once, retries put back exactly the exceptions, and done stays done.
THEOREM PromiseIsKept ==
  ASSUME Punctual PROVE Spec => Promise!Safety
<1>1. TypeOK /\ TypeOK' /\ ExclusiveClaim /\ [Next]_vars => [Promise!Next]_PromisedState
  BY PromiseStep
<1> QED
  BY <1>1, PromiseInit, TypeCorrect, ClaimsAreExclusive, PTL
  DEF Spec, Promise!Safety

-----------------------------------------------------------------------------
(* A worker on its own. *)

\* One worker process is running (--job, or a single service instance).
Alone == \A v, w \in Worker : v = w

\* The inductive form: nothing is on file for revisions still to come, and a
\* worker goes to the AI service only while nothing is on file for its target.
SavedInv ==
  /\ SavedOnce
  /\ \A x \in Target, s \in 0 .. MaxSnapshot : s > snapshot[x] => saved[x][s] = 0
  /\ \A w \in Worker : pc[w] \in {"loading", "calling"} => ~OnFile(TargetOf[task[w]])

\* A lone worker's save is the first for its snapshot.
LEMMA SavedStep ==
  ASSUME Alone, Interactive = {}
  PROVE  TypeOK /\ SavedInv /\ [Next]_vars => SavedInv'
<1> SUFFICES ASSUME TypeOK, SavedInv, [Next]_vars PROVE SavedInv'
  OBVIOUS
<1> USE JobAssumption
\* A worker that is not looking up its target carries on with what it found.
<1>a. ASSUME UNCHANGED <<saved, snapshot>>,
             \A w \in Worker : pc'[w] \in {"loading", "calling"} =>
                /\ ~OnFile(TargetOf[task[w]])
                /\ task'[w] = task[w]
      PROVE  SavedInv'
  BY <1>a DEF SavedInv, SavedOnce, OnFile
<1>1. ASSUME NEW x \in Target, ReviseInputs(x) PROVE SavedInv'
  <2>1. /\ snapshot'[x] = snapshot[x] + 1 /\ snapshot'[x] \in 0 .. MaxSnapshot
        /\ snapshot[x] \in Nat
        /\ \A y \in Target \ {x} : snapshot'[y] = snapshot[y]
        /\ UNCHANGED <<saved, pc, task>>
    BY <1>1, BoundAssumption DEF ReviseInputs, TypeOK, workerVars
  <2>2. ASSUME NEW y \in Target, NEW s \in 0 .. MaxSnapshot, s > snapshot'[y]
        PROVE  saved'[y][s] = 0
    <3>1. snapshot[y] \in Nat /\ s \in Nat
      BY BoundAssumption DEF TypeOK
    <3>2. s > snapshot[y]
      BY <2>1, <2>2, <3>1
    <3> QED
      BY <2>1, <3>2 DEF SavedInv
  <2>3. ~OnFile(x)'
    BY <2>1 DEF SavedInv, OnFile
  <2>4. \A w \in Worker : pc'[w] \in {"loading", "calling"} => ~OnFile(TargetOf[task[w]])'
    BY <2>1, <2>3 DEF SavedInv, OnFile, TypeOK
  <2> QED
    BY <2>1, <2>2, <2>4 DEF SavedInv, SavedOnce
<1>2. ASSUME NEW w \in Worker, Save(w) PROVE SavedInv'
  <2> DEFINE x == TargetOf[task[w]]
  <2>1. /\ x \in Target /\ snapshot[x] \in 0 .. MaxSnapshot
        /\ File(x, snapshot[x])
        /\ UNCHANGED snapshot
    BY <1>2 DEF Save, TypeOK
  <2>2. saved[x][snapshot[x]] = 0
    <3>1. saved[x] \in [0 .. MaxSnapshot -> Nat]
      BY <2>1 DEF TypeOK
    <3>2. saved[x][snapshot[x]] \in Nat
      BY <2>1, <3>1
    <3> QED
      BY <1>2, <3>2 DEF Save, SavedInv, OnFile
  <2>3. pc'[w] = "finishing"
    BY <1>2 DEF Save, Conclude, TypeOK
  <2>4. ASSUME NEW y \in Target, NEW s \in 0 .. MaxSnapshot
        PROVE  saved'[y][s] <= 1 /\ (s > snapshot'[y] => saved'[y][s] = 0)
    <3>1. saved'[y][s] = IF y = x /\ s = snapshot[x] THEN saved[y][s] + 1
                         ELSE saved[y][s]
      BY <2>1, FileEffect
    <3>2. snapshot[y] \in 0 .. MaxSnapshot
      BY DEF TypeOK
    <3> QED
      BY <2>1, <2>2, <3>1, <3>2 DEF SavedInv, SavedOnce
  <2> QED
    BY <2>3, <2>4 DEF SavedInv, SavedOnce, Alone
<1>3. ASSUME NEW x \in Target, RunInteractively(x) PROVE FALSE
  BY <1>3 DEF RunInteractively
<1>4. ASSUME NEW w \in Worker, NEW t \in Task, Claim(w, t) PROVE SavedInv'
  BY <1>4, <1>a DEF Claim, SavedInv, TypeOK, targetVars
<1>5. ASSUME NEW w \in Worker, Inspect(w) PROVE SavedInv'
  BY <1>5, <1>a DEF Inspect, Conclude, SavedInv, TypeOK, targetVars
<1>6. ASSUME NEW w \in Worker,
             Load(w) \/ Reject(w) \/ Finish(w) \/ Tally(w) \/ Post(w)
               \/ RecordFault(w) \/ Crash(w)
      PROVE  SavedInv'
  <2>1. /\ UNCHANGED <<saved, snapshot>>
        /\ pc'[w] \in {"loading", "calling"} =>
             pc[w] \in {"loading", "calling"} /\ task'[w] = task[w]
        /\ \A v \in Worker \ {w} : pc'[v] = pc[v] /\ task'[v] = task[v]
    BY <1>6 DEF Load, Reject, Finish, Tally, Post, RecordFault, Crash, Release,
                Conclude, TypeOK, targetVars
  <2> QED
    BY <2>1, <1>a DEF SavedInv
<1>7. CASE UNCHANGED <<saved, snapshot, pc, task>>
  BY <1>7, <1>a DEF SavedInv
<1>8. ASSUME NEW x \in Target, DeleteTarget(x) PROVE SavedInv'
  <2>1. /\ \A y \in Target : saved'[y] = IF y = x THEN NothingSaved ELSE saved[y]
        /\ UNCHANGED <<snapshot, pc, task>>
    BY <1>8 DEF DeleteTarget, TypeOK, workerVars
  <2>2. \A y \in Target, s \in 0 .. MaxSnapshot :
           saved'[y][s] = saved[y][s] \/ saved'[y][s] = 0
    BY <2>1 DEF NothingSaved
  <2>3. ASSUME NEW y \in Target, OnFile(y)' PROVE OnFile(y)
    <3>1. snapshot[y] \in 0 .. MaxSnapshot /\ snapshot'[y] = snapshot[y]
      BY <2>1 DEF TypeOK
    <3>2. saved'[y][snapshot[y]] > 0
      BY <2>3, <3>1 DEF OnFile
    <3> QED
      BY <2>2, <3>1, <3>2 DEF OnFile
  <2>4. \A w \in Worker : pc[w] \in {"loading", "calling"} => TargetOf[task[w]] \in Target
    BY DEF TypeOK
  <2> QED
    BY <2>1, <2>2, <2>3, <2>4 DEF SavedInv, SavedOnce
<1> QED
  BY <1>1, <1>2, <1>3, <1>4, <1>5, <1>6, <1>7, <1>8
  DEF Next, Step, Environment, CreateJob, Retry, LoseCreator, ChangeTarget, Tick,
      targetVars, workerVars, vars

\* One worker, with nobody running the same work from a page, never files two
\* results for the same inputs, restarts, retries, later jobs for the same
\* target and revised inputs included (process_next_background_task).
THEOREM LoneWorkerSavesOnce ==
  ASSUME Alone, Interactive = {} PROVE Spec => []SavedOnce
<1>1. Init => SavedInv
  BY JobAssumption DEF Init, NothingSaved, SavedInv, SavedOnce
<1>2. SavedInv => SavedOnce
  BY DEF SavedInv
<1> QED
  BY <1>1, <1>2, SavedStep, TypeCorrect, PTL DEF Spec

-----------------------------------------------------------------------------
(* The totals a lone worker leaves on the job row. *)

\* A job and its tasks appear together, and a worker holds a task that exists.
Present ==
  /\ \A t \in Task : taskStatus[t] = "absent" <=> jobStatus[JobOf[t]] = "absent"
  /\ \A w \in Worker : pc[w] # "idle" => taskStatus[task[w]] # "absent"

\* Nothing makes one without the other (_create_job is one transaction).
LEMMA PresentStep == TypeOK /\ Present /\ [Next]_vars => Present'
<1> SUFFICES ASSUME TypeOK, Present, [Next]_vars PROVE Present'
  OBVIOUS
<1> USE JobAssumption
<1>1. ASSUME NEW j \in Job, CreateJob(j) PROVE Present'
  BY <1>1 DEF Present, CreateJob, TasksOf, TypeOK, workerVars
<1>2. ASSUME NEW j \in Job, Retry(j) PROVE Present'
  <2>1. PICK u \in Task : JobOf[u] = j /\ taskStatus[u] \in Exception
    BY <1>2 DEF Retry, Exceptions, TasksOf
  <2>2. jobStatus[j] # "absent"
    BY <2>1 DEF Present, Exception
  <2>3. jobStatus'[j] = "queued" /\ \A i \in Job \ {j} : jobStatus'[i] = jobStatus[i]
    BY <1>2 DEF Retry, TypeOK
  <2>4. \A t \in Task : taskStatus'[t] = "absent" <=> taskStatus[t] = "absent"
    BY <1>2 DEF Retry, Exceptions, Exception, TypeOK
  <2> QED
    BY <1>2, <2>2, <2>3, <2>4 DEF Present, Retry, workerVars, TypeOK
<1>3. ASSUME NEW w \in Worker, NEW t \in Task, Claim(w, t) PROVE Present'
  <2>1. taskStatus[t] # "absent"
    BY <1>3 DEF Claim, NextClaim, Offered, Claimable
  <2>2. jobStatus[JobOf[t]] # "absent" /\ JobOf[t] \in Job
    BY <2>1 DEF Present
  <2>3. /\ taskStatus'[t] = "running"
        /\ \A u \in Task \ {t} : taskStatus'[u] = taskStatus[u]
        /\ jobStatus'[JobOf[t]] = "running"
        /\ \A i \in Job \ {JobOf[t]} : jobStatus'[i] = jobStatus[i]
    BY <1>3, <2>2 DEF Claim, TypeOK
  <2>4. \A v \in Worker : pc'[v] # "idle" =>
           task'[v] = t \/ (pc[v] # "idle" /\ task'[v] = task[v])
    BY <1>3 DEF Claim, TypeOK
  <2>5. ASSUME NEW v \in Worker, pc'[v] # "idle" PROVE taskStatus'[task'[v]] # "absent"
    <3>1. CASE task'[v] = t
      BY <2>3, <3>1
    <3>2. CASE task'[v] # t
      <4>1. /\ task'[v] = task[v] /\ task[v] \in Task
            /\ taskStatus[task[v]] # "absent"
        BY <2>4, <2>5, <3>2 DEF Present, TypeOK
      <4> QED
        BY <2>3, <3>2, <4>1
    <3> QED
      BY <3>1, <3>2
  <2>6. \A u \in Task : taskStatus'[u] = "absent" <=> jobStatus'[JobOf[u]] = "absent"
    BY <2>1, <2>2, <2>3 DEF Present
  <2> QED
    BY <2>5, <2>6 DEF Present
<1>4. ASSUME NEW w \in Worker, Finish(w) PROVE Present'
  <2>1. /\ task[w] \in Task /\ taskStatus[task[w]] # "absent"
        /\ taskStatus'[task[w]] # "absent"
    BY <1>4 DEF Finish, Present, TypeOK, Verdict, Finished, Exception
  <2>2. \A u \in Task \ {task[w]} : taskStatus'[u] = taskStatus[u]
    BY <1>4 DEF Finish, TypeOK
  <2>3. \A v \in Worker : pc'[v] # "idle" => pc[v] # "idle" /\ task'[v] = task[v]
    BY <1>4 DEF Finish, TypeOK
  <2>4. \A v \in Worker : pc'[v] # "idle" => taskStatus'[task'[v]] # "absent"
    BY <2>1, <2>2, <2>3 DEF Present, TypeOK
  <2>5. \A u \in Task : taskStatus'[u] = "absent" <=> jobStatus'[JobOf[u]] = "absent"
    BY <1>4, <2>1, <2>2 DEF Present, Finish, jobVars
  <2> QED
    BY <2>4, <2>5 DEF Present
<1>5. ASSUME NEW w \in Worker, Post(w) PROVE Present'
  <2>1. /\ task[w] \in Task /\ JobOf[task[w]] \in Job
        /\ jobStatus[JobOf[task[w]]] # "absent"
    BY <1>5 DEF Post, Present, TypeOK
  <2>2. jobStatus'[JobOf[task[w]]] # "absent"
    BY <1>5, <2>1 DEF Post, TypeOK, SettledStatus
  <2>3. \A i \in Job \ {JobOf[task[w]]} : jobStatus'[i] = jobStatus[i]
    BY <1>5 DEF Post, TypeOK
  <2>4. \A v \in Worker : pc'[v] # "idle" => pc[v] # "idle" /\ task'[v] = task[v]
    BY <1>5 DEF Post, Release, TypeOK
  <2> QED
    BY <1>5, <2>1, <2>2, <2>3, <2>4 DEF Present, Post, taskVars
<1>6. ASSUME NEW w \in Worker,
             Inspect(w) \/ Load(w) \/ Save(w) \/ Reject(w) \/ Tally(w)
               \/ RecordFault(w) \/ Crash(w)
      PROVE  Present'
  <2>1. /\ UNCHANGED <<taskStatus, jobStatus>>
        /\ \A v \in Worker : pc'[v] # "idle" => pc[v] # "idle" /\ task'[v] = task[v]
    BY <1>6 DEF Inspect, Load, Save, Reject, Tally, RecordFault, Crash, Release,
                Conclude, TypeOK, jobVars, taskVars
  <2> QED
    BY <2>1 DEF Present
<1>7. CASE UNCHANGED <<taskStatus, jobStatus, pc, task>>
  BY <1>7 DEF Present
<1> QED
  BY <1>1, <1>2, <1>3, <1>4, <1>5, <1>6, <1>7
  DEF Next, Step, Environment, LoseCreator, DeleteTarget,
      ChangeTarget, ReviseInputs,
      RunInteractively, Tick, jobVars, taskVars, workerVars, vars

\* The job row says what its tasks amount to.
Right(j) == counts[j] = CountsOf(j) /\ jobStatus[j] = SettledStatus(CountsOf(j))

\* A worker has yet to write the row of the job it has a task of.
Refreshing(w, j) ==
  /\ pc[w] \in {"finishing", "tallying", "posting"}
  /\ JobOf[task[w]] = j

\* What a worker counted is still true when it writes it, once all is settled.
TallyHolds(w) ==
  pc[w] = "posting" /\ ~HasUnfinished(JobOf[task[w]]) =>
    tally[w].counts = CountsOf(JobOf[task[w]]) /\ ~tally[w].open

\* The inductive form: the row of a settled job is right, or about to be.
AggregateInv ==
  /\ \A w \in Worker : TallyHolds(w)
  /\ crashes = 0 => \A j \in Job :
       jobStatus[j] # "absent" /\ ~HasUnfinished(j) =>
         Right(j) \/ \E w \in Worker : Refreshing(w, j)

\* What a job amounts to depends on the status of its own tasks only.
LEMMA CountsLocal ==
  ASSUME NEW j \in Job, \A t \in TasksOf(j) : taskStatus'[t] = taskStatus[t]
  PROVE  CountsOf(j)' = CountsOf(j) /\ HasUnfinished(j)' = HasUnfinished(j)
<1>1. \A s : InStatus(j, s)' = InStatus(j, s)
  BY DEF InStatus, TasksOf
<1>2. HasUnfinished(j)' = HasUnfinished(j)
  BY DEF HasUnfinished, TasksOf
<1> QED
  BY <1>1, <1>2 DEF CountsOf

\* A step of a lone worker, or of nobody, on one job leaves the others right.
LEMMA AggregateOthers ==
  ASSUME AggregateInv, NEW i \in Job,
         \A t \in TasksOf(i) : taskStatus'[t] = taskStatus[t],
         jobStatus'[i] = jobStatus[i], counts'[i] = counts[i],
         crashes' = crashes,
         \A w \in Worker : Refreshing(w, i) => Refreshing(w, i)',
         crashes' = 0, jobStatus'[i] # "absent", ~HasUnfinished(i)'
  PROVE  Right(i)' \/ \E w \in Worker : Refreshing(w, i)'
<1>1. CountsOf(i)' = CountsOf(i) /\ ~HasUnfinished(i)
  BY CountsLocal
<1>2. Right(i) \/ \E w \in Worker : Refreshing(w, i)
  BY <1>1 DEF AggregateInv
<1>3. Right(i) => Right(i)'
  BY <1>1 DEF Right
<1> QED
  BY <1>2, <1>3

\* The worker at work is the only one, so a count is written as it was taken.
LEMMA AggregateStep ==
  ASSUME Alone
  PROVE  TypeOK /\ AggregateInv /\ [Next]_vars => AggregateInv'
<1> SUFFICES ASSUME TypeOK, AggregateInv, [Next]_vars PROVE AggregateInv'
  OBVIOUS
<1> USE JobAssumption
\* Steps that leave the rows and every worker in the refresh alone.
<1>a. ASSUME UNCHANGED <<taskStatus, jobStatus, counts, crashes>>,
             \A w \in Worker, i \in Job : Refreshing(w, i) => Refreshing(w, i)',
             \A w \in Worker : pc'[w] = "posting" =>
                /\ pc[w] = "posting" /\ task'[w] = task[w] /\ task[w] \in Task
                /\ tally'[w] = tally[w]
      PROVE  AggregateInv'
  <2>1. \A i \in Job : CountsOf(i)' = CountsOf(i) /\ HasUnfinished(i)' = HasUnfinished(i)
    BY <1>a, CountsLocal
  <2>2. \A w \in Worker : TallyHolds(w)'
    BY <1>a, <2>1 DEF AggregateInv, TallyHolds
  <2>3. ASSUME NEW i \in Job, crashes' = 0, jobStatus'[i] # "absent", ~HasUnfinished(i)'
        PROVE  Right(i)' \/ \E w \in Worker : Refreshing(w, i)'
    BY <1>a, <2>3, AggregateOthers
  <2> QED
    BY <2>2, <2>3 DEF AggregateInv
\* Steps that open a job again: whatever was counted before is void.
<1>b. ASSUME NEW j \in Job, HasUnfinished(j)', UNCHANGED crashes,
             \A i \in Job \ {j} : /\ jobStatus'[i] = jobStatus[i]
                                  /\ counts'[i] = counts[i],
             \A t \in Task \ TasksOf(j) : taskStatus'[t] = taskStatus[t],
             \A w \in Worker, i \in Job : Refreshing(w, i) => Refreshing(w, i)',
             \A w \in Worker : pc'[w] = "posting" =>
                /\ pc[w] = "posting" /\ task'[w] = task[w] /\ task[w] \in Task
                /\ tally'[w] = tally[w]
      PROVE  AggregateInv'
  <2>0. \A i \in Job \ {j} : \A t \in TasksOf(i) : taskStatus'[t] = taskStatus[t]
    BY <1>b DEF TasksOf
  <2>1. \A i \in Job \ {j} : /\ CountsOf(i)' = CountsOf(i)
                             /\ HasUnfinished(i)' = HasUnfinished(i)
    BY <2>0, CountsLocal
  <2>2. ASSUME NEW w \in Worker, pc'[w] = "posting", ~HasUnfinished(JobOf[task[w]])'
        PROVE  /\ tally'[w].counts = CountsOf(JobOf[task[w]])'
               /\ ~tally'[w].open
    <3>1. /\ pc[w] = "posting" /\ task'[w] = task[w] /\ task[w] \in Task
          /\ tally'[w] = tally[w]
      BY <1>b, <2>2
    <3>2. PICK i \in Job : i = JobOf[task[w]]
      BY <3>1
    <3>3. ~HasUnfinished(i)' /\ JobOf[task'[w]] = i
      BY <2>2, <3>1, <3>2
    <3>4. i # j
      BY <1>b, <3>3
    <3>5. tally[w].counts = CountsOf(i) /\ ~tally[w].open
      BY <2>1, <3>1, <3>2, <3>3, <3>4 DEF AggregateInv, TallyHolds
    <3> QED
      BY <2>1, <3>1, <3>3, <3>4, <3>5
  <2>3. ASSUME NEW i \in Job, crashes' = 0, jobStatus'[i] # "absent", ~HasUnfinished(i)'
        PROVE  Right(i)' \/ \E w \in Worker : Refreshing(w, i)'
    BY <1>b, <2>0, <2>3, AggregateOthers
  <2> QED
    BY <2>2, <2>3 DEF AggregateInv, TallyHolds
<1>1. ASSUME NEW j \in Job, CreateJob(j) PROVE AggregateInv'
  <2>1. HasUnfinished(j)'
    BY <1>1, WorkAssumption DEF CreateJob, HasUnfinished, TasksOf, Unfinished
  <2>2. UNCHANGED <<workerVars, counts, crashes>>
    BY <1>1 DEF CreateJob, boundVars
  <2>3. /\ \A i \in Job \ {j} : jobStatus'[i] = jobStatus[i]
        /\ \A t \in Task \ TasksOf(j) : taskStatus'[t] = taskStatus[t]
    BY <1>1 DEF CreateJob, TypeOK
  <2> QED
    BY <1>b, <2>1, <2>2, <2>3 DEF workerVars, Refreshing, TypeOK
<1>2. ASSUME NEW j \in Job, Retry(j) PROVE AggregateInv'
  <2>1. HasUnfinished(j)'
    BY <1>2 DEF Retry, HasUnfinished, Exceptions, TasksOf, Unfinished
  <2>2. UNCHANGED <<workerVars, crashes>>
    BY <1>2 DEF Retry
  <2>3. /\ \A i \in Job \ {j} : jobStatus'[i] = jobStatus[i] /\ counts'[i] = counts[i]
        /\ \A t \in Task \ TasksOf(j) : taskStatus'[t] = taskStatus[t]
    BY <1>2 DEF Retry, Exceptions, TypeOK
  <2> QED
    BY <1>b, <2>1, <2>2, <2>3 DEF workerVars, Refreshing, TypeOK
<1>3. ASSUME NEW w \in Worker, NEW t \in Task, Claim(w, t) PROVE AggregateInv'
  <2>1. HasUnfinished(JobOf[t])' /\ JobOf[t] \in Job
    BY <1>3 DEF Claim, HasUnfinished, TasksOf, Unfinished, TypeOK
  <2>2. /\ \A i \in Job \ {JobOf[t]} : jobStatus'[i] = jobStatus[i]
        /\ \A u \in Task \ TasksOf(JobOf[t]) : taskStatus'[u] = taskStatus[u]
        /\ UNCHANGED <<counts, crashes, tally>>
    BY <1>3 DEF Claim, TasksOf, TypeOK, boundVars
  <2>3. /\ pc[w] = "idle" /\ pc'[w] = "claimed"
        /\ \A v \in Worker \ {w} : pc'[v] = pc[v] /\ task'[v] = task[v]
    BY <1>3 DEF Claim, TypeOK
  <2>4. \A v \in Worker, i \in Job : Refreshing(v, i) => Refreshing(v, i)'
    BY <2>3 DEF Refreshing
  <2>5. \A v \in Worker : pc'[v] = "posting" =>
           /\ pc[v] = "posting" /\ task'[v] = task[v] /\ task[v] \in Task
           /\ tally'[v] = tally[v]
    BY <2>2, <2>3 DEF TypeOK
  <2> QED
    BY <1>b, <2>1, <2>2, <2>4, <2>5
<1>4. ASSUME NEW w \in Worker,
             Inspect(w) \/ Load(w) \/ Save(w) \/ Reject(w) \/ RecordFault(w)
      PROVE  AggregateInv'
  <2>1. /\ UNCHANGED <<taskStatus, jobStatus, counts, crashes, task, tally>>
        /\ pc'[w] # "posting"
        /\ pc[w] \in {"finishing", "tallying", "posting"} => pc'[w] = "finishing"
        /\ \A v \in Worker \ {w} : pc'[v] = pc[v]
    BY <1>4 DEF Inspect, Load, Save, Reject, RecordFault, Conclude, TypeOK, jobVars,
                taskVars, boundVars
  <2> QED
    BY <1>a, <2>1 DEF Refreshing, TypeOK
<1>5. ASSUME NEW w \in Worker, Finish(w) PROVE AggregateInv'
  <2>0. PICK j \in Job : j = JobOf[task[w]]
    BY <1>5 DEF Finish, TypeOK
  <2>1. /\ task[w] \in Task
        /\ UNCHANGED <<jobStatus, counts, crashes, task>>
        /\ pc[w] = "finishing" /\ pc'[w] = "tallying"
        /\ \A u \in Task \ {task[w]} : taskStatus'[u] = taskStatus[u]
    BY <1>5 DEF Finish, TypeOK, jobVars, boundVars
  <2>2. \A v \in Worker : TallyHolds(v)'
    BY <2>1 DEF TallyHolds, Alone
  <2>3. \A v \in Worker, i \in Job : Refreshing(v, i) => Refreshing(v, i)'
    BY <2>1 DEF Refreshing, Alone
  <2>4. \A i \in Job \ {j} : \A t \in TasksOf(i) : taskStatus'[t] = taskStatus[t]
    BY <2>0, <2>1 DEF TasksOf
  <2>5. Refreshing(w, j)'
    BY <2>0, <2>1 DEF Refreshing
  <2>6. ASSUME NEW i \in Job, crashes' = 0, jobStatus'[i] # "absent", ~HasUnfinished(i)'
        PROVE  Right(i)' \/ \E v \in Worker : Refreshing(v, i)'
    <3>1. CASE i = j
      BY <2>5, <3>1
    <3>2. CASE i # j
      BY <2>1, <2>3, <2>4, <2>6, <3>2, AggregateOthers
    <3> QED
      BY <3>1, <3>2
  <2> QED
    BY <2>2, <2>6 DEF AggregateInv
<1>6. ASSUME NEW w \in Worker, Tally(w) PROVE AggregateInv'
  <2>1. /\ UNCHANGED <<taskStatus, jobStatus, counts, crashes, task>>
        /\ pc[w] = "tallying" /\ pc'[w] = "posting"
        /\ JobOf[task[w]] \in Job
        /\ tally'[w].counts = CountsOf(JobOf[task[w]])
        /\ tally'[w].open = HasUnfinished(JobOf[task[w]])
    BY <1>6 DEF Tally, TypeOK, jobVars, taskVars, boundVars
  <2>2. \A i \in Job : CountsOf(i)' = CountsOf(i) /\ HasUnfinished(i)' = HasUnfinished(i)
    BY <2>1, CountsLocal
  <2>3. TallyHolds(w)'
    BY <2>1, <2>2 DEF TallyHolds
  <2>4. \A v \in Worker, i \in Job : Refreshing(v, i) => Refreshing(v, i)'
    BY <2>1 DEF Refreshing, Alone
  <2>5. ASSUME NEW i \in Job, crashes' = 0, jobStatus'[i] # "absent", ~HasUnfinished(i)'
        PROVE  Right(i)' \/ \E v \in Worker : Refreshing(v, i)'
    BY <2>1, <2>4, <2>5, AggregateOthers
  <2> QED
    BY <2>3, <2>5 DEF AggregateInv, Alone
<1>7. ASSUME NEW w \in Worker, Post(w) PROVE AggregateInv'
  <2>0. PICK j \in Job : j = JobOf[task[w]]
    BY <1>7 DEF Post, TypeOK
  <2>1. /\ task[w] \in Task
        /\ UNCHANGED <<taskStatus, crashes>>
        /\ pc[w] = "posting" /\ pc'[w] = "idle"
        /\ \A i \in Job \ {j} : jobStatus'[i] = jobStatus[i] /\ counts'[i] = counts[i]
        /\ counts'[j] = tally[w].counts
        /\ ~tally[w].open => jobStatus'[j] = SettledStatus(tally[w].counts)
    BY <1>7, <2>0 DEF Post, Release, TypeOK, taskVars, boundVars
  <2>2. \A i \in Job : CountsOf(i)' = CountsOf(i) /\ HasUnfinished(i)' = HasUnfinished(i)
    BY <2>1, CountsLocal
  <2>3. \A v \in Worker : TallyHolds(v)'
    BY <2>1 DEF TallyHolds, Alone
  <2>4. ASSUME NEW i \in Job, crashes' = 0, jobStatus'[i] # "absent", ~HasUnfinished(i)'
        PROVE  Right(i)'
    <3>1. CASE i = j
      <4>1. tally[w].counts = CountsOf(j) /\ ~tally[w].open
        BY <2>0, <2>1, <2>2, <2>4, <3>1 DEF AggregateInv, TallyHolds
      <4>2. counts'[j] = CountsOf(j) /\ jobStatus'[j] = SettledStatus(CountsOf(j))
        BY <2>1, <4>1
      <4>3. CountsOf(j)' = CountsOf(j)
        BY <2>1, <2>2
      <4>4. SettledStatus(CountsOf(j)') = SettledStatus(CountsOf(j))
        BY <4>3
      <4> QED
        BY <3>1, <4>2, <4>3, <4>4 DEF Right
    <3>2. CASE i # j
      <4>1. ~HasUnfinished(i) /\ jobStatus[i] # "absent" /\ crashes = 0
        BY <2>1, <2>2, <2>4, <3>2
      <4>2. \A v \in Worker : ~Refreshing(v, i)
        BY <2>0, <2>1, <3>2 DEF Refreshing, Alone
      <4>3. Right(i)
        BY <4>1, <4>2 DEF AggregateInv
      <4> QED
        BY <2>1, <2>2, <3>2, <4>3 DEF Right
    <3> QED
      BY <3>1, <3>2
  <2> QED
    BY <2>3, <2>4 DEF AggregateInv
<1>8. ASSUME NEW w \in Worker, Crash(w) PROVE AggregateInv'
  <2>1. pc'[w] = "idle" /\ crashes' # 0
    BY <1>8 DEF Crash, Release, TypeOK
  <2> QED
    BY <2>1 DEF AggregateInv, TallyHolds, Alone
<1>9. CASE UNCHANGED <<taskStatus, jobStatus, counts, crashes, pc, task, tally>>
  BY <1>9, <1>a DEF Refreshing, TypeOK
<1> QED
  BY <1>1, <1>2, <1>3, <1>4, <1>5, <1>6, <1>7, <1>8, <1>9
  DEF Next, Step, Environment, LoseCreator, DeleteTarget,
      ChangeTarget, ReviseInputs,
      RunInteractively, Tick, jobVars, taskVars, workerVars, boundVars, vars

\* A job is completed with errors exactly when some task did not succeed.
LEMMA SettledByTasks ==
  ASSUME TypeOK, Present, NEW j \in Job, jobStatus[j] # "absent", ~HasUnfinished(j)
  PROVE  SettledStatus(CountsOf(j)) =
           IF \A t \in TasksOf(j) : taskStatus[t] = "succeeded"
           THEN "succeeded" ELSE "completed_with_errors"
<1> USE JobAssumption
<1>1. ASSUME NEW s
      PROVE  Cardinality(InStatus(j, s)) > 0 <=> \E t \in TasksOf(j) : taskStatus[t] = s
  <2>1. InStatus(j, s) \subseteq Task
    BY DEF InStatus, TasksOf
  <2>2. IsFiniteSet(InStatus(j, s))
    BY <2>1, FS_Subset
  <2>3. /\ Cardinality(InStatus(j, s)) \in Nat
        /\ Cardinality(InStatus(j, s)) = 0 <=> InStatus(j, s) = {}
    BY <2>2, FS_CardinalityType, FS_EmptySet
  <2>4. InStatus(j, s) = {} <=> ~\E t \in TasksOf(j) : taskStatus[t] = s
    BY DEF InStatus
  <2> HIDE DEF InStatus
  <2> QED
    BY <2>3, <2>4
<1>2. \A t \in TasksOf(j) : taskStatus[t] \in Finished
  BY DEF Present, TypeOK, HasUnfinished, TasksOf, Unfinished, Finished, Exception,
         TaskStatus
<1>3. /\ CountsOf(j).skipped > 0 <=> \E t \in TasksOf(j) : taskStatus[t] = "skipped"
      /\ CountsOf(j).failed > 0 <=> \E t \in TasksOf(j) : taskStatus[t] = "failed"
  BY <1>1 DEF CountsOf
<1> QED
  BY <1>2, <1>3 DEF SettledStatus, Finished, Exception

\* When a lone worker is idle and every task of a job is settled, the job row has
\* the exact totals and the status they amount to, retries and verdicts recorded
\* twice included, as long as the worker never died (_refresh_job).
THEOREM LoneWorkerTotals ==
  ASSUME Alone PROVE Spec => []SettledAggregate
<1>1. Init => Present /\ AggregateInv
  BY JobAssumption DEF Init, Present, AggregateInv, TallyHolds
<1>2. TypeOK /\ Present /\ AggregateInv => SettledAggregate
  BY SettledByTasks DEF AggregateInv, SettledAggregate, Right, Refreshing
<1> QED
  BY <1>1, <1>2, PresentStep, AggregateStep, TypeCorrect, PTL DEF Spec
=============================================================================
