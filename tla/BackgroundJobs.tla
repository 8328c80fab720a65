--------------------------- MODULE BackgroundJobs ---------------------------
(***************************************************************************)
(* The durable batch runtime of operations/services.py.                    *)
(*                                                                         *)
(* A job owns a fixed set of tasks.  Workers (run_background_worker) claim *)
(* a task under an expiring lease, look for a result that is already       *)
(* saved, otherwise call the AI service, and then record the verdict.      *)
(*                                                                         *)
(* Every database transaction, and every statement the code runs outside   *)
(* one (the connection is in autocommit), is one action here, so that      *)
(* workers, recruiters and the clock interleave between them as they do on *)
(* PostgreSQL:                                                             *)
(*                                                                         *)
(*   Claim -> Inspect -> Load -> Save / Reject -> Finish -> Tally -> Post  *)
(*                                                                         *)
(* Task, job and target keys, the lease clock and the AI verdict are       *)
(* abstract; timestamps, failure-code wording and usage metering are left  *)
(* out.                                                                    *)
(***************************************************************************)
EXTENDS Integers, FiniteSets

CONSTANTS
  Worker,         \* processes running run_background_worker
  SkipsLocked,    \* has_select_for_update_skip_locked (PostgreSQL: TRUE)
  Serves,         \* [Worker -> SUBSET Job]: all jobs, or the one of --job
  Job,            \* BackgroundJob keys
  Task,           \* BackgroundTask primary keys, naturals in id order
  JobOf,          \* [Task -> Job]
  Target,         \* candidate documents and shortlist entries
  Entry,          \* the targets that are shortlist entries
  TargetOf,       \* [Task -> Target]
  Interactive,    \* targets recruiters also process from a page
  Volatile,       \* targets that change or go away
  Leaving,        \* jobs whose creator may be deleted
  TaskLease,      \* TASK_LEASE in clock ticks
  OverrunsLease,  \* may a live worker still hold a task when its lease ends?
  MaxAttempt,     \* bound on attempt_count
  MaxRetry,       \* bound on recruiter retries
  MaxCrash,       \* bound on worker crashes and restarts
  MaxFault,       \* bound on database errors met while a verdict is recorded
  MaxSnapshot,    \* bound on revisions of an entry's inputs
  MaxSaved        \* bound on results saved for one snapshot

ASSUME JobAssumption ==
  /\ Task \subseteq Nat
  /\ IsFiniteSet(Task)
  /\ JobOf \in [Task -> Job]
  /\ TargetOf \in [Task -> Target]
  /\ Entry \subseteq Target
  /\ Interactive \subseteq Target
  /\ Volatile \subseteq Target
  /\ Leaving \subseteq Job
  /\ Serves \in [Worker -> SUBSET Job]

\* The queueing services refuse an empty batch with a ValidationError.
ASSUME WorkAssumption == \A j \in Job : \E t \in Task : JobOf[t] = j

ASSUME BoundAssumption ==
  /\ TaskLease \in Nat
  /\ OverrunsLease \in BOOLEAN
  /\ SkipsLocked \in BOOLEAN
  /\ {MaxAttempt, MaxRetry, MaxCrash, MaxFault, MaxSnapshot, MaxSaved}
       \subseteq Nat

VARIABLES
  jobStatus,    \* BackgroundJob.status, "absent" before the row exists
  counts,       \* its succeeded_count, skipped_count and failed_count
  creator,      \* is created_by still set (it is SET_NULL on user deletion)?
  taskStatus,   \* BackgroundTask.status
  attempt,      \* BackgroundTask.attempt_count
  lease,        \* ticks until lease_expires_at; NoLease when it is NULL
  outcome,      \* BackgroundTask.outcome
  targetState,  \* what a query for the target finds
  snapshot,     \* revision of the inputs a result is filed under
  saved,        \* results on file for each target and snapshot
  pc,           \* where a worker is
  task,         \* the task it claimed
  allowed,      \* was created_by set when it claimed it?
  loaded,       \* the snapshot it loaded before the AI call
  verdict,      \* what it is about to write to the task row
  tally,        \* the counts it read and will write to the job row
  retries, crashes, faults  \* counters for the bounds

jobVars    == <<jobStatus, counts, creator>>
taskVars   == <<taskStatus, attempt, lease, outcome>>
targetVars == <<targetState, snapshot, saved>>
workerVars == <<pc, task, allowed, loaded, verdict, tally>>
boundVars  == <<retries, crashes, faults>>
vars == <<jobVars, taskVars, targetVars, workerVars, boundVars>>

-----------------------------------------------------------------------------
JobStatus  == {"queued", "running", "succeeded", "completed_with_errors"}
TaskStatus == {"queued", "running", "succeeded", "skipped", "failed"}
Exception  == {"skipped", "failed"}
Finished   == {"succeeded"} \cup Exception
Unfinished == {"queued", "running"}

NoLease == -2
Expired(t) == lease[t] = -1
Lease   == -2 .. TaskLease

\* lease_expires_at = now + TASK_LEASE.
NewLease == TaskLease

\* What a worker passes to _complete_task, and whether the call is made inside
\* the try block of process_next_background_task (guarded) or in a handler.
Verdict == [status : Finished, outcome : {"none", "created", "reused"},
            guarded : BOOLEAN]
Created == [status |-> "succeeded", outcome |-> "created", guarded |-> TRUE]
Reused  == [status |-> "succeeded", outcome |-> "reused", guarded |-> TRUE]
\* Mutant: a missing target is recorded as a reused result.
MissingAsReused == Reused
Missing == [status |-> "skipped", outcome |-> "none", guarded |-> TRUE]
Skip    == [status |-> "skipped", outcome |-> "none", guarded |-> FALSE]
Fail    == [status |-> "failed", outcome |-> "none", guarded |-> FALSE]

Counts == [succeeded : Nat, skipped : Nat, failed : Nat]
Zero   == [succeeded |-> 0, skipped |-> 0, failed |-> 0]

TasksOf(j) == {t \in Task : JobOf[t] = j}
InStatus(j, s) == {t \in TasksOf(j) : taskStatus[t] = s}

HasUnfinished(j) == \E t \in TasksOf(j) : taskStatus[t] \in Unfinished

\* Mutant: a retry that requeues every finished task.
ExceptionsOrDone(j) == {t \in TasksOf(j) : taskStatus[t] \in Finished}

Exceptions(j) == {t \in TasksOf(j) : taskStatus[t] \in Exception}

\* The aggregate that BackgroundTask rows of j amount to now.
CountsOf(j) == [succeeded |-> Cardinality(InStatus(j, "succeeded")),
                skipped   |-> Cardinality(InStatus(j, "skipped")),
                failed    |-> Cardinality(InStatus(j, "failed"))]

\* Mutant: skipped targets do not make a job "completed with errors".
FailedOnlyStatus(c) ==
  IF c.failed > 0 THEN "completed_with_errors" ELSE "succeeded"

SettledStatus(c) ==
  IF c.skipped > 0 \/ c.failed > 0 THEN "completed_with_errors" ELSE "succeeded"

\* A worker owns its task from the claim until the verdict is written.
Holding == {"claimed", "loading", "calling", "finishing"}
Holds(w, t) == pc[w] \in Holding /\ task[w] = t

NothingSaved == [s \in 0 .. MaxSnapshot |-> 0]

NoTask == -1
NoVerdict == [status |-> "failed", outcome |-> "none", guarded |-> FALSE]
NoTally == [counts |-> Zero, open |-> FALSE]

Init ==
  /\ jobStatus = [j \in Job |-> "absent"]
  /\ counts = [j \in Job |-> Zero]
  /\ creator = [j \in Job |-> TRUE]
  /\ taskStatus = [t \in Task |-> "absent"]
  /\ attempt = [t \in Task |-> 0]
  /\ lease = [t \in Task |-> NoLease]
  /\ outcome = [t \in Task |-> "none"]
  /\ targetState = [x \in Target |-> "ready"]
  /\ snapshot = [x \in Target |-> 0]
  /\ saved = [x \in Target |-> NothingSaved]
  /\ pc = [w \in Worker |-> "idle"]
  /\ task = [w \in Worker |-> NoTask]
  /\ allowed = [w \in Worker |-> TRUE]
  /\ loaded = [w \in Worker |-> 0]
  /\ verdict = [w \in Worker |-> NoVerdict]
  /\ tally = [w \in Worker |-> NoTally]
  /\ retries = 0 /\ crashes = 0 /\ faults = 0

-----------------------------------------------------------------------------
(* Recruiters and the rest of the application. *)

\* _create_job: the job row and all its task rows in one transaction under
\* the organization lock; task ids grow with creation.
CreateJob(j) ==
  /\ jobStatus[j] = "absent"
  /\ \A t \in TasksOf(j), u \in Task : taskStatus[u] # "absent" => u < t
  /\ jobStatus' = [jobStatus EXCEPT ![j] = "queued"]
  /\ taskStatus' = [t \in Task |-> IF t \in TasksOf(j) THEN "queued"
                                   ELSE taskStatus[t]]
  /\ UNCHANGED <<counts, creator, attempt, lease, outcome,
                 targetVars, workerVars, boundVars>>

\* retry_background_job: one transaction under the job lock.  It does not
\* look at the job's status, nor at workers that are still refreshing it.
Retry(j) ==
  /\ retries < MaxRetry
  /\ Exceptions(j) # {}
  /\ taskStatus' = [t \in Task |-> IF t \in Exceptions(j) THEN "queued"
                                   ELSE taskStatus[t]]
  /\ lease' = [t \in Task |-> IF t \in Exceptions(j) THEN NoLease ELSE lease[t]]
  /\ jobStatus' = [jobStatus EXCEPT ![j] = "queued"]
  /\ counts' = [counts EXCEPT ![j] = [@ EXCEPT !.skipped = 0, !.failed = 0]]
  /\ retries' = retries + 1
  /\ UNCHANGED <<creator, attempt, outcome, targetVars, workerVars,
                 crashes, faults>>

\* The user who queued the job is deleted (created_by SET_NULL).
LoseCreator(j) ==
  /\ j \in Leaving
  /\ jobStatus[j] # "absent"
  /\ creator[j]
  /\ creator' = [creator EXCEPT ![j] = FALSE]
  /\ UNCHANGED <<jobStatus, counts, taskVars, targetVars, workerVars, boundVars>>

\* delete_candidate deletes the candidate's documents and entries, retention the
\* match runs; the profiles and assessments saved for them go by cascade.  The
\* task rows name their target by key and stay as they are.
DeleteTarget(x) ==
  /\ x \in Volatile
  /\ targetState[x] # "gone"
  /\ targetState' = [targetState EXCEPT ![x] = "gone"]
  /\ saved' = [saved EXCEPT ![x] = NothingSaved]
  /\ UNCHANGED <<jobVars, taskVars, snapshot, workerVars, boundVars>>

\* The candidate of an entry gains or loses the current profile.
ChangeTarget(x) ==
  /\ x \in Entry \cap Volatile
  /\ \E s \in {"ready", "unready"} :
       /\ {s, targetState[x]} = {"ready", "unready"}
       /\ targetState' = [targetState EXCEPT ![x] = s]
  /\ UNCHANGED <<jobVars, taskVars, snapshot, saved, workerVars, boundVars>>

\* A new current profile or changed match inputs: results on file for the old
\* snapshot are no longer "existing" ones.
ReviseInputs(x) ==
  /\ x \in Entry \cap Volatile
  /\ targetState[x] # "gone"
  /\ snapshot[x] < MaxSnapshot
  /\ snapshot' = [snapshot EXCEPT ![x] = @ + 1]
  /\ UNCHANGED <<jobVars, taskVars, targetState, saved, workerVars, boundVars>>

File(x, s) ==
  /\ saved[x][s] < MaxSaved
  /\ saved' = [saved EXCEPT ![x][s] = @ + 1]

\* A recruiter runs the same extraction or assessment from a page.
RunInteractively(x) ==
  /\ x \in Interactive
  /\ targetState[x] = "ready"
  /\ File(x, snapshot[x])
  /\ UNCHANGED <<jobVars, taskVars, targetState, snapshot, workerVars, boundVars>>

-----------------------------------------------------------------------------
(* Workers. *)

\* A worker with nothing in hand: between two calls, or just restarted.
Release(w) ==
  /\ pc' = [pc EXCEPT ![w] = "idle"]
  /\ task' = [task EXCEPT ![w] = NoTask]
  /\ allowed' = [allowed EXCEPT ![w] = TRUE]
  /\ loaded' = [loaded EXCEPT ![w] = 0]
  /\ verdict' = [verdict EXCEPT ![w] = NoVerdict]
  /\ tally' = [tally EXCEPT ![w] = NoTally]

\* Mutants: any running task may be taken over; none may be reclaimed.
ClaimableRunning(t) == taskStatus[t] \in Unfinished
ClaimableQueued(t) == taskStatus[t] = "queued"

Claimable(t) ==
  \/ taskStatus[t] = "queued"
  \/ taskStatus[t] = "running" /\ Expired(t)

Offered(w, t) == Claimable(t) /\ JobOf[t] \in Serves[w]

\* The oldest task on offer; rows another transaction has locked are skipped, so
\* where the database skips them a later one may be taken.
NextClaim(w, t) ==
  /\ Offered(w, t)
  /\ SkipsLocked \/ \A u \in Task : Offered(w, u) => t <= u

\* _claim_task: select for update (skip locked), take the lease, reopen the job.
Claim(w, t) ==
  /\ pc[w] = "idle"
  /\ NextClaim(w, t)
  /\ attempt[t] < MaxAttempt
  /\ taskStatus' = [taskStatus EXCEPT ![t] = "running"]
  /\ attempt' = [attempt EXCEPT ![t] = @ + 1]
  /\ lease' = [lease EXCEPT ![t] = NewLease]
  /\ jobStatus' = [jobStatus EXCEPT ![JobOf[t]] = "running"]
  /\ pc' = [pc EXCEPT ![w] = "claimed"]
  /\ task' = [task EXCEPT ![w] = t]
  /\ allowed' = [allowed EXCEPT ![w] = creator[JobOf[t]]]
  /\ UNCHANGED <<counts, creator, outcome, targetVars, loaded, verdict, tally,
                 boundVars>>

Conclude(w, v) ==
  /\ pc' = [pc EXCEPT ![w] = "finishing"]
  /\ verdict' = [verdict EXCEPT ![w] = v]

\* Mutant: saved results are not looked up.
NothingOnFile(x) == FALSE

OnFile(x) == saved[x][snapshot[x]] > 0

\* process_next_background_task up to the AI service: no creator, no target,
\* no confirmed profile, an existing result, or work to do.
Inspect(w) ==
  LET x == TargetOf[task[w]] IN
  /\ pc[w] = "claimed"
  /\ \/ ~allowed[w] /\ Conclude(w, Fail)
     \/ allowed[w] /\ targetState[x] # "ready" /\ Conclude(w, Missing)
     \/ allowed[w] /\ targetState[x] = "ready" /\ OnFile(x) /\ Conclude(w, Reused)
     \/ /\ allowed[w] /\ targetState[x] = "ready" /\ ~OnFile(x)
        /\ pc' = [pc EXCEPT ![w] = "loading"]
        /\ UNCHANGED verdict
  /\ UNCHANGED <<jobVars, taskVars, targetVars, task, allowed, loaded, tally,
                 boundVars>>

\* extract_candidate_profile / assess_shortlist_entry load their inputs and
\* call the provider; the snapshot they loaded is the one a result is for.
Load(w) ==
  /\ pc[w] = "loading"
  /\ targetState[TargetOf[task[w]]] = "ready"
  /\ loaded' = [loaded EXCEPT ![w] = snapshot[TargetOf[task[w]]]]
  /\ pc' = [pc EXCEPT ![w] = "calling"]
  /\ UNCHANGED <<jobVars, taskVars, targetVars, task, allowed, verdict, tally,
                 boundVars>>

\* The provider answered, the service relocked and rechecked its inputs and
\* saved the result: one transaction, before the task row is touched.
Save(w) ==
  LET x == TargetOf[task[w]] IN
  /\ pc[w] = "calling"
  /\ targetState[x] = "ready"
  /\ loaded[w] = snapshot[x]
  /\ File(x, loaded[w])
  /\ Conclude(w, Created)
  /\ UNCHANGED <<jobVars, taskVars, targetState, snapshot, task, allowed,
                 loaded, tally, boundVars>>

\* The service raised: a gateway, permission or unexpected error fails the
\* task, an evidence or validation error (a changed input is one) skips it.
Reject(w) ==
  /\ pc[w] \in {"loading", "calling"}
  /\ \/ Conclude(w, Fail)
     \/ Conclude(w, Skip)
  /\ UNCHANGED <<jobVars, taskVars, targetVars, task, allowed, loaded, tally,
                 boundVars>>

\* _complete_task: an UPDATE by primary key, whatever the row holds by now.
Finish(w) ==
  /\ pc[w] = "finishing"
  /\ taskStatus' = [taskStatus EXCEPT ![task[w]] = verdict[w].status]
  /\ outcome' = [outcome EXCEPT ![task[w]] = verdict[w].outcome]
  /\ lease' = [lease EXCEPT ![task[w]] = NoLease]
  /\ pc' = [pc EXCEPT ![w] = "tallying"]
  /\ UNCHANGED <<jobVars, attempt, targetVars, task, allowed, loaded, verdict,
                 tally, boundVars>>

\* _refresh_job, first statement: count the job's tasks by status.
Tally(w) ==
  /\ pc[w] = "tallying"
  /\ tally' = [tally EXCEPT ![w] = [counts |-> CountsOf(JobOf[task[w]]),
                                    open   |-> HasUnfinished(JobOf[task[w]])]]
  /\ pc' = [pc EXCEPT ![w] = "posting"]
  /\ UNCHANGED <<jobVars, taskVars, targetVars, task, allowed, loaded, verdict,
                 boundVars>>

\* _refresh_job, second statement: write the status those counts amount to.
Post(w) ==
  LET j == JobOf[task[w]] IN
  /\ pc[w] = "posting"
  /\ counts' = [counts EXCEPT ![j] = tally[w].counts]
  /\ jobStatus' = [jobStatus EXCEPT ![j] =
                     IF tally[w].open THEN "running"
                     ELSE SettledStatus(tally[w].counts)]
  /\ Release(w)
  /\ UNCHANGED <<creator, taskVars, targetVars, boundVars>>

\* A database error in _complete_task or _refresh_job.  A guarded call's error
\* reaches the handler for Exception, which records a failure over whatever was
\* already written.  An error in an unguarded call ends the process (Crash).
RecordFault(w) ==
  /\ faults < MaxFault
  /\ pc[w] \in {"finishing", "tallying", "posting"}
  /\ verdict[w].guarded
  /\ faults' = faults + 1
  /\ Conclude(w, Fail)
  /\ UNCHANGED <<jobVars, taskVars, targetVars, task, allowed, loaded, tally,
                 retries, crashes>>

\* The process dies and is restarted (Restart=on-failure): local state is lost.
Crash(w) ==
  /\ crashes < MaxCrash
  /\ pc[w] # "idle"
  /\ crashes' = crashes + 1
  /\ Release(w)
  /\ UNCHANGED <<jobVars, taskVars, targetVars, retries, faults>>

\* Time passes for every lease; -1 is lease_expires_at < now.
Tick ==
  /\ \E t \in Task : lease[t] >= 0
  /\ OverrunsLease \/ \A t \in Task : lease[t] = 0 => ~\E w \in Worker : Holds(w, t)
  /\ lease' = [t \in Task |-> IF lease[t] >= 0 THEN lease[t] - 1 ELSE lease[t]]
  /\ UNCHANGED <<jobVars, taskStatus, attempt, outcome, targetVars, workerVars,
                 boundVars>>

-----------------------------------------------------------------------------
Step(w) ==
  \/ \E t \in Task : Claim(w, t)
  \/ Inspect(w) \/ Load(w) \/ Save(w) \/ Reject(w)
  \/ Finish(w) \/ Tally(w) \/ Post(w)

Environment ==
  \/ \E j \in Job : CreateJob(j) \/ Retry(j) \/ LoseCreator(j)
  \/ \E x \in Target : \/ DeleteTarget(x) \/ ChangeTarget(x)
                       \/ ReviseInputs(x) \/ RunInteractively(x)

Next ==
  \/ \E w \in Worker : Step(w) \/ RecordFault(w) \/ Crash(w)
  \/ Environment
  \/ Tick

Spec == Init /\ [][Next]_vars

\* A worker process keeps running its loop and time keeps passing; users are
\* not required to do anything.
FairSpec == Spec /\ (\A w \in Worker : WF_vars(Step(w))) /\ WF_vars(Tick)

-----------------------------------------------------------------------------
(* Properties. *)

TypeOK ==
  /\ jobStatus \in [Job -> JobStatus \cup {"absent"}]
  /\ counts \in [Job -> Counts]
  /\ creator \in [Job -> BOOLEAN]
  /\ taskStatus \in [Task -> TaskStatus \cup {"absent"}]
  /\ attempt \in [Task -> Nat]
  /\ lease \in [Task -> Lease]
  /\ outcome \in [Task -> {"none", "created", "reused"}]
  /\ targetState \in [Target -> {"ready", "unready", "gone"}]
  /\ snapshot \in [Target -> 0 .. MaxSnapshot]
  /\ saved \in [Target -> [0 .. MaxSnapshot -> Nat]]
  /\ pc \in [Worker -> Holding \cup {"idle", "tallying", "posting"}]
  /\ task \in [Worker -> Task \cup {NoTask}]
  /\ \A w \in Worker : pc[w] # "idle" => task[w] \in Task
  /\ allowed \in [Worker -> BOOLEAN]
  /\ loaded \in [Worker -> 0 .. MaxSnapshot]
  /\ verdict \in [Worker -> Verdict]
  /\ tally \in [Worker -> [counts : Counts, open : BOOLEAN]]
  /\ retries \in Nat /\ crashes \in Nat /\ faults \in Nat

\* A task is running exactly while it has a lease: whatever happens to its
\* worker, a running row can be reclaimed, and a settled or requeued row never
\* can be through an old lease (_claim_task, _complete_task, retry).
LeaseIffRunning ==
  \A t \in Task : taskStatus[t] = "running" <=> lease[t] # NoLease

\* A result is on file, unless it went with its target.
Backed(x) == \/ targetState[x] = "gone"
             \/ \E s \in 0 .. MaxSnapshot : saved[x][s] > 0

\* Every row that says "succeeded" carries an outcome and has a saved result
\* behind it for as long as its target exists, also when attempts overlap, crash
\* or are recorded twice.  What is deleted takes its results along.
SuccessBacked ==
  \A t \in Task : taskStatus[t] = "succeeded" =>
     outcome[t] # "none" /\ Backed(TargetOf[t])

\* While no worker outlives its lease, one task is in the hands of at most one
\* worker, and it is a running one under an unexpired lease.
ExclusiveClaim ==
  \A w \in Worker, t \in Task : Holds(w, t) =>
     /\ taskStatus[t] = "running" /\ ~Expired(t)
     /\ \A v \in Worker : Holds(v, t) => v = w

\* One worker processes, restarts, retries and second jobs for the same target
\* included, never files two results for the same inputs: what an interrupted
\* attempt saved is found and reused.
SavedOnce == \A x \in Target, s \in 0 .. MaxSnapshot : saved[x][s] <= 1

\* When every worker is idle and all tasks of a job are settled, its row says
\* so, with exact totals, unless some worker died on the way.
SettledAggregate ==
  \A j \in Job :
     /\ jobStatus[j] # "absent" /\ ~HasUnfinished(j)
     /\ crashes = 0
     /\ \A w \in Worker : pc[w] = "idle"
     => /\ counts[j] = CountsOf(j)
        /\ jobStatus[j] = IF \A t \in TasksOf(j) : taskStatus[t] = "succeeded"
                          THEN "succeeded" ELSE "completed_with_errors"

\* "Explicit recruiter retry requeues only exceptions": no step sends a
\* succeeded task back to the queue or to a worker.
RetrySparesSuccess ==
  [][\A t \in Task : taskStatus[t] = "succeeded" => taskStatus'[t] \in Finished]_vars

\* "Successful targets remain complete."
SuccessIsFinal ==
  [][\A t \in Task : taskStatus[t] = "succeeded" => taskStatus'[t] = "succeeded"]_vars

\* Every task a worker serves is settled in the end, through crashes, database
\* errors and overrun leases.
EveryTaskSettles ==
  \A t \in Task : taskStatus[t] = "queued" ~> taskStatus[t] \in Finished

\* While leases cover the work and no verdict is recorded twice, the runtime
\* keeps the recruiter's promise: a queued and a running task are both waiting.
PromisedState ==
  [t \in Task |-> CASE taskStatus[t] = "absent" -> "absent"
                   [] taskStatus[t] \in Unfinished -> "waiting"
                   [] taskStatus[t] = "succeeded" -> "done"
                   [] OTHER -> "exception"]

Promise == INSTANCE JobPromise WITH state <- PromisedState

KeepsPromise == Promise!Spec

=============================================================================
