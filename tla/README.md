# AI Candidate Matcher: TLA+ models, model checks and proofs

This directory is a verification project for the Django application in `src/`:
TLA+ modules for the parts where several actors, transactions, leases, files or
crashes interact, TLC configurations that check them on small instances, and
TLAPS proofs about them for every instance.

Run a check with `tlc -config Intake.cfg MCCvIntake.tla` (every run is listed
below with its configuration), a proof with `tlapm BackgroundJobs_proofs.tla`.

## 1. The system

Recruiters of an *organization* (tenant) upload CVs, an AI service extracts
profiles from them, profiles are confirmed by a person, vacancies have versioned
requirements, a match run ranks candidates into a shortlist, an AI assessment of
each entry is reviewed and decided by a person, and an outreach draft is
approved and used. State lives in PostgreSQL (READ COMMITTED, autocommit, no
`ATOMIC_REQUESTS`) and in private file storage, which is not transactional.
Web processes serve recruiters; one or more `run_background_worker` processes
run batches; a timer runs retention.

| Component | State it keeps | Operations | Talks to | What is hard | Correct when |
|---|---|---|---|---|---|
| Background jobs (`operations/services.py`) | `BackgroundJob` status and totals, `BackgroundTask` status, attempts, lease, outcome | create, claim, process, complete, refresh, retry | profiles and assessments (calls), AI gateway, recruiters | leases that end early, worker crashes between autocommitted statements, retry during refresh | one owner per task, no result twice, every task and job settles, successes stay |
| Queueing (`queue_*` in the same file) | idempotency keys of jobs | profile batch, explicit documents, shortlist | documents, profiles, match runs, jobs | reads outside the creating transaction | one job per selection, newest CV per candidate, new CVs get served |
| Reviewed intake (`candidates/bulk_intake.py`) | `CandidateIntakeBatch`, `CandidateIntakeItem`, staged files | upload, accept, skip, discard | documents, candidates, storage, queueing | lock orders, files written before and erased after commit | no copies, no twins, closed batches are empty, no orphan and no lost files |
| Documents (`candidates/documents.py`) | `CandidateDocument`, stored CVs | upload, load | storage | same | same |
| Candidates (`candidates/services.py`) | `Candidate`, `CandidateSource` | create, quick add, CSV import, request/cancel/execute deletion | documents, storage | purge beside everything else | a purge leaves only a tombstone |
| Profiles (`candidates/ai_extraction.py`) | `CandidateProfile` versions | extract, correct, confirm | AI gateway, documents, usage events | the source changes during the AI call | a profile is of the CV it names |
| Retention (`audit/lifecycle.py`) | policies, exceptions, tombstones | plan, apply, delete/recover/purge organization | intake, jobs, match runs, outreach, audit | plan versus concurrent use | only abandoned data goes |
| Matching (`matching/`) | `MatchRun`, `ShortlistEntry`, skills, rules | generate shortlist, assess staleness | requirements, profiles | exact apportionment, stale inputs | 100 points exactly, stale runs refused |
| Assessment, decision (`matching/`) | `MatchAssessment`, `ReviewDecision` | assess, decide | AI gateway, profiles, requirements | inputs change between read and write | versions dense, decisions on current inputs |
| Outreach (`outreach/`) | drafts, approvals, actions | generate, edit, approve, record | decisions, sources | permission changes | only the latest approved draft is used |
| Vacancies (`vacancies/`) | `Vacancy`, `VacancyRequirements` | draft, edit, confirm, copy, open, close, delete | skills, rules | version vs. vacancy locks | confirmed versions never change, one draft |
| Organizations, accounts | memberships, lifecycle | provision, add, (de)activate | all | last administrator | an organization keeps an administrator |
| AI gateway | none | one structured request | external provider | any answer, error or delay | - |
| Audit, usage, reports, evaluation, config, views | append-only rows, read-only pages | record, report | all | - | - |

## 2. Modules

| Module | Models | Lines of code it stands for |
|---|---|---|
| `BackgroundJobs` | the durable runtime of `operations/services.py`: one action per transaction or autocommitted statement | `services.py:29-78, 232-502`, `run_background_worker.py`, the two services it calls up to their saving transaction |
| `JobPromise` | what a recruiter is promised about a batch: submitted targets wait, settle, and only exceptions are requeued | abstract specification, refined by `BackgroundJobs` |
| `BackgroundJobs_proofs` | theorems about `BackgroundJobs` | - |
| `JobQueueing_proofs` | theorems about `JobQueueing` | - |
| `JobQueueing` | the three `queue_*` services, `_create_job`, and what changes under them | `services.py:38-229` |
| `CvIntake` | intake, documents, staged deletion, profile save and intake retention as transactions over shared rows and storage | `bulk_intake.py`, `documents.py:588-656`, `candidates/services.py:96-420`, `ai_extraction.py:849-904`, `lifecycle.py:354-405` |
| `CvIntake_proofs` | theorems about `CvIntake`: rows, copies, twins, batches, purges, deadlocks | - |
| `CvIntakeFiles_proofs` | theorems about the files behind its rows | - |
| `ReviewPipeline` | shortlist, assessment, decision, draft, approval and use for one vacancy and one candidate, against corrections, deletions and retention | `matching/scoring.py:223-291`, `staleness.py`, `ai_assessment.py:510-669`, `decisions.py`, `outreach/generation.py:239-328`, `outreach/workflow.py`, `candidates/corrections.py`, `ai_extraction.py:913-989`, `lifecycle.py:213-265, 419-439` |
| `ReviewPromise` | what the review promises: numbered snapshots nobody rewrites, each made for the newest of what it rests on; messages leave only on current evidence and with permission | abstract specification, refined by `ReviewPipeline` |
| `ReviewPipeline_proofs` | theorems about `ReviewPipeline` | - |
| `Tenancy` | an organization from provisioning to purge: memberships, managed accounts, permissions, retention policy and exceptions, staged deletion | `organizations/services.py`, `permissions.py`, `views.py`, `models.py`, `accounts/`, `audit/lifecycle.py:80-160, 440-660`, `process_organization_deletions.py` |
| `Tenancy_proofs` | theorems about `Tenancy` | - |
| `Requirements` | a vacancy, the versions of its requirements, their skill links and rules, AI suggestions and their cache, the client company: the transactions lock by lock | `vacancies/services.py`, `views.py`, `ai_extraction.py`, `forms.py`, `models.py`, `matching/services.py`, `matching/views.py`, `organizations/services.py:225-300` |
| `Requirements_proofs` | theorems about `Requirements` | - |
| `Ranking` | what candidates have on file after confirmations and corrections, eligibility, points and ranks | `candidates/ai_extraction.py`, `matching/skill_matching.py`, `evaluation.py`, `scoring.py`, `skill_vocabulary.py`, `candidates/profile_batch.py` |
| `Ranking_proofs` | theorems about `Ranking` | - |
| `MCDeployments`, `MCBackgroundJobs`, `MCJobQueueing`, `MCCvIntake`, `MCReviewPipeline`, `MCTenancy`, `MCRequirements`, `MCRanking` | instances for TLC | - |

The modules share the code's seams, not variables: `ReviewPipeline` starts from
"a confirmed version exists", which is what `Requirements` establishes
(`ConfirmedIsSound`, `ConfirmedIsFrozen`), and abstracts what a profile and the
requirements make of a candidate into `Suits`, which `Ranking` computes; an upload
is one step of `Tenancy` and many of `CvIntake`; `BackgroundJobs` calls what
`CvIntake` (profile) and `ReviewPipeline` (assessment) save. Each of these calls
is one transaction of the code, so the seam is a commit.

The definitions named "Mutant" in the modules are plausible faults of the
definition that follows them (a lock not taken, a filter too wide). Replacing
the definition by its mutant makes TLC find the paired property violated:
`PROJECT.json` lists one pair per property and run.

### BackgroundJobs

A worker's program counter follows `process_next_background_task`:
`Claim` (`_claim_task`, one transaction) → `Inspect` (creator, target, profile,
existing result) → `Load` (inputs of the AI call) → `Save` (the transaction that
files the profile or assessment after rechecking its inputs) or `Reject` (any
exception the service raises) → `Finish` (the UPDATE of `_complete_task`) →
`Tally` and `Post` (the read and the write of `_refresh_job`). `_complete_task`
is not wrapped in a transaction, so these last three are separate actions, and
`Crash` may come between any two. `RecordFault` is a database error in the calls
made inside the `try` block. `Tick` lets time pass for all leases: `lease` counts
ticks until `lease_expires_at`. A saved result is filed under the *snapshot* of
the inputs it was made from (`saved[target][snapshot]`); `ReviseInputs` is the
confirmation of a new profile. `DeleteTarget` is the deletion of a candidate's CV
or of an entry, by a purge or by retention: the saved results go by cascade, the
task rows stay. `Retry`, `CreateJob`, `LoseCreator`, `ChangeTarget` and
`RunInteractively` are the rest of the application.

Constants choose what the environment may do: `OverrunsLease` (may a worker
outlive its lease?), `SkipsLocked` (does the database skip locked rows?),
`Interactive`, `Volatile`, `Leaving`. All counters have named bounds
(`MaxAttempt`, `MaxRetry`, `MaxCrash`, `MaxFault`, `MaxSnapshot`, `MaxSaved`).

### JobQueueing

A request is three steps: read the selection, look for a job that has it, create
under the organization lock. Uploads, deletions, status changes, workers and
retries interleave with them. A document keeps its hash, so the idempotency key
is the schema name and the set of targets.

### CvIntake

Each operation is a transaction `txn[r]` with the locks it still has to take, in
the order of its `select_for_update` calls, and a stage: *deciding* (checks
under the first locks), *storing* (further locks), *writing* (files are stored
or erased one at a time, rows are about to change), commit, *hooks* (the
`on_commit` erasures). Rows change at the commit, files on the spot: that is
READ COMMITTED beside a file system. `Rollback` runs the handlers that remove
the stored file, `Crash` runs nothing, `HookFails` is a storage error after the
commit. A commit also checks the foreign keys of what it inserted, which Django
declares deferred: PostgreSQL takes a share lock (`FOR KEY SHARE`) on each row
named and waits for whoever holds it `FOR UPDATE` (`ShareRows`). So a deletion
request, its cancellation and a purge, which record an audit event, wait at their
commit for a holder of the organization, and a profile reuse for the document and
its candidate. `Victim` is the database breaking a deadlock. The AI call before a
profile is saved needs no state of its own: `StartProfile` may come at any time.

### ReviewPipeline

`run[r]` is a saved `MatchRun`: the requirements version and the candidate inputs
it was made from (its two signatures), and whether the candidate has an entry.
On an entry stand, numbered in order, the assessments (each the profile it is
of), the decisions (each the assessment it is about), the drafts (decision and
parent), their approvals and uses. `Stale`, `Decidable`, `Draftable` and
`CurrentDraft` are the four eligibility functions, each calling the one before it
as the code does.

A request is a transaction again: *asking* (checked without locks, waiting for the AI
service), *deciding* (locks taken, about to check), *writing* (checked, about to write),
with the locks its `select_for_update` calls take, joined rows included. Rows nobody
locked may change between deciding and writing: a decision locks only its entry, a draft
request also candidate and sources, nothing locks the requirements. An edit of the
candidate, a requested or cancelled deletion and a deleted vacancy are transactions as
well: they lock their row and share the organization at the commit, for their audit
event (`ShareRows`, as in `CvIntake`); a shortlist shares the requirements and the
candidate its run names, the requests about an entry the rows they hang theirs on. A
shortlist takes no lock and is split at its queries (`ReadCandidates`, `ReadSkills`,
`ReadProfiles`, `Rank`). Deletions *collect* the dependent rows and then delete them;
rows added in between make the commit fail (deferred foreign keys, `NothingNew`). `Fail`
is any error, the end of the process or the loss of a deadlock. A request that waits for
its first lock is taken to begin when it gets it, and a check under one lock only
(decision, generated draft, purge, retention plan) is made at that moment. What rules
make of profile, requirements and facts is the constant `Suits`; contact permission is
one Boolean.

`ReviewPromise` is the same review without transactions: `Assess`, `Decide`, `Write`,
`Approve` and `Use` check and write in one step, `Prune`, `Erase` and `Purge` delete in
one, and `Turn` stands for whatever changes the candidate or the vacancy. Of the
candidate it knows whether he can be reached, whether he is purged, and for which runs
he is `current`: as the shortlist saw him and as the newest assessment describes him.
`KeepsReviewPromise` maps these to `status`, `permitted` and `Current`; the rows are
the same. It says more than the action properties: a row, once written, stays as it is
until a deletion takes it, and a deletion takes uses from the oldest on.

### Tenancy

`req[r]` is a request: `Ask` is the page, which checks the permission and finds
its rows before any transaction; `Lock` takes the organization row; `Decide` is
the service looking again under the lock; a `Commit...` writes. A membership is
locked with `select_related("organization")`, so this lock covers memberships
too; only the retention policy and its exceptions are saved without it, which is
what `HoldBlocksPurge` is about. The purge erases files one at a time
(`EraseFile`), may break off at any of them (`PurgeFails`) and then deletes every
row (`CommitPurge`). `WindowEnds` is the passing of `purge_after`. It waits for
requests admitted before the suspension which need an active organization: the
window is a day at least, and a request lasts seconds.

### Requirements

A request takes the rows of `Plan` in the order of the code's statements, the
joined rows of `select_related` included, then `Check` evaluates what the service
checks, further rows may follow, and a `Commit...` writes. `Abort` is any error, a
lost deadlock or the end of the process. The AI service answers between two
transactions (`AnswerArrives`); `seen` is the signature of the draft the request
started from, `Cached` the lookup of an earlier snapshot. A version is its values,
the links `sync_requirement_skills` derives from them and its rules; each rule has
an identity, since a rule may be edited while it is being deleted. Other vacancies
appear as far as requests on them meet those on this one, at the organization and at
the client company: `createOther` and `retitleOther` (`CommitElsewhere`). A new
vacancy, an audit event and a new skill name the organization, so the commits that
insert one share its row (`ShareRows`); whether a skill is new is left open
(`MayInsert`: such a commit may wait for the organization, or find nothing to check).

### Ranking

One step per service. `Confirm` publishes a profile's skills: records an earlier
version of the same CV published go (`Kept`), records that stand in the way stay
(`Taken`), the others are created under the name `get_or_create_skill` resolves
the label to. `ConfirmAll` confirms the ready rows of a batch. On this state the
pure part is evaluated: `Best` picks one record per canonical skill, `Outcome` and
`FilterOutcome` are the three-valued rules, `Points` the apportionment by largest
remainder, `RankingKey` and `Shortlist` the saved ranks. The properties compare
them with what they are for (who is proven, who has more skills), not with
themselves.

## 3. Runs

| Run | Configuration | Question | Result |
|---|---|---|---|
| `jobs` | `Jobs.cfg` | three deployments in one run (`MCDeployments`): one worker (`SingleSavesOnce`, `SingleAggregate`), two workers within their leases (`FleetClaims`, refinement `FleetKeepsPromise`), two workers that outlive leases, crash and meet database errors (`OverrunBacked`, `OverrunSettles`) | holds (1.5 million states) |
| `late_verdict` | `JobsLateVerdict.cfg` | `SuccessIsFinal` with overrun leases | violated |
| `queueing` | `Queueing.cfg` | two recruiters, one candidate, two CVs, a match run: `OneJobPerKey`, `OneCvPerCandidate` | holds (1.7 million states) |
| `starved` | `Starved.cfg` | `NewCvServed` with two candidates, one of whose CVs never succeeds | violated |
| `intake` | `Intake.cfg` | two actors, ten kinds of operation, one mishap: eight invariants | holds (3.4 million states) |
| `intake_hook` | `IntakeHook.cfg` | `AcceptedCvIsStored` when the hook of an accept fails | violated |
| `review` | `Review.cfg` | any two requests over two runs: `TypeOK`, `FreshRunIsRight`, `PurgedLeavesNoReview`, `DeadlockNeedsOutOfOrder`, `ChainIsLatest`, `UseIsPermitted`, `AssessmentsAreCurrent`, refinement `KeepsReviewPromise` of `ReviewPromise` | holds (3.1 million states) |
| `retention_race` | `RetentionRace.cfg` | `RetentionSparesDecided` in the same instance | violated |
| `tenancy` | `Tenancy.cfg` | two requests and the daily command: `TypeOK`, `AdminRemains`, `RecoveredIsWhole`, `HoldBlocksPurge`, `SuspensionEnds` | holds (0.9 million states) |
| `requirements` | `Requirements.cfg` | any two requests at a time, on this vacancy or another: `OneDraft`, `ConfirmedIsSound`, `ConfirmedIsFrozen`, `DeadlockNeedsOutOfOrder` | holds (1.5 million states) |
| `ranking` | `Ranking.cfg` | two candidates, five requirement versions: `RecordsAreCurrent`, `CurrentSkillsCount`, `PointsAddUp`, `ListedIsProven`, `MoreSkillsRankHigher` | holds (0.8 million states) |
| `needs_review` | `NeedsReview.cfg` | `OnlyFailuresAreExcluded` in the same instance | violated |

### Bounds, and why they are enough

* *Jobs.* Conflicts are between two workers, a worker and a retry, or a worker
  and an interactive run, on one task or on two tasks of one job; three
  attempts let a task be claimed, reclaimed and retried (six in the `overrun`
  deployment, so that the bound never stops the liveness property). `TaskLease = 0` loses
  nothing: a lease ends one tick after it was taken, and any number of worker
  steps fits before that tick. The `single` deployment has two jobs over one CV, because a
  second job for the same target is what could file a result twice. A behaviour
  keeps the deployment it starts in, so the run checks three separate instances.
* *Queueing.* Two recruiters for races on the key, two CVs of one candidate for
  "newest", one document set picked explicitly, one match run; one change covers
  a deletion, a status change or a passing failure at every point. `starved` needs a
  second candidate, whose new CV competes with one that always fails.
* *Intake.* All conflicts are pairwise (two lock holders, two duplicates), so two
  actors; two items so that a batch can be half done; the first item and the direct
  upload are the same bytes; the second item shares an identity with the first and with
  the candidate on file, so that both a twin and conflicting identifiers occur; the
  batch is a vacancy's or not. The bound of 50 items in a batch is left out. A purge and
  a retention run do not fail in this run (`Fails`), so a purge is not the loser of a
  deadlock at its commit either: see section 6. Deadlocks of three and more are left to
  the theorem. Actors are symmetric and no liveness is checked.
* *Review.* Conflicts are between two transactions (symmetric actors), one of which may
  be a change of what the review rests on (`MaxChange = 1`). Two runs, since retention only deletes a run that is
  not the latest; two profiles and two values of the facts, so that a suitable
  candidate can become unsuitable and a profile conflicting; `MaxRow = 4` allows a
  complete chain up to a use, a corrected decision with a draft, or an edited
  draft; `MaxDraft = 3` lets numbering go on after half a chain was deleted. The one
  change is an edit of the facts or a source, a deletion requested (and
  then cancelled or followed by a purge), a deleted vacancy or new requirements.
* *Tenancy.* An owner and two people, so that both administrators can be taken away
  at once; two requests, since every conflict is between two, beside the daily
  command; one file is enough for a purge that broke off to leave a row without
  its file; two policy versions let a hold be set and one failed purge is followed
  by another attempt.
* *Requirements.* Conflicts are again between two requests (symmetric). One skill and
  one other value: a rule on the skill may lose it, one on the value may not. Two
  versions, so that a copy meets the version it copies; four requests in a row are a
  creation, a confirmation, a copy and an edit of that copy, or any of these and requests
  on another vacancy of the same client company, in any overlap.
* *Ranking.* Three profile versions over two candidates and two CVs allow a CV
  confirmed, corrected and confirmed again beside another CV; one manual record, edit or
  deletion. One skill may be on file under its alias and its canonical name at once,
  another under its alias only, so that `Best` has records to choose from; both names
  occur in a CV, with and without years. The five versions to rank for exercise each
  kind of rule, duplicate skills, an indivisible apportionment (3 + 2 + 2 of 7, thirds)
  and an empty one; a shortlist of one cuts off the second.
* `CHECK_DEADLOCK FALSE` everywhere: jobs end, items are settled and bounded
  counters run out, so all these systems may stop.

### Fairness

`FairSpec` of `BackgroundJobs`, and `AnySpec` of `MCDeployments` for its two-worker
deployments, assume weak fairness of each worker's next step (the process loops and is
restarted by systemd, `Restart=on-failure`; the AI client has a timeout) and of `Tick`.
Nothing is assumed of recruiters, crashes or faults. `FairSpec` of `JobQueueing`, used
by `starved`, assumes that queued tasks are processed (which `EveryTaskSettles` shows),
and that recruiters keep asking for a batch and keep retrying exceptions: strong
fairness for asking, since a recruiter's request is idle only between two others. It is
not a property of the code but the best case for the promise: even with such recruiters
the CV is never served.

`Tenancy` assumes that the timer starts the daily command (`StartPurge`), that
`purge_after` passes, that requests which were let in go on and end (`Decide`,
`EraseFile`, commits: web workers have timeouts), and strong fairness for `Lock`:
PostgreSQL queues for row locks, so a request that finds the row free again and
again gets it. Nothing is assumed of people: no recovery, no release of a hold.

## 4. Where code and documentation part

1. **Late verdict** (`late_verdict`). `_complete_task` (`services.py:325`) updates
   by primary key. A worker whose lease ended overwrites the success the next
   worker recorded. `docs/architecture.md:986` promises that successful targets
   remain complete. The result itself stays on file for as long as its target does
   (`SuccessBacked`), and `SuccessStays` proves that this is the only way.
2. **Failing hook** (`intake_hook`). The `on_commit` erasure of the staged file
   runs inside the `try` whose handler erases the accepted document's file
   (`bulk_intake.py:550-555`). A storage error there leaves a committed document
   without its bytes (`docs/architecture.md:576`). `AcceptsAreStored` proves that,
   purges and retention runs aside, nothing else can.
3. **Retention race** (`retention_race`). The plan is made under the organization
   lock, which no recruiter's request takes, and its ids are deleted later without
   a second look (`lifecycle.py:420, 431`). A decision or approval recorded in
   between goes with the run or chain, against `docs/architecture.md:323`. If it is
   recorded after the deletion has collected its rows, the whole retention fails
   instead, after staged files were already erased.

4. **Starved CV** (`starved`). A request is answered by any old job that has any of
   the looked-up CVs (`services.py:106-119`). While one candidate's newest CV sits in
   a job without ever yielding a profile, "queue batch" never queues another's new
   CV, against `docs/architecture.md:970`. It can still be extracted from its page.
5. **Needs review** (`needs_review`). `docs/architecture.md:876` says that "passed and
   needs-review candidates remain eligible for scoring"; `is_shortlist_eligible`
   (`evaluation.py:44`, used in `scoring.py:259`) admits only those who passed. So a
   candidate with a confirmed profile stays off a shortlist that has free places although
   no recorded fact fails a rule, and the review outcome breaks no tie (`:885`).
   `ListedIsProven` checks what the code does promise.

Met while modelling, and shown by the models with other settings, but without a run
of their own:

6. **Restart.** A worker killed between the verdict and the refresh leaves the job
   "running" for ever (`services.py:335`): `SettledAggregate` has to excuse it.
   `docs/deployment.md:133` calls restarts safe.
7. **Snapshot under the wrong source.** `extract_vacancy_requirements` files its
   snapshot under the fingerprint of the source it sent, but drops what the *current*
   title does not state (`vacancies/ai_extraction.py:842-917`; `Suggested`). When the
   title changed in between, the cache later returns, for the old title, a role that
   the old source does not state (`docs/architecture.md:773`).
8. **Publishing.** Confirmation does not publish a skill when any record of it is on
   file (`ai_extraction.py:968`), another CV's included, so its evidence and years stay
   those of the older record; `docs/architecture.md:672` says without exception that it
   publishes the profile's skills. `CurrentSkillsCount` shows that the skill counts.

## 5. Proofs

Every theorem holds for all values of the constants that satisfy the named `ASSUME` of
the module (finite sets where something is counted or locked in id order, ids and bounds
that are numbers, functions with the right domain); TLC evaluates these assumptions on
every run. Where a theorem assumes more, it says so (`Punctual`, `Alone`, `Reliable`,
`Affordable` below). All of them have the same frame: an inductive invariant with `Init
=> Inv`, one lemma per action or kind of step for `Inv /\ [Next]_vars => Inv'`, and the
property read off from it. Each conjunct of an invariant was first found to hold by TLC
on the run of its module.

| Property a run checks | Theorem | Extra assumption |
|---|---|---|
| `BackgroundJobs`: `SuccessBacked` (`OverrunBacked`) | `SuccessIsBacked` | - |
| `ExclusiveClaim` (`FleetClaims`), safety of `KeepsPromise` (`FleetKeepsPromise`) | `ClaimsAreExclusive`, `PromiseIsKept` | `Punctual` |
| `SavedOnce` (`SingleSavesOnce`), `SettledAggregate` (`SingleAggregate`) | `LoneWorkerSavesOnce`, `LoneWorkerTotals` | `Alone` (and `Interactive = {}` for the first) |
| `JobQueueing`: `OneJobPerKey`, `OneCvPerCandidate` | `KeysAreUnique`, `BatchesHaveOneCvEach` | - |
| `CvIntake`: `TypeOK`, `OneCopyPerCv`, `IntakeMakesNoTwins`, `ClosedBatchIsDone`, `NoOrphanFiles`, `PurgedLeavesNothing`, `DeadlockNeedsOutOfOrder` | `IntakeTypes`, `IntakeCopies`, `IntakeTwins`, `IntakeClosed`, `IntakeStorage`, `IntakePurge`, `IntakeDeadlocks` | - |
| `RowsHaveFiles` | `IntakeFiles` | `Reliable` |
| `ReviewPipeline`: `TypeOK`, `FreshRunIsRight`, `PurgedLeavesNoReview`, `DeadlockNeedsOutOfOrder`, `ChainIsLatest`, `UseIsPermitted`, `AssessmentsAreCurrent`, `KeepsReviewPromise` | `ReviewTypes`, `ReviewFreshness`, `ReviewPurge`, `ReviewDeadlocks`, `ReviewChain`, `ReviewPermission`, `ReviewAssessments`, `ReviewPromiseKept` | - |
| `Tenancy`: `TypeOK`, `AdminRemains`, `RecoveredIsWhole`, `HoldBlocksPurge` | `TenantTypeCorrect`, `AdminAlwaysRemains`, `RecoveredTenantIsWhole`, `HoldsBlockPurge` | - |
| `Requirements`: `OneDraft`, `ConfirmedIsSound`, `ConfirmedIsFrozen`, `DeadlockNeedsOutOfOrder` | `OneDraftAtMost`, `WhatIsConfirmedIsSound`, `ConfirmedNeverChanges`, `VacancyDeadlocks` | - |
| `Ranking`: `RecordsAreCurrent`, `CurrentSkillsCount`, `ListedIsProven` | `RankingRecords`, `RankingSkills`, `RankingEligibility` | - |
| `PointsAddUp`, `MoreSkillsRankHigher` | `RankingPoints`, `RankingSkillsFirst` | `Affordable` |

### Background jobs

* `TypeCorrect` (`TypeOK`, which no run repeats): one step per action; lemmas type the
  counting and filing operators.
* `LeaseTracksRunning` (`LeaseIffRunning`): inductive with `TypeOK`, once it is
  known that tasks of a job that does not exist are absent.
* `SuccessIsBacked`. A verdict travels in a worker between
  `Save` and `Finish`, so the invariant is strengthened with: a worker about to
  record a success has a saved result for its target, or the target is gone, and a row
  that says "succeeded" has an outcome. Results go only with their target, and what
  is deleted does not come back (`BackingLasts`).
* `SuccessNeverRequeued`: the action property, from the type invariant and the
  guards of `Claim` and `Retry`.
* `ClaimsAreExclusive`, `SuccessStays`, `PromiseIsKept`: under
  `Punctual == ~OverrunsLease /\ MaxFault = 0` (leases cover the work, verdicts
  are recorded once) a held task is running under an unexpired lease and has one
  holder; hence `Finish` only ever writes to a running row, a success is final,
  and each step is a step of `JobPromise` or a stutter. These are the safety half
  of `KeepsPromise`; the assumption is exactly what `late_verdict` drops.
* `LoneWorkerSavesOnce`, `LoneWorkerTotals`: `Alone` says that there is one worker
  at most, as in the `single` deployment. It may be killed and restarted anywhere;
  `SettledAggregate` itself excuses the totals of a job after that (section 4.6 is
  what happens then), `SavedOnce` excuses nothing. `SavedInv` adds to "no result twice"
  that nothing is on file for inputs that are still to come, and that the worker asks
  the AI service only while nothing is on file for the inputs it loaded; interactive
  runs, which file beside it, are left out of the first theorem by `Interactive = {}`.
  For the totals, `AggregateInv` says that the row of a job whose tasks are settled is
  right *or the worker is about to make it so*, and that what the worker counted
  between the read and the write of `_refresh_job` (`Tally`, `Post`) is still true
  once all is settled. A retry in between un-settles the job, and a task that
  settles is always followed by a refresh. `WorkAssumption` (no empty job) is what
  the queue services ensure: a job without tasks would never be refreshed.

### Queueing

`QueueTypeCorrect`, `KeysAreUnique` and `BatchesHaveOneCvEach`, for every set of
recruiters, CVs, candidates and runs (`QueueAssumption`). `OneCvPerCandidate` is
not inductive: the selection is made in one step and becomes a job in a later
one, so `QueueInv` says the same of what each request holds, and that a request
about to create a job holds a selection. The newest CV is unique because CVs are
numbered in upload order (`NewestIsOne`).

### CV intake

`IntakeInv` (theorem `IntakeInvariant`) has four parts. `Apart`: no row is held
twice. `LocksHeld`: which rows a transaction holds or is still going to lock at
each stage; past its check it holds what it checked. `Standing`: what it found
there, per operation and stage (no copy on file or pending, the batch open, the
last pending item of the batch, the candidate not frozen, the documents of the
candidate to purge ...). And what the rows say of one another (`OwnersAreReal`,
`BornOfItems`, `TombstonesAreBare`, the properties themselves, and `StoredCvs` and
`StagedCvs`, the account of what is in storage).

Rows change under locks: `UnderLocks(r)` lists what a step of `r` may do to each
kind of row and which lock it must hold for it. `OthersStand`, with one lemma per
operation, shows once that a step with `UnderLocks(r)` spoils nobody else's
standing; so each action owes only its own part, and each of the nine commits the
obligations collected in `CommitStep`. Two things are subtle. An item may be
skipped by a holder of the organization (retention) *or* of its batch, so a
discarded batch can find part of its plan skipped (`Unsettled`); and a candidate
that reappears by a cancelled deletion is not a new twin, since the identities of
a candidate awaiting deletion still count as taken (`Here`).

`IntakeFiles` needs a finer account, `FilesInv`: a row without its
file has a retention run or purge that erased it and is about to settle or delete
the row, and whoever is about to save a row has stored its file (`HasWritten`).
Under `Reliable` (no purge or retention run breaks off while it erases, no erasure
by the hook of an accept fails) every pending item and every document has its bytes.
Uploads, accepts, skips, discards and profile saves may fail and crash anywhere;
what `Reliable` excludes is what `delete_candidate` and `apply_retention_plan` do
wrong when they fail (section 6) and the fault of run `intake_hook`: `AcceptsAreStored`
states the property this run violates, so the failing hook is the only other way
to lose an accepted CV.

### Review pipeline

`ReviewInv` is again `Standing`, `LocksHeld` and `Apart`; what keeps the standing is
`Spares(rows)`: what a step must leave alone for somebody who has locked `rows` (the
history of an entry, the profile, the candidate, the sources). It is weaker than
"unchanged" where the code is: retention locks no entry, so drafts of a locked
entry may go, but none may come, and a draft operation that misses its draft
fails at the write. A shortlist locks nothing. `Sound` says what it is worth all the
same: its verdict is the one the rules give on what it read, and the profile it is
ranked by is no older than the one it read; since profiles and requirements only
move on, a run whose signatures match the present was made from the present, which
is `FreshRunIsRight`. The three action properties follow from the invariant and from
which actions add a row at all (`Adds`, `Writes`).

`ReviewPromiseKept` is the refinement, for every constant. The standing of a request at
its write is the guard of the atomic request (`DraftAtHand`, `PromiseAssess`,
`PromiseRelease` ...): that is why nothing between check and write shows. A refused or
failed deletion does not show either; a successful one is `Prune`, `Erase` or `Purge`,
the last because the collected entries and those that had nothing on them are all there
are. Everything else leaves the rows alone and is a `Turn` (`OutOfSight`), which may not
revive a purged candidate.

### Deadlocks

`IntakeDeadlocks`, `ReviewDeadlocks` and `VacancyDeadlocks` are about lock orders,
for any number of requests. A request waits for a row to lock, or at its commit for a
row to share (`ShareRows`), or to lock a row that a waiting commit already shares.
Each module names what is `OutOfOrder`; all other waiting goes up in one order:
organization, item or document, batch, candidate (`Rank`); organization, entry,
candidate, vacancy, profile, sources (`Place`); the levels of `Requirements` (`Reach`,
`Above`). Of the requests in a waiting set, the one that waits for the highest row
would have to wait for a holder that itself waits higher: there is none. `InOrder`,
`Ordered` and `OrderInv` are proved invariant, since a request's list is extended after
its check. Rows of one level (items under retention, entries of several runs) are only
taken together under the organization lock or by one of the named requests.

In `CvIntake` and `ReviewPipeline` whoever is held up at a commit is out of order
(`HeldUp`), whatever he commits: he holds a candidate, say, and waits for the
organization. In a circle without such a one nobody is at his commit, so all wait for
rows to lock (`WaitsAreForLocks`). In `Requirements` the
statement is sharper. Most of its commits share the organization while they hold rows
that nobody with the organization still waits for, and so keep the order; only the
commit of a new vacancy is named, since it holds the client company, which an edit of
another vacancy waits for under the organization lock (`vacancies/services.py:71-90`
against `111-128`).

### Tenancy

`TenantTypeCorrect`, `AdminAlwaysRemains`, `RecoveredTenantIsWhole` and
`HoldsBlockPurge`, for every set of users, owners, requests and files. None is
inductive: between the check
under the lock and the commit other requests act. `TenantInv` says why they cannot
spoil it: whoever is past the lock holds it (`LockHeld`), so one request has decided
at a time (`OneDecides`) and what it found still stands when it commits
(`Decisions`). For holds and exceptions, which are saved without the lock, the
argument is another one: a purge has decided only when the window has passed, and
then no edit of the policy is under way (`Quiet`). Files are only erased after the
window (`Whole`), when recovery is refused. `StageStep`, `CommitStep`, `EditStep` and
`BreakOff` are the four ways a request can move; every action is an instance of one.

### Requirements

`OneDraftAtMost`, `WhatIsConfirmedIsSound`, `ConfirmedNeverChanges` and
`OpenVacancyIsConfirmed` (`OpenIsConfirmed`, which no run checks). The invariant is
`VacancyInv`. Its core is `Standing`: a request that has been
checked holds the row of its version, a draft, or of the vacancy, and what it found
(confirmable, no draft, a legal transition) still holds although the row of the *other*
kind may have changed. It follows because two requests never hold the same row
(`Apart`, `HoldersDiffer`), because versions are numbered without gaps with the draft
last (`Numbered`, `Newest`), which is what makes a copy's number right, and because a
confirmed version is nobody's draft. `PlanHeld` shows that a request with nothing left
to lock holds its plan, `VersionStep` covers every transaction that writes one version,
`NewDraft` the two that create one. `Sound(x)` of a version about to be confirmed comes
from the check for `confirm` and from the commit itself for `review`.

### Ranking

What `RecordsAreCurrent` and `CurrentSkillsCount` say of a candidate depends on that
candidate's profiles and records only, and whichever action it is does one of four
things to them: nothing, a new draft, a publication, a manual record (`Leaves`, `Grows`,
`Publishes`, `Assigns`). So `RankingInv` is proved for one candidate and one of the four
at a time. `Linked` (a record names a version that exists) keeps a new draft from being
mistaken for a source; that `Canonical` is idempotent (`RankingAssumption`, the
canonical name of an alias is no alias) is what makes a skill on file count for its
canonical name. `ListedIsProven` needs that `Best` is a record on file: `FirstExists`
shows that the finite, non-empty set of records of a skill has a least one in the
lexicographic order the code sorts by (so it has evidence if any has, `Foremost`),
`YearsBounded` that their years have a maximum.

*Points.* `Sum` is a fold, that is a recursive function chosen by `CHOOSE`, so the first
lemmas show that this function exists (`SumsExist`) and that any element may be taken
out first (`SumSplits`). The library's induction theorems cannot be instantiated here;
induction over finite sets is proved instead for a *set* of sets (`SubsetInduction`,
`SetInduction`), from the well-foundedness of the subset order. From there:

1. Summing the divisions with remainder, the cents that are left times the number of
   units is the sum of the remainders (`SumDivided`), each below the number of units: so
   there are fewer cents left than skills (`LeftBounded`).
2. In a finite strict order exactly n elements have fewer than n before them
   (`FirstOnesCounted`, by taking the last one out): each cent that is left is handed out
   once (`SumBonus`), and the points are 100 (`PointsSum`).
3. A must-have gets more than a nice-to-have by division alone when there are two cents
   for each unit; else its remainder is twice the other's and it comes first
   (`PointsRank`).

Step 3, and that every skill gets something, need no more units than cents:
`Affordable` says that no version lists more than 5,000 skills. The code bounds what the
AI service suggests (50 of each kind, `vacancies/ai_extraction.py:214`), not what is
typed in. `RankingHundredPoints` states the rest of `PointsAddUp` without it: exactly 100
points, equal importance within a cent, no skill twice.

*Ranks.* One more wanted skill is a strictly larger sum (`SumStrict`, `ScoresRise`) and
the score is the head of the ranking key, so its holder comes first (`FourPrecedes`), has
fewer candidates before (`BeforeGrows`) and is listed whenever the other is
(`RankingSkillsFirst`). `RankingRanks` shows, without `Affordable`, that the ranks of a
shortlist are 1 to `shortlisted_count`, each once (the constraint
`unique_rank_per_match_run`), and that whoever is cut off comes after everyone listed:
the primary key leaves no ties (`KeysOrder`), and `FirstOnesCounted` counts the entries.
No run repeats it.

### Only model-checked

* All liveness: `OverrunSettles` (`EveryTaskSettles`), `SuspensionEnds` and the
  fairness of `JobPromise` within `FleetKeepsPromise`. It is out of the prover's reach.
* What the five violation runs refute: `SuccessIsFinal`, `AcceptedCvIsStored`,
  `RetentionSparesDecided`, `NewCvServed` and `OnlyFailuresAreExcluded` (the first two
  are proved under the assumption that excludes the fault).

Every other invariant and action property that a run checks is the subject of a
theorem. No module uses a RECURSIVE operator.

## 6. Not modelled, and observations made on the way

* Form and file validation, text extraction, prompts, evidence checks, wording,
  pages and reports; AI usage events; the provenance text of sources (an exact
  source reference also counts as an identity in the code).
* `_claim_task` and `upload_candidate_intake_cv` combine `select_for_update` with
  `select_related` over a nullable key (`job__created_by`, `vacancy`). Django
  documents that PostgreSQL refuses this; the test-suite runs on SQLite, which
  ignores the lock. The models take the statements to lock the rows they name.
* `_refresh_job` reads and then writes without a lock: with two workers the older
  count can be written last and the job stays "running". `SettledAggregate` is
  therefore checked with one worker, as `deploy/` runs it, and `LoneWorkerTotals`
  assumes one.
* `delete_candidate` and `apply_retention_plan` erase files before they commit. If
  one erasure fails, files erased before it are gone although the rows stay; a
  cancelled deletion then restores a candidate without a CV. A purge that loses a
  deadlock at its commit has erased everything by then. `RowsHaveFiles` excuses
  purges in flight and the run does not let them fail.
* A process that dies between a commit and its hooks leaves an orphan file, and
  the code has no sweep for it (`NoOrphanFiles` excuses `losses`).
* A discarded batch locks batch then items, an accept or skip item then batch; a
  purge locks candidate then documents, a profile save document then candidate. And a
  deletion request, its cancellation or a purge holds the candidate and needs the
  organization at its commit, while an upload or accept holds the organization and
  waits for the candidate (`candidates/services.py:262-283`, `documents.py:621-624`).
  `DeadlockNeedsOutOfOrder` shows that every deadlock within `CvIntake` involves a
  discard, a purge or somebody held up at his commit.
* In a vacancy's new batch, a first file that is already on file completes the
  batch, and later files of the same upload are refused (`bulk_intake.py:356`);
  retention settles items but never completes their batch.
* A decision can be recorded although profile, requirements or status changed after
  its check (`decisions.py:114` locks the entry only), against the wording of
  `docs/architecture.md:1033`. `UseIsPermitted` shows that no message leaves on it,
  except that requirements may change or the vacancy be deleted at that very
  moment: nothing locks them.
* A shortlist that was being computed during a purge can save an entry, with the
  candidate's evidence in it, after the purge (`scoring.py:275`);
  `docs/architecture.md:1044` promises that the candidate's entries go.
  `PurgedLeavesNoReview` is about what hangs on entries.
* Draft requests and assessments lock the entry first and the candidate next;
  confirming, correcting, changing a source and purging start from the other end. An
  edit of the candidate holds him and waits for the organization at its commit
  (`corrections.py:40-62`), while retention holds the organization and waits for an
  entry whose assessment waits for the candidate: a circle of three without any of
  the four. `DeadlockNeedsOutOfOrder` shows that every deadlock within
  `ReviewPipeline` involves one of the four or somebody held up at his commit; TLC
  checks it for two actors, the theorem for any number.
* Quick add and CSV import look for duplicates without the organization lock.
* *Tenancy.* Permissions are checked before the lock, so an administrator who is being
  deactivated can still finish what he began. A stale policy form can lift a legal
  hold set meanwhile, and a hold set while `apply_retention_plan` runs is not seen by
  it; only the tenant's purge is safe (`HoldBlocksPurge`). `--as-of` of the command,
  which lets an operator choose the time, is not modelled.
* *Requirements.* `requirements_review` saves the draft in one transaction and the
  details with the rule in another when a rule is added (`vacancies/views.py:617`):
  refused details leave a saved draft whose rules were not checked against it; the
  confirmation checks them (`ConfirmedIsSound`). Rule services never look at
  `vacancy.deleted_at`. `confirm_requirements_and_open_vacancy` compares a status it
  read before the lock: a vacancy found open and paused meanwhile stays paused.
  `update_vacancy_details` joins the nullable client company in `FOR UPDATE`. Two
  requests that create the same skill at once meet the unique index: one fails.
* *Deadlocks.* Rule edits lock the rule first and its version next, synchronising rules
  the version first; switching a client company locks company then organization, an
  edit of a vacancy organization then company, and a new vacancy holds the company when
  its commit needs the organization. `DeadlockNeedsOutOfOrder` shows that every deadlock
  among the requests of `Requirements` involves one of these. Two bulk confirmations over
  the same candidates in opposite orders could deadlock too; batches are disjoint in
  practice.
* The deadlock theorems speak of the rows and requests of their own module. Circles
  through several modules (an accept that holds the organization and shares a vacancy
  against an edit of that vacancy), unique-index inserts (a skill created twice) and
  share locks on user rows, which nobody locks, are outside them.
* *Ranking.* A bulk confirmation is one transaction: a single refused row takes the
  whole batch back. With more than 10,000 units of skills in a version, some skills get
  no points at all and a must-have may get no more than a nice-to-have; nothing in the
  manual forms prevents it (section 5, `Affordable`).
* Purges of finished jobs and metadata, names and branding of an organization, contact
  permission over several sources, CSV mapping of proposals.

## 7. Plan

Done: models and runs for jobs, queueing, intake, the review pipeline, tenancy,
requirements and ranking; proofs of every safety property they check. Next, in order:

1. `ContactPermission`: the permission rule over several sources as a pure operator,
   in place of the Boolean `permitted`.
2. The failing erasures of a purge and of a retention run (section 6) as a run of their
   own, once it is settled what a cancelled deletion should promise.
