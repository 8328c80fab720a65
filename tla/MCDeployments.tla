--------------------------- MODULE MCDeployments ---------------------------
(***************************************************************************)
(* Three deployments of BackgroundJobs in one run.  The initial state      *)
(* picks one of them and no step changes it:                               *)
(*                                                                         *)
(*   "single"   one worker, whose leases may run out, serves two jobs with *)
(*              a target in common; the creator of the second may leave.   *)
(*              These are the constants of the .cfg.                       *)
(*   "fleet"    two workers serve one job of two tasks whose targets stay; *)
(*              every lease outlasts the work it covers.                   *)
(*   "overrun"  two workers whose leases may run out, a recruiter who does *)
(*              the same work from a page, and a database error.           *)
(***************************************************************************)
EXTENDS BackgroundJobs, TLC

CONSTANTS w1, w2, j1, j2, cv, entry

VARIABLE deployment

SharedJobOf    == 1 :> j1 @@ 2 :> j1 @@ 3 :> j2
SharedTargetOf == 1 :> cv @@ 2 :> entry @@ 3 :> cv
ServesAll      == [w \in Worker |-> Job]

Pair       == {w1, w2}
PairServes == [w \in Pair |-> {j1}]
OneJob     == {j1}

FleetTask     == {1, 2}
FleetJobOf    == [t \in FleetTask |-> j1]
FleetTargetOf == 1 :> cv @@ 2 :> entry

Fleet == INSTANCE BackgroundJobs WITH
  Worker <- Pair, Serves <- PairServes, Job <- OneJob, Leaving <- {},
  Task <- FleetTask, JobOf <- FleetJobOf, TargetOf <- FleetTargetOf,
  Volatile <- {}, OverrunsLease <- FALSE, MaxSnapshot <- 0

LoneTask     == {1}
LoneJobOf    == 1 :> j1
LoneTargetOf == 1 :> entry

Overrun == INSTANCE BackgroundJobs WITH
  Worker <- Pair, Serves <- PairServes, Job <- OneJob, Leaving <- {},
  Task <- LoneTask, JobOf <- LoneJobOf, TargetOf <- LoneTargetOf,
  Target <- Entry, Interactive <- Entry,
  MaxAttempt <- 6, MaxFault <- 1, MaxSnapshot <- 0

AnyInit ==
  \/ deployment = "single" /\ Init
  \/ deployment = "fleet" /\ Fleet!Init
  \/ deployment = "overrun" /\ Overrun!Init

AnyNext ==
  /\ UNCHANGED deployment
  /\ \/ deployment = "single" /\ Next
     \/ deployment = "fleet" /\ Fleet!Next
     \/ deployment = "overrun" /\ Overrun!Next

FleetStep(w)   == deployment = "fleet" /\ Fleet!Step(w) /\ UNCHANGED deployment
FleetTick      == deployment = "fleet" /\ Fleet!Tick /\ UNCHANGED deployment
OverrunStep(w) == deployment = "overrun" /\ Overrun!Step(w) /\ UNCHANGED deployment
OverrunTick    == deployment = "overrun" /\ Overrun!Tick /\ UNCHANGED deployment

anyVars == <<deployment, vars>>

AnySpec ==
  /\ AnyInit /\ [][AnyNext]_anyVars
  /\ \A w \in Pair : WF_anyVars(FleetStep(w) \/ OverrunStep(w))
  /\ WF_anyVars(FleetTick \/ OverrunTick)

-----------------------------------------------------------------------------
\* A lone worker files one result for the same inputs, whatever crashes, retries
\* and second jobs come in between (process_next_background_task).
SingleSavesOnce == deployment = "single" => SavedOnce

\* The totals a lone worker leaves on the row of a settled job are the tasks'
\* own, a retry between the read and the write included (_refresh_job).
SingleAggregate == deployment = "single" => SettledAggregate

\* No task of the fleet is in two hands (_claim_task).
FleetClaims == deployment = "fleet" => Fleet!ExclusiveClaim

\* Where leases run out under their workers, a recorded success still has its
\* result on file for as long as the target exists (_complete_task).
OverrunBacked == deployment = "overrun" => Overrun!SuccessBacked

\* ... and every task is settled in the end.
OverrunSettles == deployment = "overrun" => Overrun!EveryTaskSettles

\* What the recruiter of the fleet sees; in the other deployments he is not here.
FleetState ==
  IF deployment = "fleet" THEN Fleet!PromisedState ELSE [t \in FleetTask |-> "absent"]

FleetPromise == INSTANCE JobPromise WITH
  Job <- OneJob, Task <- FleetTask, JobOf <- FleetJobOf, state <- FleetState

\* The fleet keeps what docs/architecture.md promises about a batch.
FleetKeepsPromise == FleetPromise!Spec
=============================================================================
