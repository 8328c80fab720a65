---------------------------- MODULE JobQueueing ----------------------------
(***************************************************************************)
(* How recruiters put work into the durable queue: the three queue_*       *)
(* services of operations/services.py and the _create_job they share.      *)
(*                                                                         *)
(* A request reads the CVs on file, looks for a job that already has them, *)
(* and creates a job under the organization lock.  Only the last part is a *)
(* transaction, so requests of several recruiters, uploads and finishing   *)
(* tasks interleave between the parts.                                     *)
(*                                                                         *)
(* An idempotency key stands for the hashed payload: the schema name with  *)
(* the set of targets (a document never changes its SHA-256).  A shortlist *)
(* has a fixed set of entries, so its run stands for them.                 *)
(***************************************************************************)
EXTENDS Naturals, Sequences, FiniteSets

CONSTANTS
  Recruiter,  \* concurrent requests of one organization
  Candidate,
  Doc,        \* CVs with extracted text: naturals in upload order
  OwnerOf,    \* [Doc -> Candidate]
  Run,        \* match runs with a non-empty shortlist
  Picks,      \* document sets an intake review may queue explicitly
  Faulty,     \* documents whose profile extraction never succeeds
  MaxChange   \* bound on deletions, status changes and passing failures

ASSUME QueueAssumption ==
  /\ Doc \subseteq Nat
  /\ OwnerOf \in [Doc -> Candidate]
  /\ Run \cap Doc = {}
  /\ Picks \subseteq SUBSET Doc
  /\ Faulty \subseteq Doc
  /\ MaxChange \in Nat

VARIABLES
  uploaded,  \* documents that exist
  usable,    \* those not deleted
  active,    \* candidates in status ACTIVE
  profiled,  \* documents with a profile version
  stale,     \* runs that are stale or whose vacancy is deleted
  jobs,      \* BackgroundJob rows in id order
  request,   \* what each recruiter's request holds between its parts
  changes    \* counter for MaxChange

domainVars == <<uploaded, usable, active, profiled, stale>>
vars == <<domainVars, jobs, request, changes>>

-----------------------------------------------------------------------------
Target == Doc \cup Run
Key == {"profile_batch", "profile_documents", "shortlist"} \X SUBSET Target
Idle == [at |-> "idle", key |-> <<"profile_batch", {}>>, lookup |-> {}]

TargetsOf(i) == jobs[i].key[2]
IsProfileJob(i) == jobs[i].key[1] # "shortlist"

\* The active candidates' CVs on file.
Readable == {d \in usable : OwnerOf[d] \in active}

\* Mutant: the newest CV is not singled out.
NewestUnsorted == Readable

\* The first of each candidate in the order of the query.
Newest == {d \in Readable : \A e \in Readable : OwnerOf[e] = OwnerOf[d] => e <= d}

\* lookup_ids: the eligible CVs, or every newest one when none is eligible.
LookupIds(eligible) == IF eligible # {} THEN eligible ELSE Newest

Init ==
  /\ uploaded = {} /\ usable = {} /\ profiled = {} /\ stale = {}
  /\ active = Candidate
  /\ jobs = <<>>
  /\ request = [r \in Recruiter |-> Idle]
  /\ changes = 0

-----------------------------------------------------------------------------
(* Documents, candidates and runs change under the queue. *)

Upload(d) ==
  /\ d \notin uploaded
  /\ \A e \in uploaded : e < d
  /\ uploaded' = uploaded \cup {d}
  /\ usable' = usable \cup {d}
  /\ UNCHANGED <<active, profiled, stale, jobs, request, changes>>

Delete(d) ==
  /\ d \in usable
  /\ changes < MaxChange
  /\ changes' = changes + 1
  /\ usable' = usable \ {d}
  /\ UNCHANGED <<uploaded, active, profiled, stale, jobs, request>>

ChangeStatus(c) ==
  /\ changes < MaxChange
  /\ changes' = changes + 1
  /\ active' = IF c \in active THEN active \ {c} ELSE active \cup {c}
  /\ UNCHANGED <<uploaded, usable, profiled, stale, jobs, request>>

GoStale(m) ==
  /\ m \notin stale
  /\ stale' = stale \cup {m}
  /\ UNCHANGED <<uploaded, usable, active, profiled, jobs, request, changes>>

-----------------------------------------------------------------------------
(* Requests. *)

\* queue_candidate_profile_batch: read the newest CVs and their profiles.
SelectBatch(r) ==
  LET eligible == Newest \ profiled IN
  /\ request[r] = Idle
  /\ request' = [request EXCEPT ![r] =
                   [at |-> "looking", key |-> <<"profile_batch", eligible>>,
                    lookup |-> LookupIds(eligible)]]
  /\ UNCHANGED <<domainVars, jobs, changes>>

Found(r, i) == IsProfileJob(i) /\ TargetsOf(i) \cap request[r].lookup # {}

\* Any profile job that has a looked-up CV answers the request; without one, an
\* empty selection is refused.
Answered(r) ==
  \/ \E i \in DOMAIN jobs : Found(r, i)
  \/ request[r].key[2] = {}

\* The rest of queue_candidate_profile_batch, up to _create_job.
LookUpBatch(r) ==
  /\ request[r].at = "looking"
  /\ request' = [request EXCEPT ![r] =
                   IF Answered(r) THEN Idle ELSE [@ EXCEPT !.at = "creating"]]
  /\ UNCHANGED <<domainVars, jobs, changes>>

\* queue_candidate_profile_documents: every requested CV must be readable.
RequestDocuments(r, D) ==
  /\ request[r] = Idle
  /\ D # {} /\ D \subseteq Readable
  /\ request' = [request EXCEPT ![r] =
                   [at |-> "creating", key |-> <<"profile_documents", D>>,
                    lookup |-> {}]]
  /\ UNCHANGED <<domainVars, jobs, changes>>

\* queue_shortlist_assessment_batch: the run must be current.
RequestShortlist(r, m) ==
  /\ request[r] = Idle
  /\ m \notin stale
  /\ request' = [request EXCEPT ![r] =
                   [at |-> "creating", key |-> <<"shortlist", {m}>>,
                    lookup |-> {}]]
  /\ UNCHANGED <<domainVars, jobs, changes>>

\* Mutant: the key is not looked up again under the lock.
KeyUnchecked(k) == FALSE

KeyTaken(k) == \E i \in DOMAIN jobs : jobs[i].key = k

\* _create_job: one transaction under the organization lock.
Create(r) ==
  /\ request[r].at = "creating"
  /\ jobs' = IF KeyTaken(request[r].key) THEN jobs
             ELSE Append(jobs, [key |-> request[r].key, settled |-> {}])
  /\ request' = [request EXCEPT ![r] = Idle]
  /\ UNCHANGED <<domainVars, changes>>

-----------------------------------------------------------------------------
(* What workers make of the queued CVs (see BackgroundJobs for how).  Results  *)
(* of shortlist tasks play no part in queueing.                                *)

Settle(i, t) ==
  /\ t \in TargetsOf(i) \ jobs[i].settled
  /\ jobs' = [jobs EXCEPT ![i].settled = @ \cup {t}]
  /\ UNCHANGED <<uploaded, usable, active, stale, request>>

\* The target is processed, or a result on file is reused.
Succeed(i, t) ==
  /\ t \in profiled \/ t \in usable \ Faulty
  /\ profiled' = profiled \cup {t}
  /\ Settle(i, t)
  /\ UNCHANGED changes

\* The target is skipped or failed.
Except(i, t) ==
  /\ t \notin profiled
  /\ \/ /\ t \in Faulty \/ t \notin usable
        /\ UNCHANGED changes
     \/ /\ t \in usable \ Faulty
        /\ changes < MaxChange
        /\ changes' = changes + 1
  /\ Settle(i, t)
  /\ UNCHANGED profiled

Exceptions(i) == jobs[i].settled \ profiled

\* retry_background_job: exceptions go back to the queue.
Retry(i) ==
  /\ Exceptions(i) # {}
  /\ jobs' = [jobs EXCEPT ![i].settled = @ \ Exceptions(i)]
  /\ UNCHANGED <<domainVars, request, changes>>

\* A recruiter extracts a profile from the candidate page.
ExtractNow(d) ==
  /\ d \in Readable \ (Faulty \cup profiled)
  /\ profiled' = profiled \cup {d}
  /\ UNCHANGED <<uploaded, usable, active, stale, jobs, request, changes>>

-----------------------------------------------------------------------------
BatchRequest(r) == SelectBatch(r) \/ LookUpBatch(r) \/ Create(r)

Next ==
  \/ \E d \in Doc : Upload(d) \/ Delete(d) \/ ExtractNow(d)
  \/ \E c \in Candidate : ChangeStatus(c)
  \/ \E m \in Run : GoStale(m)
  \/ \E r \in Recruiter :
       \/ BatchRequest(r)
       \/ \E D \in Picks : RequestDocuments(r, D)
       \/ \E m \in Run : RequestShortlist(r, m)
  \/ \E i \in DOMAIN jobs :
       \/ \E t \in TargetsOf(i) \cap Doc : Succeed(i, t) \/ Except(i, t)
       \/ Retry(i)

Spec == Init /\ [][Next]_vars

\* Fairness of workers (each task on offer is processed, see BackgroundJobs),
\* and of recruiters who ask for a batch, and retry exceptions, again and again.
FairSpec ==
  /\ Spec
  /\ \A r \in Recruiter : /\ WF_vars(LookUpBatch(r)) /\ WF_vars(Create(r))
                          /\ SF_vars(SelectBatch(r))
  /\ \A t \in Doc :
       WF_vars(\E i \in DOMAIN jobs :
                 IF t \in Faulty THEN Except(i, t) ELSE Succeed(i, t))
  /\ \A d \in Doc : WF_vars(\E i \in DOMAIN jobs : d \in Exceptions(i) /\ Retry(i))

-----------------------------------------------------------------------------
(* Properties. *)

TypeOK ==
  /\ uploaded \subseteq Doc /\ usable \subseteq uploaded
  /\ active \subseteq Candidate
  /\ profiled \subseteq uploaded
  /\ stale \subseteq Run
  /\ \A i \in DOMAIN jobs :
       jobs[i].key \in Key /\ TargetsOf(i) # {} /\ jobs[i].settled \subseteq TargetsOf(i)
  /\ request \in [Recruiter -> [at : {"idle", "looking", "creating"}, key : Key,
                                lookup : SUBSET Doc]]

\* Repeating a request resolves to the existing job, also when two recruiters
\* repeat it at once (_create_job under the organization lock).
OneJobPerKey ==
  \A i, k \in DOMAIN jobs : jobs[i].key = jobs[k].key => i = k

\* A batch takes at most one CV of each candidate.
OneCvPerCandidate ==
  \A i \in DOMAIN jobs : jobs[i].key[1] = "profile_batch" =>
    \A d, e \in TargetsOf(i) : OwnerOf[d] = OwnerOf[e] => d = e

\* "A new corrected CV has a new document ID/hash and is separately eligible": a
\* recruiter who keeps asking for a batch and retrying its exceptions gets each
\* candidate's newest CV profiled, whatever becomes of the CVs of others.
NewCvServed ==
  \A d \in Doc \ Faulty : d \in Newest ~> (d \in profiled \/ d \notin Newest)
=============================================================================
