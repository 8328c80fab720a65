------------------------- MODULE JobQueueing_proofs -------------------------
(***************************************************************************)
(* Theorems about JobQueueing, for any recruiters, CVs, candidates, runs   *)
(* and bounds.                                                             *)
(***************************************************************************)
EXTENDS JobQueueing, TLAPS

\* A row of the job table.
JobRow == [key : Key, settled : SUBSET Target]

\* The inductive invariant.  A request that is about to create a job has a
\* selection; a batch selection has one CV of each candidate, from the moment it
\* is read.
OneEach(k) ==
  k[1] = "profile_batch" => \A d, e \in k[2] : OwnerOf[d] = OwnerOf[e] => d = e

QueueInv ==
  /\ TypeOK
  /\ jobs \in Seq(JobRow)
  /\ \A r \in Recruiter : request[r].at = "creating" => request[r].key[2] # {}
  /\ \A r \in Recruiter : OneEach(request[r].key)
  /\ \A i \in DOMAIN jobs : OneEach(jobs[i].key)
  /\ OneJobPerKey

-----------------------------------------------------------------------------
\* Two CVs of a candidate cannot both be the newest.
LEMMA NewestIsOne ==
  ASSUME usable \subseteq Doc,
         NEW d \in Newest, NEW e \in Newest, OwnerOf[d] = OwnerOf[e]
  PROVE  d = e
<1>1. d \in Nat /\ e \in Nat
  BY QueueAssumption DEF Newest, Readable
<1>2. d <= e /\ e <= d
  BY DEF Newest
<1> QED
  BY <1>1, <1>2

\* A step on the settled targets of a job leaves all keys as they are.
LEMMA SettledOnly ==
  ASSUME QueueInv, NEW i \in DOMAIN jobs, NEW S, S \subseteq TargetsOf(i),
         jobs' = [jobs EXCEPT ![i].settled = S]
  PROVE  /\ jobs' \in Seq(JobRow)
         /\ DOMAIN jobs' = DOMAIN jobs
         /\ \A k \in DOMAIN jobs : jobs'[k].key = jobs[k].key
         /\ \A k \in DOMAIN jobs : jobs'[k].settled \subseteq jobs[k].key[2]
<1>0. jobs \in Seq(JobRow) /\ \A k \in DOMAIN jobs : jobs[k] \in JobRow
  BY DEF QueueInv
<1>1. \A k \in DOMAIN jobs : jobs[k] \in JobRow /\ jobs[k].key \in Key
  BY <1>0 DEF JobRow
<1>2. jobs[i].key[2] \subseteq Target /\ S \subseteq Target
  BY <1>1 DEF Key, TargetsOf
<1>3. DOMAIN jobs' = DOMAIN jobs
  BY <1>0
<1>4. [jobs[i] EXCEPT !.settled = S] \in JobRow
  BY <1>1, <1>2 DEF JobRow
<1>5. jobs' \in Seq(JobRow)
  BY <1>0, <1>4
<1>6. \A k \in DOMAIN jobs : jobs'[k].key = jobs[k].key
  BY <1>0, <1>1, <1>4 DEF JobRow
<1>7. \A k \in DOMAIN jobs : jobs'[k].settled \subseteq jobs[k].key[2]
  BY <1>0, <1>1 DEF QueueInv, JobRow, TypeOK, TargetsOf
<1> QED
  BY <1>3, <1>5, <1>6, <1>7

\* Settling or requeuing targets of a job keeps the part of the invariant that is
\* about jobs.
LEMMA SettledKeeps ==
  ASSUME QueueInv, NEW i \in DOMAIN jobs, NEW S, S \subseteq TargetsOf(i),
         jobs' = [jobs EXCEPT ![i].settled = S]
  PROVE  /\ jobs' \in Seq(JobRow)
         /\ \A k \in DOMAIN jobs' :
              /\ jobs'[k].key \in Key /\ jobs'[k].key[2] # {}
              /\ jobs'[k].settled \subseteq jobs'[k].key[2]
              /\ OneEach(jobs'[k].key)
         /\ \A k, l \in DOMAIN jobs' : jobs'[k].key = jobs'[l].key => k = l
<1>1. /\ jobs' \in Seq(JobRow)
      /\ DOMAIN jobs' = DOMAIN jobs
      /\ \A k \in DOMAIN jobs : jobs'[k].key = jobs[k].key
      /\ \A k \in DOMAIN jobs : jobs'[k].settled \subseteq jobs[k].key[2]
  BY SettledOnly
<1> QED
  BY <1>1 DEF QueueInv, TypeOK, TargetsOf, OneJobPerKey

\* No job, no request.
LEMMA QueueInit == Init => QueueInv
<1> SUFFICES ASSUME Init PROVE QueueInv
  OBVIOUS
<1>1. jobs = <<>> /\ DOMAIN jobs = {} /\ jobs \in Seq(JobRow)
  BY DEF Init
<1>2. Idle \in [at : {"idle", "looking", "creating"}, key : Key, lookup : SUBSET Doc]
  BY DEF Idle, Key
<1>3. TypeOK
  BY <1>1, <1>2 DEF Init, TypeOK
<1>4. \A r \in Recruiter : OneEach(request[r].key)
  BY DEF Init, Idle, OneEach
<1> QED
  BY <1>1, <1>3, <1>4 DEF QueueInv, OneJobPerKey, Init, Idle

\* Documents, candidates and runs may change without a word to the queue.
LEMMA DomainStep ==
  ASSUME QueueInv, UNCHANGED <<jobs, request>>,
         \/ \E d \in Doc : Upload(d) \/ Delete(d) \/ ExtractNow(d)
         \/ \E c \in Candidate : ChangeStatus(c)
         \/ \E m \in Run : GoStale(m)
  PROVE  QueueInv'
<1>1. /\ uploaded' \subseteq Doc /\ usable' \subseteq uploaded'
      /\ active' \subseteq Candidate
      /\ profiled' \subseteq uploaded'
      /\ stale' \subseteq Run
  <2>1. CASE \E d \in Doc : Upload(d)
    BY <2>1 DEF Upload, QueueInv, TypeOK
  <2>2. CASE \E d \in Doc : Delete(d)
    BY <2>2 DEF Delete, QueueInv, TypeOK
  <2>3. CASE \E d \in Doc : ExtractNow(d)
    BY <2>3 DEF ExtractNow, Readable, QueueInv, TypeOK
  <2>4. CASE \E c \in Candidate : ChangeStatus(c)
    BY <2>4 DEF ChangeStatus, QueueInv, TypeOK
  <2>5. CASE \E m \in Run : GoStale(m)
    BY <2>5 DEF GoStale, QueueInv, TypeOK
  <2> QED
    BY <2>1, <2>2, <2>3, <2>4, <2>5
<1> QED
  BY <1>1 DEF QueueInv, TypeOK, OneJobPerKey, TargetsOf

\* What a request may hold: a typed record whose selection has one CV of each
\* candidate, and is not empty once it is about to become a job.
Held(q) ==
  /\ q \in [at : {"idle", "looking", "creating"}, key : Key, lookup : SUBSET Doc]
  /\ q.at = "creating" => q.key[2] # {}
  /\ OneEach(q.key)

\* A step of one request keeps the invariant if what it holds then is sound.
LEMMA RequestStep ==
  ASSUME QueueInv, NEW r \in Recruiter, NEW q, Held(q),
         request' = [request EXCEPT ![r] = q],
         UNCHANGED <<domainVars, jobs, changes>>
  PROVE  QueueInv'
<1>1. request' \in [Recruiter -> [at : {"idle", "looking", "creating"}, key : Key,
                                  lookup : SUBSET Doc]]
  BY DEF QueueInv, TypeOK, Held
<1>2. \A s \in Recruiter : request'[s] = IF s = r THEN q ELSE request[s]
  BY DEF QueueInv, TypeOK
<1>3. \A s \in Recruiter : /\ request'[s].at = "creating" => request'[s].key[2] # {}
                           /\ OneEach(request'[s].key)
  BY <1>2 DEF QueueInv, Held
<1> QED
  BY <1>1, <1>3 DEF QueueInv, TypeOK, OneJobPerKey, TargetsOf, domainVars

\* The three ways to ask, the look-up and the refusal leave sound requests.
LEMMA AskStep ==
  ASSUME QueueInv, NEW r \in Recruiter,
         \/ SelectBatch(r) \/ LookUpBatch(r)
         \/ \E D \in Picks : RequestDocuments(r, D)
         \/ \E m \in Run : RequestShortlist(r, m)
  PROVE  QueueInv'
<1>0. Held(Idle)
  BY DEF Held, Idle, Key, OneEach
<1>1. Newest \subseteq Doc /\ Readable \subseteq Doc /\ Doc \subseteq Target /\ Run \subseteq Target
  BY DEF Newest, Readable, QueueInv, TypeOK, Target
<1>2. Held(request[r])
  BY DEF Held, QueueInv, TypeOK
<1>3. CASE SelectBatch(r)
  <2> DEFINE eligible == Newest \ profiled
             q == [at |-> "looking", key |-> <<"profile_batch", eligible>>,
                   lookup |-> LookupIds(eligible)]
  <2>1. \A d, e \in eligible : OwnerOf[d] = OwnerOf[e] => d = e
    BY NewestIsOne DEF QueueInv, TypeOK
  <2>2. Held(q)
    BY <1>1, <2>1 DEF Held, Key, OneEach, LookupIds
  <2>3. request' = [request EXCEPT ![r] = q] /\ UNCHANGED <<domainVars, jobs, changes>>
    BY <1>3 DEF SelectBatch
  <2> HIDE DEF q
  <2> QED
    BY <2>2, <2>3, RequestStep
<1>4. CASE LookUpBatch(r)
  <2>1. CASE Answered(r)
    BY <1>0, <1>4, <2>1, RequestStep DEF LookUpBatch
  <2>2. CASE ~Answered(r)
    <3>1. Held([request[r] EXCEPT !.at = "creating"])
      BY <1>2, <2>2 DEF Held, Answered
    <3> QED
      BY <1>4, <2>2, <3>1, RequestStep DEF LookUpBatch
  <2> QED
    BY <2>1, <2>2
<1>5. CASE \E D \in Picks : RequestDocuments(r, D)
  <2> PICK D \in Picks : RequestDocuments(r, D)
    BY <1>5
  <2>1. Held([at |-> "creating", key |-> <<"profile_documents", D>>, lookup |-> {}])
    BY <1>1 DEF RequestDocuments, Held, Key, OneEach
  <2> QED
    BY <2>1, RequestStep DEF RequestDocuments
<1>6. CASE \E m \in Run : RequestShortlist(r, m)
  <2> PICK m \in Run : RequestShortlist(r, m)
    BY <1>6
  <2>1. Held([at |-> "creating", key |-> <<"shortlist", {m}>>, lookup |-> {}])
    BY <1>1 DEF Held, Key, OneEach
  <2> QED
    BY <2>1, RequestStep DEF RequestShortlist
<1> QED
  BY <1>3, <1>4, <1>5, <1>6

\* A new job has a key of its own.
LEMMA CreateStep ==
  ASSUME QueueInv, NEW r \in Recruiter, Create(r)
  PROVE  QueueInv'
<1> DEFINE key == request[r].key
           row == [key |-> key, settled |-> {}]
<1>1. /\ key \in Key /\ key[2] # {} /\ OneEach(key)
      /\ row \in JobRow /\ row.key = key /\ row.settled = {}
  BY DEF Create, QueueInv, TypeOK, JobRow
<1>2. CASE KeyTaken(key)
  <2>1. request' = [request EXCEPT ![r] = Idle] /\ UNCHANGED <<domainVars, jobs, changes>>
    BY <1>2 DEF Create
  <2>2. Held(Idle)
    BY DEF Held, Idle, Key, OneEach
  <2> QED
    BY <2>1, <2>2, RequestStep
<1>3. CASE ~KeyTaken(key)
  <2> HIDE DEF row
  <2>1. jobs' = Append(jobs, row)
    BY <1>3 DEF Create, row
  <2>2. /\ jobs' \in Seq(JobRow)
        /\ DOMAIN jobs' = DOMAIN jobs \cup {Len(jobs) + 1}
        /\ \A k \in DOMAIN jobs : k # Len(jobs) + 1 /\ jobs'[k] = jobs[k]
        /\ jobs'[Len(jobs) + 1] = row
    BY <1>1, <2>1 DEF QueueInv
  <2>3. \A k \in DOMAIN jobs' :
          /\ jobs'[k].key \in Key /\ jobs'[k].key[2] # {}
          /\ jobs'[k].settled \subseteq jobs'[k].key[2]
          /\ OneEach(jobs'[k].key)
    BY <1>1, <2>2 DEF QueueInv, TypeOK, TargetsOf
  <2>4. \A k, l \in DOMAIN jobs' : jobs'[k].key = jobs'[l].key => k = l
    BY <1>1, <1>3, <2>2 DEF QueueInv, OneJobPerKey, KeyTaken
  <2>5. /\ request' \in [Recruiter -> [at : {"idle", "looking", "creating"}, key : Key,
                                       lookup : SUBSET Doc]]
        /\ \A s \in Recruiter : request'[s] = IF s = r THEN Idle ELSE request[s]
    BY DEF Create, QueueInv, TypeOK, Idle, Key
  <2>6. \A s \in Recruiter : /\ request'[s].at = "creating" => request'[s].key[2] # {}
                             /\ OneEach(request'[s].key)
    BY <2>5 DEF QueueInv, Idle, OneEach
  <2> QED
    BY <2>2, <2>3, <2>4, <2>5, <2>6
    DEF Create, domainVars, QueueInv, TypeOK, OneJobPerKey, TargetsOf
<1> QED
  BY <1>2, <1>3

\* Workers and retries touch the settled targets of a job, and the profiles.
LEMMA WorkStep ==
  ASSUME QueueInv, NEW i \in DOMAIN jobs,
         \/ \E t \in TargetsOf(i) \cap Doc : Succeed(i, t) \/ Except(i, t)
         \/ Retry(i)
  PROVE  QueueInv'
<1>1. PICK S \in SUBSET TargetsOf(i) : jobs' = [jobs EXCEPT ![i].settled = S]
  <2>1. jobs[i].settled \subseteq TargetsOf(i)
    BY DEF QueueInv, TypeOK
  <2>2. CASE \E t \in TargetsOf(i) \cap Doc : Succeed(i, t) \/ Except(i, t)
    BY <2>1, <2>2 DEF Succeed, Except, Settle
  <2>3. CASE Retry(i)
    BY <2>1, <2>3 DEF Retry
  <2> QED
    BY <2>2, <2>3
<1>2. /\ UNCHANGED <<uploaded, usable, active, stale, request>>
      /\ profiled' \subseteq uploaded
  BY DEF Succeed, Except, Settle, Retry, domainVars, QueueInv, TypeOK
<1>3. /\ jobs' \in Seq(JobRow)
      /\ \A k \in DOMAIN jobs' :
           /\ jobs'[k].key \in Key /\ jobs'[k].key[2] # {}
           /\ jobs'[k].settled \subseteq jobs'[k].key[2]
           /\ OneEach(jobs'[k].key)
      /\ \A k, l \in DOMAIN jobs' : jobs'[k].key = jobs'[l].key => k = l
  BY <1>1, SettledKeeps
<1> QED
  BY <1>2, <1>3 DEF QueueInv, TypeOK, OneJobPerKey, TargetsOf

\* Every step keeps the invariant.
LEMMA QueueStep == QueueInv /\ [Next]_vars => QueueInv'
<1> SUFFICES ASSUME QueueInv, [Next]_vars PROVE QueueInv'
  OBVIOUS
<1>1. CASE UNCHANGED vars
  BY <1>1 DEF vars, domainVars, QueueInv, TypeOK, OneJobPerKey, TargetsOf
<1>2. CASE \/ \E d \in Doc : Upload(d) \/ Delete(d) \/ ExtractNow(d)
           \/ \E c \in Candidate : ChangeStatus(c)
           \/ \E m \in Run : GoStale(m)
  <2>1. UNCHANGED <<jobs, request>>
    BY <1>2 DEF Upload, Delete, ExtractNow, ChangeStatus, GoStale
  <2> QED
    BY <1>2, <2>1, DomainStep
<1>3. ASSUME NEW r \in Recruiter,
             \/ BatchRequest(r)
             \/ \E D \in Picks : RequestDocuments(r, D)
             \/ \E m \in Run : RequestShortlist(r, m)
      PROVE  QueueInv'
  BY <1>3, AskStep, CreateStep DEF BatchRequest
<1>4. ASSUME NEW i \in DOMAIN jobs,
             \/ \E t \in TargetsOf(i) \cap Doc : Succeed(i, t) \/ Except(i, t)
             \/ Retry(i)
      PROVE  QueueInv'
  BY <1>4, WorkStep
<1> QED
  BY <1>1, <1>2, <1>3, <1>4 DEF Next

-----------------------------------------------------------------------------
\* The invariant holds throughout.
LEMMA Queued == Spec => []QueueInv
<1> QED
  BY QueueInit, QueueStep, PTL DEF Spec

\* Documents, profiles, jobs and requests keep their types, and no job is empty.
THEOREM QueueTypeCorrect == Spec => []TypeOK
<1>1. QueueInv => TypeOK
  BY DEF QueueInv
<1> QED
  BY <1>1, Queued, PTL

\* However many recruiters repeat a request at once, one job has its key:
\* _create_job looks the key up under the organization lock.
THEOREM KeysAreUnique == Spec => []OneJobPerKey
<1>1. QueueInv => OneJobPerKey
  BY DEF QueueInv
<1> QED
  BY <1>1, Queued, PTL

\* A batch has one CV of each candidate, also when CVs come and go between the
\* selection and the creation of the job.
THEOREM BatchesHaveOneCvEach == Spec => []OneCvPerCandidate
<1>1. QueueInv => OneCvPerCandidate
  BY DEF QueueInv, OneEach, OneCvPerCandidate, TargetsOf
<1> QED
  BY <1>1, Queued, PTL

=============================================================================
