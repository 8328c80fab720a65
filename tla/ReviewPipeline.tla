--------------------------- MODULE ReviewPipeline ---------------------------
(***************************************************************************)
(* From a shortlist to a message: matching/scoring.py, staleness.py,       *)
(* ai_assessment.py, decisions.py, outreach/generation.py and workflow.py, *)
(* against everything that changes their inputs: profile corrections and   *)
(* confirmations, corrected sources, new requirements, vacancy and         *)
(* candidate deletion and the retention of old runs and drafts.            *)
(*                                                                         *)
(* One vacancy and one candidate.  A shortlist run r stores what it read   *)
(* of the inputs and, if the candidate qualifies, an entry; on the entry   *)
(* stand numbered assessments, decisions and drafts, and the approvals and *)
(* uses of drafts.  Each operation is a transaction txn[a] that takes row  *)
(* locks, checks, and writes; READ COMMITTED lets rows that are not locked *)
(* change between the check and the write.                                 *)
(*                                                                         *)
(*   (reading or asking) -> deciding or collecting -> writing -> idle      *)
(*                                                                         *)
(* The AI call of an assessment or a draft ends the asking, without locks. *)
(* What an assessment, a decision or a draft says is left out.             *)
(***************************************************************************)
EXTENDS Integers, Sequences, FiniteSets, SequencesExt

CONSTANTS
  Actor,      \* requests of recruiters and administrators, retention runs
  Run,        \* match runs: 1, 2, ... in the order they are saved
  Fact,       \* values of the candidate facts a recruiter edits
  FirstFact,  \* the ones on file at the start
  Suits,      \* <<requirements version, profile version, facts>> that pass all rules
  Clash,      \* <<facts, profile version>> that conflict
  MaxProfile, MaxRequirement,  \* bounds on versions
  MaxRow,     \* bound on assessments, decisions, drafts and uses together
  MaxDraft,   \* bound on the version number of a draft
  MaxChange   \* bound on recruiter edits beside the pipeline

ASSUME ReviewAssumption ==
  /\ MaxProfile \in Nat \ {0} /\ MaxRequirement \in Nat \ {0}
  /\ MaxRow \in Nat /\ MaxDraft \in Nat /\ MaxChange \in Nat
  /\ Run \subseteq Nat \ {0} /\ IsFiniteSet(Run)
  /\ FirstFact \in Fact

VARIABLES
  requirement,     \* version of the current confirmed VacancyRequirements
  vacancyDeleted,  \* Vacancy.deleted_at is set
  status,          \* Candidate.status
  facts,           \* the candidate facts of the input signature
  versions,        \* CandidateProfile rows, numbered from 1
  confirmed,       \* those that are confirmed
  permitted,       \* assess_contact_permission over the candidate's sources
  run,             \* [Run -> MatchRun]
  assessments,     \* [Run -> profiles assessed, in version order]
  decisions,       \* [Run -> assessment versions decided, in version order]
  drafts,          \* [Run -> set of draft rows]
  approved,        \* [Run -> versions of drafts with a final approval]
  used,            \* [Run -> drafts used externally, in order]
  txn,             \* each actor's transaction
  changes

inputs == <<requirement, vacancyDeleted, status, facts, versions, confirmed, permitted>>
history == <<run, assessments, decisions, drafts, approved, used>>
vars == <<inputs, history, txn, changes>>

-----------------------------------------------------------------------------
(* Rows and locks. *)

EntryRow(r)   == <<"entry", r>>
ProfileRow(p) == <<"profile", p>>
CandidateRow  == <<"candidate", 0>>
SourceRows    == <<"sources", 0>>
VacancyRow    == <<"vacancy", 0>>
RequirementsRow(q) == <<"requirements", q>>
Organization  == <<"organization", 0>>

\* Mutants: a draft operation leaves the candidate unlocked or locks him first,
\* a decision does not lock the entry, an assessment locks no candidate.
DraftLocksFew(r) == <<EntryRow(r), SourceRows>>
DraftLocksSwapped(r) == <<CandidateRow, EntryRow(r), SourceRows>>
DecideLocksNone(r) == <<>>
AssessLocksFew(r, p) == <<EntryRow(r), VacancyRow>>

\* A query for update locks the rows it joins too; a later query for one of
\* these finds it locked.
AssessLocks(r, p) == <<EntryRow(r), CandidateRow, RequirementsRow(run[r].requirement),
                       VacancyRow, ProfileRow(p)>>
DecideLocks(r)    == <<EntryRow(r)>>
DraftLocks(r)     == <<EntryRow(r), CandidateRow, SourceRows>>
ProfileLocks(p)   == <<ProfileRow(p), CandidateRow>>
CorrectLocks(p)   == <<ProfileRow(p), CandidateRow, Organization>>
SourceLocks       == <<SourceRows, CandidateRow, Organization>>

\* A query for update locks the rows it returns one by one, in id order.
InIdOrder(S) == {s \in [1 .. Cardinality(S) -> S] :
                   /\ \A j, k \in DOMAIN s : j < k => s[j] < s[k]
                   /\ \A x \in S : \E k \in DOMAIN s : s[k] = x}

None == [exists |-> FALSE]  \* a run not yet saved
Gone == [exists |-> FALSE, purged |-> TRUE]
Idle == [op |-> "none", run |-> 0, arg |-> 0, stage |-> "idle", todo |-> <<>>,
         held |-> {}, seen |-> None]

Free(row) == \A a \in Actor : row \notin txn[a].held

\* The rows that hang on an entry, as far as deletions and inserts meet there.
RowsOf(r) == <<"rows", r>>

\* The commit checks the foreign keys of the rows written, which are deferred:
\* it takes share locks on the rows they name, and waits for who locked or
\* deletes them.  Audit events and new skills name the organization.
ShareRows(a) ==
  CASE txn[a].op \in {"update", "request", "cancel", "delete vacancy", "confirm", "purge"} ->
         {Organization}
    [] txn[a].op = "shortlist" -> {RequirementsRow(txn[a].seen.requirement)}
                                  \cup IF txn[a].seen.entry THEN {CandidateRow} ELSE {}
    [] txn[a].op \in {"decide", "generate", "edit", "approve", "use"} -> {RowsOf(txn[a].run)}
    [] OTHER -> {}
AtCommit(a) == txn[a].stage = "writing" /\ txn[a].todo = <<>>
Shares(a) == \A b \in Actor \ {a} : ShareRows(a) \cap txn[b].held = {}

\* The rows a deletion deletes before the entries it has yet to lock.
Deletes(b) == IF txn[b].stage # "writing" THEN {}
              ELSE CASE txn[b].op \in {"retain run", "retain chain"} -> {RowsOf(txn[b].run)}
                     [] txn[b].op = "purge" -> {RowsOf(r) : r \in DOMAIN txn[b].seen}
                     [] OTHER -> {}
Taken(b) == txn[b].held \cup Deletes(b)

\* Transactions that may wait for one another: for a row to lock or to share, or
\* for a commit that shares one row already and waits for another.
WaitsFor(a, b) ==
  /\ a # b
  /\ \/ txn[a].todo # <<>> /\ Head(txn[a].todo) \in txn[b].held
     \/ AtCommit(a) /\ ShareRows(a) \cap Taken(b) # {}
     \/ txn[a].todo # <<>> /\ AtCommit(b) /\ Head(txn[a].todo) \in ShareRows(b)
Deadlocked(S) == S # {} /\ \A a \in S : \E b \in S : WaitsFor(a, b)

-----------------------------------------------------------------------------
(* What the checks compare. *)

Editable == status = "active"

\* Candidate.current_profile: the newest confirmed version, 0 if there is none.
CurrentProfile == IF confirmed = {} THEN 0 ELSE CHOOSE p \in confirmed : \A q \in confirmed : q <= p

NoInput == [counted |-> FALSE]

\* candidate_input_signature: only an active candidate counts.  A confirmation
\* replaces the skill records, so these are told apart by their profile.
Signature(f, skills, p) == [counted |-> TRUE, facts |-> f, skills |-> skills, profile |-> p]
CurrentInput == IF status = "active" THEN Signature(facts, CurrentProfile, CurrentProfile)
                ELSE NoInput

\* Mutant: facts edited by hand are not part of the signature.
StaleByProfile(r) ==
  \/ vacancyDeleted \/ run[r].requirement # requirement
  \/ run[r].input.counted # CurrentInput.counted
  \/ run[r].input.counted /\ run[r].input.profile # CurrentProfile

\* assess_match_run_staleness.
Stale(r) == vacancyDeleted \/ run[r].requirement # requirement \/ run[r].input # CurrentInput

\* CandidateFilterResult.is_shortlist_eligible.
Eligible(q, p, f) == p # 0 /\ <<q, p, f>> \in Suits

HasEntry(r) == run[r].exists /\ run[r].entry

\* assess_review_decision_eligibility for version v of an entry's assessments.
Decidable(r, v) ==
  /\ status = "active"
  /\ v # 0 /\ v = Len(assessments[r])
  /\ assessments[r][v] = CurrentProfile
  /\ Eligible(run[r].requirement, CurrentProfile, facts)
  /\ ~Stale(r)

\* Mutant: a draft may follow from a decision that was corrected since.
DraftableFromAny(r, d) == d \in DOMAIN decisions[r] /\ Decidable(r, decisions[r][d])

\* assess_outreach_draft_eligibility for decision d.
Draftable(r, d) == /\ d # 0 /\ d = Len(decisions[r])
                   /\ Decidable(r, decisions[r][d])

DraftNumbers(r) == {d.version : d \in drafts[r]}
LatestDraft(r) == IF drafts[r] = {} THEN 0
                  ELSE CHOOSE v \in DraftNumbers(r) : \A w \in DraftNumbers(r) : w <= v
DraftRow(r, v) == CHOOSE d \in drafts[r] : d.version = v

\* The bounds on rows, a guard of every request that adds one.
Room == MaxRow > FoldSet(LAMBDA r, n : n + Len(assessments[r]) + Len(decisions[r])
                                         + Cardinality(drafts[r]) + Len(used[r]), 0, Run)

DraftRoom(r) == Room /\ LatestDraft(r) < MaxDraft

\* _assess_current_draft_boundary.
CurrentDraft(r, v) == /\ v \in DraftNumbers(r) /\ v = LatestDraft(r)
                      /\ Draftable(r, DraftRow(r, v).decision)

Init ==
  /\ requirement = 1 /\ vacancyDeleted = FALSE
  /\ status = "active" /\ facts = FirstFact
  /\ versions = 1 /\ confirmed = {1}
  /\ permitted = TRUE
  /\ run = [r \in Run |-> None]
  /\ assessments = [r \in Run |-> <<>>] /\ decisions = [r \in Run |-> <<>>]
  /\ drafts = [r \in Run |-> {}] /\ approved = [r \in Run |-> {}]
  /\ used = [r \in Run |-> <<>>]
  /\ txn = [a \in Actor |-> Idle] /\ changes = 0

-----------------------------------------------------------------------------
(* The life of a transaction. *)

\* A transaction that waits for its first lock has read nothing that counts and
\* holds nothing: it begins when it gets the lock, with its check if it has one
\* lock only.
Begin(a, op, r, arg, stage, locks) ==
  /\ locks # <<>> => Free(Head(locks))
  /\ txn' = [txn EXCEPT ![a] =
                [Idle EXCEPT !.op = op, !.run = r, !.arg = arg, !.stage = stage,
                             !.todo = IF locks = <<>> THEN <<>> ELSE Tail(locks),
                             !.held = IF locks = <<>> THEN {} ELSE {Head(locks)}]]
  /\ UNCHANGED <<inputs, history, changes>>

Start(a, op, r, arg, stage, locks) == txn[a] = Idle /\ Begin(a, op, r, arg, stage, locks)

Lock(a) ==
  /\ txn[a].todo # <<>>
  /\ \A b \in Actor \ {a} : Head(txn[a].todo) \notin txn[b].held
  /\ txn' = [txn EXCEPT ![a].held = @ \cup {Head(txn[a].todo)}, ![a].todo = Tail(@)]
  /\ UNCHANGED <<inputs, history, changes>>

Ready(a, ops, stage) == txn[a].op \in ops /\ txn[a].stage = stage /\ txn[a].todo = <<>>

End(a) == txn' = [txn EXCEPT ![a] = Idle]
Refuse(a) == End(a) /\ UNCHANGED <<inputs, history, changes>>
Proceed(a, stage, locks) ==
  /\ txn' = [txn EXCEPT ![a].stage = stage, ![a].todo = locks]
  /\ UNCHANGED <<inputs, history, changes>>

\* The request goes on to its write if the check passes and fails otherwise.
Checked(a, check) == IF check THEN Proceed(a, "writing", <<>>) ELSE Refuse(a)

\* An error of the AI service or the database, the victim of a deadlock or the
\* end of the process: nothing of the transaction stays.
Fail(a) == txn[a].op # "none" /\ Refuse(a)

-----------------------------------------------------------------------------
(* generate_shortlist: one transaction without a lock, one query per step. *)

See(a, stage, field, value) ==
  /\ txn' = [txn EXCEPT ![a].stage = stage, ![a].seen[field] = value]
  /\ UNCHANGED <<inputs, history, changes>>

Unsaved == {r \in Run : run[r] = None}

\* Bound: there is a number left for every shortlist under way.
StartShortlist(a) ==
  /\ ~vacancyDeleted
  /\ Cardinality({b \in Actor : txn[b].op = "shortlist"}) < Cardinality(Unsaved)
  /\ txn[a] = Idle
  /\ txn' = [txn EXCEPT ![a] = [Idle EXCEPT !.op = "shortlist", !.stage = "candidates",
                !.seen = [exists |-> TRUE, requirement |-> requirement, input |-> NoInput,
                          ranked |-> 0, entry |-> FALSE]]]
  /\ UNCHANGED <<inputs, history, changes>>

ReadCandidates(a) ==
  /\ Ready(a, {"shortlist"}, "candidates")
  /\ CASE vacancyDeleted -> Refuse(a)
       [] ~vacancyDeleted /\ status = "active" -> See(a, "skills", "input", Signature(facts, 0, 0))
       [] OTHER -> Proceed(a, "writing", <<>>)

ReadSkills(a) ==
  /\ Ready(a, {"shortlist"}, "skills")
  /\ See(a, "profiles", "input", [txn[a].seen.input EXCEPT !.skills = CurrentProfile])

ReadProfiles(a) ==
  /\ Ready(a, {"shortlist"}, "profiles")
  /\ See(a, "ranking", "input", [txn[a].seen.input EXCEPT !.profile = CurrentProfile])

\* score_candidate_relevance asks for the current profile once more.
Rank(a) ==
  LET seen == txn[a].seen
      passed == Eligible(seen.requirement, seen.input.profile, seen.input.facts)
  IN
  /\ Ready(a, {"shortlist"}, "ranking")
  /\ txn' = [txn EXCEPT ![a].stage = "writing", ![a].seen.entry = passed,
                        ![a].seen.ranked = IF passed THEN CurrentProfile ELSE 0]
  /\ UNCHANGED <<inputs, history, changes>>

SaveRun(a) ==
  /\ Ready(a, {"shortlist"}, "writing") /\ Shares(a)
  /\ \E r \in Unsaved : /\ \A s \in Unsaved : r <= s
                        /\ run' = [run EXCEPT ![r] = txn[a].seen]
  /\ End(a)
  /\ UNCHANGED <<inputs, assessments, decisions, drafts, approved, used, changes>>

Shortlist(a) == \/ StartShortlist(a) \/ ReadCandidates(a) \/ ReadSkills(a)
                \/ ReadProfiles(a) \/ Rank(a) \/ SaveRun(a)

-----------------------------------------------------------------------------
(* assess_shortlist_entry: the checks before the AI call hold no lock. *)

StartAssess(a) == \E r \in Run :
  /\ HasEntry(r) /\ Room
  /\ status = "active"
  /\ Eligible(run[r].requirement, CurrentProfile, facts)
  /\ ~Stale(r)
  /\ Start(a, "assess", r, CurrentProfile, "asking", <<>>)

HearAssessment(a) == LET r == txn[a].run p == txn[a].arg IN
  /\ Ready(a, {"assess"}, "asking")
  /\ IF HasEntry(r) THEN Begin(a, "assess", r, p, "deciding", AssessLocks(r, p)) ELSE Refuse(a)

CheckAssess(a) == LET r == txn[a].run IN
  /\ Ready(a, {"assess"}, "deciding")
  /\ Checked(a, /\ HasEntry(r) /\ Room
                /\ status = "active" /\ CurrentProfile = txn[a].arg
                /\ ~Stale(r))

SaveAssessment(a) ==
  /\ Ready(a, {"assess"}, "writing")
  /\ assessments' = [assessments EXCEPT ![txn[a].run] = Append(@, txn[a].arg)]
  /\ End(a)
  /\ UNCHANGED <<inputs, run, decisions, drafts, approved, used, changes>>

Assess(a) == StartAssess(a) \/ HearAssessment(a) \/ CheckAssess(a) \/ SaveAssessment(a)

-----------------------------------------------------------------------------
(* record_review_decision: checked with the entry locked. *)

CheckDecide(a) == \E r \in Run : \E v \in DOMAIN assessments[r] :
  /\ Room /\ HasEntry(r) /\ Decidable(r, v)
  /\ Start(a, "decide", r, v, "writing", DecideLocks(r))

SaveDecision(a) ==
  /\ Ready(a, {"decide"}, "writing")
  /\ decisions' = [decisions EXCEPT ![txn[a].run] = Append(@, txn[a].arg)]
  /\ End(a)
  /\ UNCHANGED <<inputs, run, assessments, drafts, approved, used, changes>>

Decide(a) == CheckDecide(a) \/ SaveDecision(a)

-----------------------------------------------------------------------------
(* generate_outreach_draft: checked before the AI call and again after it,   *)
(* with the entry locked.                                                    *)

StartDraft(a) == \E r \in Run : \E d \in DOMAIN decisions[r] :
  /\ HasEntry(r) /\ DraftRoom(r) /\ Draftable(r, d)
  /\ Start(a, "generate", r, d, "asking", <<>>)

HearDraft(a) == LET r == txn[a].run d == txn[a].arg IN
  /\ Ready(a, {"generate"}, "asking")
  /\ IF HasEntry(r) /\ DraftRoom(r) /\ Draftable(r, d)
     THEN Begin(a, "generate", r, d, "writing", DecideLocks(r))
     ELSE Refuse(a)

\* Mutant: drafts are numbered by how many there are.
AddDraftCounted(r, d, parent) ==
  drafts' = [drafts EXCEPT ![r] = @ \cup {[version |-> Cardinality(@) + 1,
                                           decision |-> d, parent |-> parent]}]

\* Mutant: an edit overwrites the draft it continues.
AddDraftInPlace(r, d, parent) ==
  drafts' = [drafts EXCEPT ![r] = {e \in @ : e.version # parent} \cup
               {[version |-> IF parent = 0 THEN LatestDraft(r) + 1 ELSE parent,
                 decision |-> d, parent |-> parent]}]

AddDraft(r, d, parent) ==
  drafts' = [drafts EXCEPT ![r] = @ \cup {[version |-> LatestDraft(r) + 1,
                                           decision |-> d, parent |-> parent]}]

SaveDraft(a) ==
  /\ Ready(a, {"generate"}, "writing")
  /\ AddDraft(txn[a].run, txn[a].arg, 0)
  /\ End(a)
  /\ UNCHANGED <<inputs, run, assessments, decisions, approved, used, changes>>

Generate(a) == StartDraft(a) \/ HearDraft(a) \/ SaveDraft(a)

-----------------------------------------------------------------------------
(* edit_outreach_draft, approve_outreach_draft, record_outreach_draft_action: *)
(* the outreach requests on version v of an entry's drafts.                   *)

DraftOp == {"edit", "approve", "use"}

\* assess_draft_edit_, assess_final_approval_, assess_manual_action_eligibility.
Allowed(op, r, v) ==
  /\ HasEntry(r) /\ CurrentDraft(r, v)
  /\ op = "edit" => DraftRoom(r)
  /\ op = "approve" => v \notin approved[r] /\ permitted
  /\ op = "use" => Room /\ permitted

StartDraftOp(a) == \E op \in DraftOp, r \in Run : \E v \in DraftNumbers(r) :
  Start(a, op, r, v, "deciding", DraftLocks(r))

CheckDraftOp(a) ==
  /\ Ready(a, DraftOp, "deciding")
  /\ Checked(a, Allowed(txn[a].op, txn[a].run, txn[a].arg))

\* Rows that name the draft cannot be inserted once retention has deleted it.
DraftStands(a) == txn[a].arg \in DraftNumbers(txn[a].run)

SaveEdit(a) == LET r == txn[a].run v == txn[a].arg IN
  /\ Ready(a, {"edit"}, "writing") /\ DraftStands(a)
  /\ AddDraft(r, DraftRow(r, v).decision, v)
  /\ End(a)
  /\ UNCHANGED <<inputs, run, assessments, decisions, approved, used, changes>>

SaveApproval(a) ==
  /\ Ready(a, {"approve"}, "writing") /\ DraftStands(a)
  /\ approved' = [approved EXCEPT ![txn[a].run] = @ \cup {txn[a].arg}]
  /\ End(a)
  /\ UNCHANGED <<inputs, run, assessments, decisions, drafts, used, changes>>

\* The use of a draft that has no approval approves it first.
SaveUse(a) ==
  /\ Ready(a, {"use"}, "writing") /\ DraftStands(a)
  /\ approved' = [approved EXCEPT ![txn[a].run] = @ \cup {txn[a].arg}]
  /\ used' = [used EXCEPT ![txn[a].run] = Append(@, txn[a].arg)]
  /\ End(a)
  /\ UNCHANGED <<inputs, run, assessments, decisions, drafts, changes>>

Outreach(a) == \/ StartDraftOp(a) \/ CheckDraftOp(a) \/ SaveEdit(a)
               \/ SaveApproval(a) \/ SaveUse(a)

-----------------------------------------------------------------------------
(* What changes the inputs.                                                   *)

\* Pages offer drafts of a profile to confirm, not what is confirmed already.
StartConfirm(a) == \E p \in (1..versions) \ confirmed : Start(a, "confirm", 0, p, "writing", ProfileLocks(p))

Confirm(a) == LET p == txn[a].arg IN
  /\ Ready(a, {"confirm"}, "writing")
  /\ IF /\ Editable /\ p \in (1..versions) \ confirmed
        /\ \A q \in confirmed : q <= p
        /\ <<facts, p>> \notin Clash
     THEN /\ confirmed' = confirmed \cup {p}
          /\ End(a)
          /\ UNCHANGED <<requirement, vacancyDeleted, status, facts, versions, permitted,
                         history, changes>>
     ELSE Refuse(a)

StartCorrect(a) == \E p \in 1..versions :
  /\ versions < MaxProfile
  /\ Start(a, "correct", 0, p, "writing", CorrectLocks(p))

\* A correction may be saved and confirmed at once; a clash then undoes both.
Correct(a) ==
  /\ Ready(a, {"correct"}, "writing")
  /\ \E corrected \in {{}, {versions + 1}} :
       IF /\ Editable /\ txn[a].arg <= versions /\ versions < MaxProfile
          /\ \A p \in corrected : <<facts, p>> \notin Clash
       THEN /\ versions' = versions + 1 /\ confirmed' = confirmed \cup corrected
            /\ End(a)
            /\ UNCHANGED <<requirement, vacancyDeleted, status, facts, permitted,
                           history, changes>>
       ELSE Refuse(a)

StartSource(a) == changes < MaxChange /\ Start(a, "source", 0, 0, "writing", SourceLocks)

UpdateSource(a) ==
  /\ Ready(a, {"source"}, "writing")
  /\ IF Editable /\ changes < MaxChange
     THEN /\ permitted' = ~permitted /\ changes' = changes + 1
          /\ End(a)
          /\ UNCHANGED <<requirement, vacancyDeleted, status, facts, versions, confirmed, history>>
     ELSE Refuse(a)

\* One lock, then an audit event: what they check stands until they commit.
StartChange(a) == /\ changes < MaxChange
                  /\ \/ Editable /\ Start(a, "update", 0, 0, "writing", <<CandidateRow>>)
                     \/ status = "active" /\ Start(a, "request", 0, 0, "writing", <<CandidateRow>>)
                     \/ ~vacancyDeleted /\ Start(a, "delete vacancy", 0, 0, "writing", <<VacancyRow>>)

StartCancel(a) == status = "requested" /\ Start(a, "cancel", 0, 0, "writing", <<CandidateRow>>)

Change == changes < MaxChange /\ changes' = changes + 1

UpdateCandidate(a) ==
  /\ Ready(a, {"update"}, "writing") /\ Shares(a)
  /\ Change
  /\ facts' \in Fact
  /\ End(a)
  /\ UNCHANGED <<requirement, vacancyDeleted, status, versions, confirmed, permitted, history>>

SetStatus(a, new) ==
  /\ Shares(a)
  /\ status' = new
  /\ End(a)
  /\ UNCHANGED <<requirement, vacancyDeleted, facts, versions, confirmed, permitted, history>>

RequestDeletion(a) == Ready(a, {"request"}, "writing") /\ Change /\ SetStatus(a, "requested")
CancelDeletion(a) ==
  Ready(a, {"cancel"}, "writing") /\ SetStatus(a, "active") /\ UNCHANGED changes

DeleteVacancy(a) ==
  /\ Ready(a, {"delete vacancy"}, "writing") /\ Shares(a)
  /\ Change
  /\ vacancyDeleted' = TRUE
  /\ End(a)
  /\ UNCHANGED <<requirement, status, facts, versions, confirmed, permitted, history>>

Curate(a) == \/ StartConfirm(a) \/ Confirm(a) \/ StartCorrect(a) \/ Correct(a)
             \/ StartSource(a) \/ UpdateSource(a) \/ StartChange(a) \/ StartCancel(a)
             \/ UpdateCandidate(a) \/ RequestDeletion(a) \/ CancelDeletion(a) \/ DeleteVacancy(a)

\* It locks the draft of the new requirements, which nobody here waits for.
ConfirmRequirements ==
  /\ Change /\ ~vacancyDeleted /\ requirement < MaxRequirement
  /\ requirement' = requirement + 1
  /\ UNCHANGED <<vacancyDeleted, status, facts, versions, confirmed, permitted, history, txn>>

-----------------------------------------------------------------------------
(* Deletions collect the rows that hang on their targets and then delete them. *)
(* A row added in between would point to a deleted one: the commit fails.      *)

Rows(r) == [assessments |-> assessments[r], decisions |-> decisions[r],
            drafts |-> drafts[r], approved |-> approved[r], used |-> used[r]]

\* Mutant: the purge follows the newest run only.
NewestEntries == {r \in Run : HasEntry(r) /\ \A s \in Run : run[s].exists => s <= r}

Entries == {r \in Run : HasEntry(r)}

NothingNew(now, seen) ==
  /\ IsPrefix(now.assessments, seen.assessments) /\ IsPrefix(now.decisions, seen.decisions)
  /\ now.drafts \subseteq seen.drafts /\ now.approved \subseteq seen.approved
  /\ IsPrefix(now.used, seen.used)

Nothing == [assessments |-> <<>>, decisions |-> <<>>, drafts |-> {}, approved |-> {}, used |-> <<>>]

\* The rows of the entries S become what.
SetRows(S, what) ==
  /\ assessments' = [r \in Run |-> IF r \in S THEN what.assessments ELSE assessments[r]]
  /\ decisions' = [r \in Run |-> IF r \in S THEN what.decisions ELSE decisions[r]]
  /\ drafts' = [r \in Run |-> IF r \in S THEN what.drafts ELSE drafts[r]]
  /\ approved' = [r \in Run |-> IF r \in S THEN what.approved ELSE approved[r]]
  /\ used' = [r \in Run |-> IF r \in S THEN what.used ELSE used[r]]

\* delete_candidate: documents with their profiles, sources, then shortlist entries.
CheckPurge(a) ==
  /\ status = "requested"
  /\ Start(a, "purge", 0, 0, "collecting",
           <<CandidateRow>> \o [p \in 1..versions |-> ProfileRow(p)] \o <<SourceRows>>)

CollectPurge(a) ==
  /\ Ready(a, {"purge"}, "collecting")
  /\ \E order \in InIdOrder(Entries) :
       txn' = [txn EXCEPT ![a].stage = "writing", ![a].seen = [r \in Entries |-> Rows(r)],
                          ![a].todo = [k \in DOMAIN order |-> EntryRow(order[k])]]
  /\ UNCHANGED <<inputs, history, changes>>

Purge(a) == LET seen == txn[a].seen S == DOMAIN seen IN
  /\ Ready(a, {"purge"}, "writing") /\ Shares(a)
  /\ IF \A r \in S : NothingNew(Rows(r), seen[r])
     THEN /\ SetRows(S, Nothing)
          /\ run' = [r \in Run |-> IF r \in S /\ HasEntry(r)
                                   THEN [run[r] EXCEPT !.entry = FALSE] ELSE run[r]]
          /\ status' = "deleted" /\ versions' = 0 /\ confirmed' = {} /\ permitted' = FALSE
          /\ End(a)
          /\ UNCHANGED <<requirement, vacancyDeleted, facts, changes>>
     ELSE Refuse(a)

\* apply_retention_plan.  The plan is made with the organization locked; age and
\* exceptions may keep any row out of it.
Latest(r) == run[r].exists /\ \A s \in Run : run[s].exists => s <= r
Obsolete(r) == run[r].exists /\ ~Latest(r) /\ decisions[r] = <<>>
Abandoned(r) == drafts[r] # {} /\ approved[r] = {} /\ used[r] = <<>>

PlanRetention(a) == \E r \in Run :
  \/ Obsolete(r) /\ Start(a, "retain run", r, 0, "collecting", <<Organization>>)
  \/ /\ Abandoned(r) /\ ~Obsolete(r)
     /\ Start(a, "retain chain", r, 0, "collecting", <<Organization>>)

\* Only the run's entry is a row that others lock.
CollectRetention(a) == LET r == txn[a].run IN
  /\ Ready(a, {"retain run", "retain chain"}, "collecting")
  /\ txn' = [txn EXCEPT ![a].stage = "writing", ![a].seen = Rows(r),
                ![a].todo = IF txn[a].op = "retain run" /\ HasEntry(r) THEN <<EntryRow(r)>> ELSE <<>>]
  /\ UNCHANGED <<inputs, history, changes>>

RetainRun(a) == LET r == txn[a].run IN
  /\ Ready(a, {"retain run"}, "writing")
  /\ IF NothingNew(Rows(r), txn[a].seen)
     THEN /\ SetRows({r}, Nothing)
          /\ run' = [run EXCEPT ![r] = Gone]
          /\ End(a)
          /\ UNCHANGED <<inputs, changes>>
     ELSE Refuse(a)

\* A generated draft is no child of the collected ones and stays; the collected
\* uses go.
RetainChain(a) ==
  LET r == txn[a].run
      seen == txn[a].seen
      gone == {d.version : d \in seen.drafts}
      kept == drafts[r] \ seen.drafts
  IN
  /\ Ready(a, {"retain chain"}, "writing")
  /\ IF /\ \A d \in kept : d.parent \notin gone
        /\ approved[r] \cap gone \subseteq seen.approved
        /\ \A k \in DOMAIN used[r] : used[r][k] \in gone => k <= Len(seen.used)
     THEN /\ SetRows({r}, [Rows(r) EXCEPT !.drafts = kept,
                             !.approved = @ \ gone,
                             !.used = SubSeq(@, Len(seen.used) + 1, Len(@))])
          /\ End(a)
          /\ UNCHANGED <<inputs, run, changes>>
     ELSE Refuse(a)

Delete(a) == \/ CheckPurge(a) \/ CollectPurge(a) \/ Purge(a)
             \/ PlanRetention(a) \/ CollectRetention(a)
             \/ RetainRun(a) \/ RetainChain(a)

-----------------------------------------------------------------------------

Next ==
  \/ \E a \in Actor : \/ Lock(a) \/ Fail(a)
                      \/ Shortlist(a) \/ Assess(a) \/ Decide(a) \/ Generate(a)
                      \/ Outreach(a) \/ Curate(a) \/ Delete(a)
  \/ ConfirmRequirements

Spec == Init /\ [][Next]_vars

-----------------------------------------------------------------------------
(* Properties. *)

Input == {NoInput} \cup [counted : {TRUE}, facts : Fact, skills : 0..MaxProfile,
                         profile : 0..MaxProfile]
MatchRun == {None, Gone} \cup
  [exists : {TRUE}, requirement : 1..MaxRequirement, input : Input,
   ranked : 0..MaxProfile, entry : BOOLEAN]
Draft == [version : Nat \ {0}, decision : Nat \ {0}, parent : Nat]

\* Every variable keeps its type, and the chain of an entry has no gaps or
\* dangling links: what is decided was assessed, what is drafted was decided and
\* what is approved or used was drafted, and a use is of an approved draft.
TypeOK ==
  /\ requirement \in 1..MaxRequirement /\ vacancyDeleted \in BOOLEAN
  /\ status \in {"active", "requested", "deleted"} /\ facts \in Fact
  /\ versions \in 0..MaxProfile /\ confirmed \subseteq 1..versions
  /\ permitted \in BOOLEAN /\ changes \in 0..MaxChange
  /\ DOMAIN run = Run
  /\ \A r \in Run :
       /\ run[r] \in MatchRun
       /\ assessments[r] \in Seq(1..MaxProfile) 
       /\ decisions[r] \in Seq(DOMAIN assessments[r])
       /\ drafts[r] \subseteq Draft
       /\ \A d \in drafts[r] : /\ d.decision \in DOMAIN decisions[r]
                               /\ d.parent \in {0} \cup DraftNumbers(r)
                               /\ \A e \in drafts[r] : d.version = e.version => d = e
       /\ approved[r] \subseteq DraftNumbers(r)
       /\ used[r] \in Seq(approved[r])
  /\ \A a \in Actor : txn[a].run \in {0} \cup Run

Newer(old, new) == Len(new) > Len(old)
\* The drafts of r that are approved or used in this step.
Released(r) == (approved'[r] \ approved[r])
               \cup IF Newer(used[r], used'[r]) THEN {Last(used'[r])} ELSE {}

Backing(r, v) == decisions[r][DraftRow(r, v).decision]

NewestOnly(r) ==
  /\ Newer(decisions[r], decisions'[r]) => Last(decisions'[r]) = Len(assessments[r])
  /\ \A d \in drafts'[r] \ drafts[r] : /\ d.decision = Len(decisions[r])
                                       /\ d.version > LatestDraft(r)
  /\ \A v \in Released(r) : /\ v = LatestDraft(r)
                            /\ DraftRow(r, v).decision = Len(decisions[r])
                            /\ Backing(r, v) = Len(assessments[r])

\* A decision is recorded for the newest assessment, a draft is written for the
\* newest decision, and only the newest draft is approved or used, and then
\* while its decision is the newest and about the newest assessment.  The
\* newest is looked up before the row is written, by several requests at once.
ChainIsLatest == [][\A r \in Run : NewestOnly(r)]_vars

OnCurrentEvidence(r) == \A v \in Released(r) :
  /\ permitted /\ status = "active"
  /\ run[r].input = CurrentInput
  /\ assessments[r][Backing(r, v)] = CurrentProfile

\* No message leaves on outdated evidence or without permission: at the moment a
\* draft is approved or used, contact is permitted, the candidate is active, he
\* is as the shortlist saw him and his profile is the one that was assessed,
\* although none of these was the concern of the transactions that led here and
\* only locks keep them still between check and write.
UseIsPermitted == [][\A r \in Run : OnCurrentEvidence(r)]_vars

FiledOnCurrent(r) == Newer(assessments[r], assessments'[r]) =>
  /\ Last(assessments'[r]) = CurrentProfile
  /\ run[r].input = CurrentInput /\ ~vacancyDeleted

\* An assessment is filed only while the candidate and the profile that went to
\* the AI service are current and the vacancy stands.  (The requirements may
\* have moved on: nothing locks them.)
AssessmentsAreCurrent == [][\A r \in Run : FiledOnCurrent(r)]_vars

\* What a run that is not stale shows is what the rules say of the candidate
\* now, ranked by the profile that is current now: the reads of a shortlist may
\* straddle any change, but then the signature gives it away.
FreshRunIsRight == \A r \in Run : run[r].exists /\ ~Stale(r) =>
  LET listed == status = "active" /\ Eligible(requirement, CurrentProfile, facts) IN
  /\ run[r].entry = listed
  /\ run[r].ranked = IF listed THEN CurrentProfile ELSE 0

\* A purged candidate has no profile, assessment, decision or draft left,
\* whatever was in flight during the purge or is later.
PurgedLeavesNoReview == status = "deleted" =>
  versions = 0 /\ \A r \in Run : Rows(r) = Nothing

\* Runs whose shortlist and newest assessment are of the candidate as he is.
Current == {r \in Run : /\ HasEntry(r) /\ run[r].input = CurrentInput
                        /\ assessments[r] # <<>> /\ Last(assessments[r]) = CurrentProfile}

Promise == INSTANCE ReviewPromise WITH
  Profile <- 1..MaxProfile,
  reachable <- status = "active" /\ permitted,
  current <- Current,
  purged <- status = "deleted"

\* The transactions with their locks, AI calls and half-done reads and deletions
\* show as the atomic requests of ReviewPromise: rows are added one by one for
\* the newest and current of what they rest on, and never rewritten.
KeepsReviewPromise == Promise!Spec

\* These lock the candidate in another order than requests about an entry; a
\* commit may have to share a row that another has locked or deletes.
HeldUp(a) == AtCommit(a) /\ \E b \in Actor \ {a} : ShareRows(a) \cap Taken(b) # {}
OutOfOrder(a) == txn[a].op \in {"confirm", "correct", "source", "purge"} \/ HeldUp(a)

\* Requests about an entry never deadlock among themselves or with retention
\* while they lock rows: a circle of waiting takes one of the four that lock in
\* another order, or someone held up at his commit.
DeadlockNeedsOutOfOrder ==
  \A S \in SUBSET Actor : Deadlocked(S) => \E a \in S : OutOfOrder(a)

\* docs/architecture.md: a match run is purged only if it "has no recruiter
\* decision or outreach", an outreach chain only if "no version was finally
\* approved".  (Only a candidate purge, which removes the entry, may do that.)
RetentionSparesDecided == [][\A r \in Run :
  /\ run[r].exists /\ ~run'[r].exists => decisions[r] = <<>>
  /\ HasEntry(r) /\ run'[r] = run[r] => approved[r] \subseteq approved'[r]]_vars
=============================================================================
