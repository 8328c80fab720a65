------------------------------ MODULE CvIntake ------------------------------
(***************************************************************************)
(* Where a CV's bytes and rows live: reviewed intake                       *)
(* (candidates/bulk_intake.py), direct uploads (candidates/documents.py),  *)
(* staged candidate deletion (candidates/services.py), the save of an      *)
(* extracted profile (candidates/ai_extraction.py) and the retention       *)
(* cleanup of temporary files (audit/lifecycle.py).                        *)
(*                                                                         *)
(* Each of them is a transaction that takes row locks one after the other, *)
(* decides, touches private storage and commits; storage is not            *)
(* transactional, so files are written and erased on the spot and rows     *)
(* change at the commit.  Some files are erased by hooks that run after    *)
(* the commit.  A transaction here is the record txn[r]:                   *)
(*                                                                         *)
(*   deciding -> storing -> writing -> (commit) -> hooks -> idle           *)
(*                                                                         *)
(* One organization.  Bytes are their SHA-256; an identity is a set of     *)
(* e-mail and phone keys.  Validation of the upload itself, form editing   *)
(* and the provenance text of sources are left out.                        *)
(***************************************************************************)
EXTENDS Integers, Sequences, FiniteSets

CONSTANTS
  Actor,      \* requests of recruiters and administrators, retention runs
  Batch,
  Item,       \* intake uploads: naturals; accepting one may create a candidate
  BatchOf,    \* [Item -> Batch]
  Direct,     \* uploads to an existing candidate: naturals
  Known,      \* candidates on file at the start: naturals
  Inactive,   \* those of them that are inactive
  Hash,       \* [Item \cup Direct -> SHA-256]
  Ids,        \* [Item \cup Known -> SUBSET identity keys]
  Fails,      \* operations whose transaction may fail or die after it wrote
  HookFailing,  \* operations whose storage hooks may fail after the commit
  MaxMishap   \* bound on rolled back transactions, crashes and failed hooks

Candidate == Item \cup Known
Document  == Item \cup Direct
Op == {"upload", "accept", "skip", "discard", "direct", "request", "cancel",
       "purge", "profile", "retain"}

ASSUME IntakeAssumption ==
  /\ Document \cup Candidate \subseteq Nat
  /\ IsFiniteSet(Document)
  /\ Item \cap (Known \cup Direct) = {}
  /\ BatchOf \in [Item -> Batch]
  /\ Inactive \subseteq Known
  /\ DOMAIN Hash = Document
  /\ DOMAIN Ids = Candidate
  /\ Fails \subseteq Op /\ HookFailing \subseteq Op
  /\ MaxMishap \in Nat

VARIABLES
  batch,     \* CandidateIntakeBatch.status
  vacant,    \* batches that belong to a vacancy
  item,      \* CandidateIntakeItem.status, "absent" before the row exists
  status,    \* Candidate.status, likewise
  docs,      \* CandidateDocument rows
  owner,     \* the candidate of each row
  profiled,  \* documents with a profile version
  sourced,   \* CandidateSource rows added for a vacancy: <<candidate, item>>
  files,     \* what private storage holds
  txn,       \* each actor's transaction
  faults, losses  \* rolled back transactions; crashes and failed hooks

rows == <<batch, vacant, item, status, docs, owner, profiled, sourced>>
bounds == <<faults, losses>>
vars == <<rows, files, txn, bounds>>

-----------------------------------------------------------------------------
(* Files and locks. *)

Staged(i) == <<"staged", i>>
Cv(d)     == <<"cv", d>>
Organization == <<"organization", "it">>
BatchRow(b)  == <<"batch", b>>
ItemRow(i)   == <<"item", i>>
PersonRow(c) == <<"candidate", c>>
CvRow(d)     == <<"document", d>>

\* Mutants: an upload does not lock the batch, an accept locks it before the
\* item, a direct upload does not lock the organization.
UploadLocksFew(i) == <<Organization>>
AcceptLocksSwapped(i) == <<Organization, BatchRow(BatchOf[i]), ItemRow(i)>>
DirectLocksFew(c) == <<PersonRow(c)>>

\* The rows each operation locks first, in order.
UploadLocks(i) == <<Organization, BatchRow(BatchOf[i])>>
AcceptLocks(i) == <<Organization, ItemRow(i), BatchRow(BatchOf[i])>>
SkipLocks(i)   == <<ItemRow(i), BatchRow(BatchOf[i])>>
DirectLocks(c) == <<Organization, PersonRow(c)>>
ProfileLocks(d) == <<CvRow(d), PersonRow(owner[d])>>

\* A query for update locks the rows it returns one by one, in id order.
InIdOrder(S) == {s \in [1 .. Cardinality(S) -> S] : \A j, k \in DOMAIN s : j < k => s[j] < s[k]}

Nobody == -1
Idle == [op |-> "none", arg |-> Nobody, stage |-> "idle", todo |-> <<>>,
         held |-> {}, owner |-> Nobody, plan |-> {}, left |-> {},
         closes |-> FALSE]

Pending(b) == {i \in Item : BatchOf[i] = b /\ item[i] = "pending"}
DocsOf(c) == {d \in docs : owner[d] = c}

\* Rows of the organization with these bytes that are not deleted.
Copies(d) == {e \in docs : Hash[e] = Hash[d]}

\* Mutant: only active candidates count as duplicates.
MatchesActive(i) == {c \in Candidate : status[c] = "active" /\ Ids[c] \cap Ids[i] # {}}

\* CandidateDuplicateFinder.find: candidates who share an identity key.  A
\* purged candidate has none left.
Matches(i) == {c \in Candidate : /\ status[c] \notin {"absent", "deleted"}
                                 /\ Ids[c] \cap Ids[i] # {}}

\* Mutant: a tombstone takes new documents.
FrozenInReview(c) == status[c] = "requested"

\* No upload or profile is taken for a candidate in deletion.
Frozen(c) == status[c] \in {"requested", "deleted"}

\* _complete_batch_if_ready, for a transaction that settles item i.
LastPending(i) == Pending(BatchOf[i]) \subseteq {i}

Init ==
  /\ batch = [b \in Batch |-> "open"]
  /\ vacant \in SUBSET Batch
  /\ item = [i \in Item |-> "absent"]
  /\ status = [c \in Candidate |-> IF c \in Inactive THEN "inactive"
                                   ELSE IF c \in Known THEN "active"
                                   ELSE "absent"]
  /\ docs = {} /\ profiled = {} /\ sourced = {}
  /\ owner = [d \in Document |-> Nobody]
  /\ files = {}
  /\ txn = [r \in Actor |-> Idle]
  /\ faults = 0 /\ losses = 0

-----------------------------------------------------------------------------
(* The life of a transaction. *)

Begin(r, op, arg, stage, locks) ==
  /\ txn[r] = Idle
  /\ txn' = [txn EXCEPT ![r] = [Idle EXCEPT !.op = op, !.arg = arg,
                                            !.stage = stage, !.todo = locks]]
  /\ UNCHANGED <<rows, files, bounds>>

Holder(lock) == {q \in Actor : lock \in txn[q].held}

Lock(r) ==
  /\ txn[r].todo # <<>>
  /\ Holder(Head(txn[r].todo)) \subseteq {r}
  /\ txn' = [txn EXCEPT ![r].held = @ \cup {Head(txn[r].todo)},
                        ![r].todo = Tail(@)]
  /\ UNCHANGED <<rows, files, bounds>>

\* The commit checks the foreign keys of the rows written, which are deferred:
\* it takes share locks on the rows they name, and waits for who locked them.
\* Decisions on a deletion write an audit event of the organization, a reuse
\* names a document and its candidate; the others hold every row they name.
ShareRows(r) ==
  CASE txn[r].op \in {"request", "cancel", "purge"} -> {Organization}
    [] txn[r].op = "upload" ->
         UNION {{CvRow(d), PersonRow(txn[r].owner)} : d \in txn[r].plan}
    [] OTHER -> {}
AtCommit(r) == txn[r].stage = "writing" /\ txn[r].left = {}

\* Transactions that wait for locks of one another: for a row to lock or to
\* share, or for a commit that shares one row already and waits for another.
WaitsFor(r, q) ==
  /\ r # q
  /\ \/ txn[r].todo # <<>> /\ Head(txn[r].todo) \in txn[q].held
     \/ AtCommit(r) /\ ShareRows(r) \cap txn[q].held # {}
     \/ txn[r].todo # <<>> /\ AtCommit(q) /\ Head(txn[r].todo) \in ShareRows(q)
Deadlocked(S) == S # {} /\ \A r \in S : \E q \in S : WaitsFor(r, q)

\* All its locks are held and transaction r can go on from this stage.
Ready(r, op, stage) ==
  txn[r].op = op /\ txn[r].stage = stage /\ txn[r].todo = <<>>

End(r) == txn' = [txn EXCEPT ![r] = Idle]

\* The request is refused with an error: nothing was written.
Refuse(r) == End(r) /\ UNCHANGED <<rows, files, bounds>>

\* The database breaks a deadlock at the expense of one transaction.  A purge
\* that waits at its commit has erased files: its loss is a failing purge.
Victim(r) ==
  /\ AtCommit(r) /\ txn[r].op = "purge" => "purge" \in Fails
  /\ \E S \in SUBSET Actor : r \in S /\ Deadlocked(S)
  /\ Refuse(r)

-----------------------------------------------------------------------------
(* Reviewed intake. *)

\* Every upload is a row and a file of its own.
InHand(op, x) == \E q \in Actor : txn[q].op = op /\ txn[q].arg = x

StartUpload(r, i) ==
  /\ item[i] = "absent" /\ ~InHand("upload", i)
  /\ Begin(r, "upload", i, "deciding", UploadLocks(i))

\* upload_candidate_intake_cv, under its locks.
Upload(r) ==
  LET i == txn[r].arg
      b == BatchOf[i]
      pendingCopy == \E j \in Item : item[j] = "pending" /\ Hash[j] = Hash[i]
  IN
  /\ Ready(r, "upload", "deciding")
  /\ \/ /\ \/ batch[b] # "open"
           \/ Copies(i) # {} /\ b \notin vacant
           \/ \E d \in Copies(i) : status[owner[d]] # "active"
           \/ Copies(i) = {} /\ pendingCopy
        /\ Refuse(r)
     \/ /\ batch[b] = "open" /\ b \in vacant
        /\ \E d \in Copies(i) :
             /\ status[owner[d]] = "active"
             /\ txn' = [txn EXCEPT ![r].stage = "writing", ![r].plan = {d},
                                   ![r].owner = owner[d],
                                   ![r].closes = LastPending(i)]
        /\ UNCHANGED <<rows, files, bounds>>
     \/ /\ batch[b] = "open" /\ Copies(i) = {} /\ ~pendingCopy
        /\ files' = files \cup {Staged(i)}
        /\ txn' = [txn EXCEPT ![r].stage = "writing"]
        /\ UNCHANGED <<rows, bounds>>

StartAccept(r, i) ==
  /\ item[i] = "pending"
  /\ Begin(r, "accept", i, "deciding", AcceptLocks(i))

\* create_candidate_from_intake_item up to the upload of the document: a
\* vacancy's batch may reuse the one active candidate who matches.
Accept(r) ==
  LET i == txn[r].arg
      b == BatchOf[i]
      reusable == {c \in Matches(i) : /\ Matches(i) = {c} /\ status[c] = "active"
                                      /\ b \in vacant}
  IN
  /\ Ready(r, "accept", "deciding")
  /\ \/ /\ \/ batch[b] # "open" \/ item[i] # "pending"
           \/ Matches(i) # {} /\ reusable = {}
           \/ Staged(i) \notin files
        /\ Refuse(r)
     \/ /\ batch[b] = "open" /\ item[i] = "pending" /\ Staged(i) \in files
        /\ \/ /\ Matches(i) = {}
              /\ txn' = [txn EXCEPT ![r].stage = "storing", ![r].owner = i]
           \/ \E c \in reusable :
                txn' = [txn EXCEPT ![r].stage = "storing", ![r].owner = c,
                                   ![r].todo = <<PersonRow(c)>>]
        /\ UNCHANGED <<rows, files, bounds>>

StartSkip(r, i) ==
  /\ item[i] = "pending"
  /\ Begin(r, "skip", i, "deciding", SkipLocks(i))

\* skip_candidate_intake_item, under its locks.
Skip(r) ==
  LET i == txn[r].arg IN
  /\ Ready(r, "skip", "deciding")
  /\ IF batch[BatchOf[i]] # "open" \/ item[i] # "pending" THEN Refuse(r)
     ELSE /\ txn' = [txn EXCEPT ![r].stage = "writing",
                                ![r].closes = LastPending(i)]
          /\ UNCHANGED <<rows, files, bounds>>

StartDiscard(r, b) ==
  /\ batch[b] = "open"
  /\ Begin(r, "discard", b, "deciding", <<BatchRow(b)>>)

\* discard_candidate_intake_batch: select the pending items, then lock them.
Discard(r) ==
  LET b == txn[r].arg IN
  /\ Ready(r, "discard", "deciding")
  /\ IF batch[b] # "open" THEN Refuse(r)
     ELSE /\ \E order \in InIdOrder(Pending(b)) :
               txn' = [txn EXCEPT ![r].stage = "storing", ![r].plan = Pending(b),
                                  ![r].todo = [k \in DOMAIN order |-> ItemRow(order[k])]]
          /\ UNCHANGED <<rows, files, bounds>>

DiscardLocked(r) ==
  /\ Ready(r, "discard", "storing")
  /\ txn' = [txn EXCEPT ![r].stage = "writing",
                        ![r].plan = @ \cap Pending(txn[r].arg)]
  /\ UNCHANGED <<rows, files, bounds>>

-----------------------------------------------------------------------------
(* Candidate documents and profiles. *)

\* A recruiter uploads a CV for an existing candidate.
StartDirect(r, d, c) ==
  /\ owner[d] = Nobody /\ ~InHand("direct", d)
  /\ status[c] \in {"active", "inactive"}
  /\ txn[r] = Idle
  /\ txn' = [txn EXCEPT ![r] = [Idle EXCEPT !.op = "direct", !.arg = d, !.owner = c,
                                !.stage = "storing", !.todo = DirectLocks(c)]]
  /\ UNCHANGED <<rows, files, bounds>>

\* upload_candidate_cv, under its locks: alone, or inside an accept.
Store(r) ==
  LET d == txn[r].arg IN
  /\ Ready(r, "direct", "storing") \/ Ready(r, "accept", "storing")
  /\ IF Frozen(txn[r].owner) \/ Copies(d) # {} THEN Refuse(r)
     ELSE /\ files' = files \cup {Cv(d)}
          /\ txn' = [txn EXCEPT ![r].stage = "writing",
                                ![r].closes = txn[r].op = "accept" /\ LastPending(d)]
          /\ UNCHANGED <<rows, bounds>>

StartProfile(r, d) ==
  /\ d \in docs
  /\ Begin(r, "profile", d, "deciding", ProfileLocks(d))

\* The transaction of extract_candidate_profile after the AI answered.
SaveProfile(r) ==
  LET d == txn[r].arg IN
  /\ Ready(r, "profile", "deciding")
  /\ IF d \notin docs \/ Frozen(owner[d]) THEN Refuse(r)
     ELSE /\ txn' = [txn EXCEPT ![r].stage = "writing"]
          /\ UNCHANGED <<rows, files, bounds>>

-----------------------------------------------------------------------------
(* Staged deletion and retention. *)

\* What the status must be for each step of a staged deletion.
Allows(op, c) ==
  status[c] \in (IF op = "request" THEN {"active", "inactive"} ELSE {"requested"})

StartDeletion(r, op, c) ==
  /\ Allows(op, c)
  /\ Begin(r, op, c, "deciding", <<PersonRow(c)>>)

\* request_candidate_deletion and cancel_candidate_deletion.
Decide(r) ==
  /\ Ready(r, "request", "deciding") \/ Ready(r, "cancel", "deciding")
  /\ IF ~Allows(txn[r].op, txn[r].arg) THEN Refuse(r)
     ELSE /\ txn' = [txn EXCEPT ![r].stage = "writing"]
          /\ UNCHANGED <<rows, files, bounds>>

\* delete_candidate: select the candidate's documents, then lock them.
Purge(r) ==
  LET c == txn[r].arg IN
  /\ Ready(r, "purge", "deciding")
  /\ IF ~Allows("purge", c) THEN Refuse(r)
     ELSE /\ \E order \in InIdOrder(DocsOf(c)) :
               txn' = [txn EXCEPT ![r].stage = "storing", ![r].plan = DocsOf(c),
                                  ![r].todo = [k \in DOMAIN order |-> CvRow(order[k])]]
          /\ UNCHANGED <<rows, files, bounds>>

\* apply_retention_plan: plan the aged temporary items, then lock them.
StartRetain(r) == Begin(r, "retain", Nobody, "deciding", <<Organization>>)

Retain(r) ==
  /\ Ready(r, "retain", "deciding")
  /\ \E aged \in SUBSET {i \in Item : item[i] = "pending"} : \E order \in InIdOrder(aged) :
       txn' = [txn EXCEPT ![r].stage = "storing", ![r].plan = aged,
                          ![r].todo = [k \in DOMAIN order |-> ItemRow(order[k])]]
  /\ UNCHANGED <<rows, files, bounds>>

\* The files each operation erases before it commits, and after.
EraseFirst(r) ==
  CASE txn[r].op = "purge"  -> {Cv(d) : d \in txn[r].plan}
    [] txn[r].op = "retain" -> {Staged(i) : i \in {j \in txn[r].plan : item[j] = "pending"}}
    [] OTHER -> {}

\* Mutant: every hook of a discarded batch erases the last item's file.
EraseLastOne(r) ==
  CASE txn[r].op \in {"accept", "skip"} -> {Staged(txn[r].arg)}
    [] txn[r].op = "discard" ->
         {Staged(i) : i \in {j \in txn[r].plan : \A k \in txn[r].plan : k <= j}}
    [] OTHER -> {}

EraseLast(r) ==
  CASE txn[r].op \in {"accept", "skip"} -> {Staged(txn[r].arg)}
    [] txn[r].op = "discard" -> {Staged(i) : i \in txn[r].plan}
    [] OTHER -> {}

\* The rows are locked: start erasing their files.
Locked(r) ==
  /\ Ready(r, "purge", "storing") \/ Ready(r, "retain", "storing")
  /\ txn' = [txn EXCEPT ![r].stage = "writing", ![r].left = EraseFirst(r)]
  /\ UNCHANGED <<rows, files, bounds>>

Erase(r) ==
  /\ txn[r].stage \in {"writing", "hooks"}
  /\ \E f \in txn[r].left :
       /\ files' = files \ {f}
       /\ txn' = [txn EXCEPT ![r].left = @ \ {f}]
  /\ UNCHANGED <<rows, bounds>>

-----------------------------------------------------------------------------
(* The end of a transaction. *)

Committing(r, op) ==
  /\ txn[r].op = op /\ AtCommit(r)
  /\ \A row \in ShareRows(r) : Holder(row) \subseteq {r}

\* Locks are released; what is left to erase is up to the hooks.
Committed(r) ==
  txn' = [txn EXCEPT ![r] =
            IF EraseLast(r) = {} THEN Idle
            ELSE [@ EXCEPT !.stage = "hooks", !.held = {}, !.left = EraseLast(r)]]

\* Mutant: the batch's status is written to the item.
SettleAsBatch(r, i, s) ==
  /\ item' = [item EXCEPT ![i] = IF txn[r].closes THEN "completed" ELSE s]
  /\ batch' = IF txn[r].closes THEN [batch EXCEPT ![BatchOf[i]] = "completed"]
              ELSE batch

\* Item i is settled, and its batch with it if it was the last one.
Settle(r, i, s) ==
  /\ item' = [item EXCEPT ![i] = s]
  /\ batch' = IF txn[r].closes THEN [batch EXCEPT ![BatchOf[i]] = "completed"]
              ELSE batch

CommitUpload(r) ==
  /\ Committing(r, "upload")
  /\ txn[r].plan = {}
  /\ item' = [item EXCEPT ![txn[r].arg] = "pending"]
  /\ Committed(r)
  /\ UNCHANGED <<batch, vacant, status, docs, owner, profiled, sourced, files, bounds>>

\* The exact document is on file: the item is settled and a source recorded.
\* A purge in flight was waited for, and a purged document rolls the upload
\* back.
CommitReuse(r) ==
  LET i == txn[r].arg
      c == txn[r].owner
  IN
  /\ Committing(r, "upload")
  /\ \E d \in txn[r].plan :
       IF d \notin docs THEN Refuse(r)
       ELSE /\ Settle(r, i, "created")
            /\ sourced' = sourced \cup {<<c, i>>}
            /\ Committed(r)
            /\ UNCHANGED <<vacant, status, docs, owner, profiled, files, bounds>>

CommitAccept(r) ==
  LET i == txn[r].arg
      c == txn[r].owner
  IN
  /\ Committing(r, "accept")
  /\ Settle(r, i, "created")
  /\ status' = [status EXCEPT ![c] = "active"]
  /\ docs' = docs \cup {i}
  /\ owner' = [owner EXCEPT ![i] = c]
  /\ sourced' = sourced \cup {<<c, i>>}
  /\ Committed(r)
  /\ UNCHANGED <<vacant, profiled, files, bounds>>

CommitSkip(r) ==
  /\ Committing(r, "skip")
  /\ Settle(r, txn[r].arg, "skipped")
  /\ Committed(r)
  /\ UNCHANGED <<vacant, status, docs, owner, profiled, sourced, files, bounds>>

CommitDiscard(r) ==
  /\ Committing(r, "discard")
  /\ item' = [i \in Item |-> IF i \in txn[r].plan THEN "skipped" ELSE item[i]]
  /\ batch' = [batch EXCEPT ![txn[r].arg] = "discarded"]
  /\ Committed(r)
  /\ UNCHANGED <<vacant, status, docs, owner, profiled, sourced, files, bounds>>

CommitDirect(r) ==
  /\ Committing(r, "direct")
  /\ docs' = docs \cup {txn[r].arg}
  /\ owner' = [owner EXCEPT ![txn[r].arg] = txn[r].owner]
  /\ Committed(r)
  /\ UNCHANGED <<batch, vacant, item, status, profiled, sourced, files, bounds>>

CommitProfile(r) ==
  /\ Committing(r, "profile")
  /\ profiled' = profiled \cup {txn[r].arg}
  /\ Committed(r)
  /\ UNCHANGED <<batch, vacant, item, status, docs, owner, sourced, files, bounds>>

\* status_before_deletion_request is restored by a cancellation.
CommitDecision(r) ==
  LET c == txn[r].arg IN
  /\ \/ /\ Committing(r, "request")
        /\ status' = [status EXCEPT ![c] = "requested"]
     \/ /\ Committing(r, "cancel")
        /\ status' = [status EXCEPT ![c] = IF c \in Inactive THEN "inactive" ELSE "active"]
  /\ Committed(r)
  /\ UNCHANGED <<batch, vacant, item, docs, owner, profiled, sourced, files, bounds>>

\* Documents, their profiles and every source go; a tombstone stays.
CommitPurge(r) ==
  LET c == txn[r].arg IN
  /\ Committing(r, "purge")
  /\ status' = [status EXCEPT ![c] = "deleted"]
  /\ docs' = docs \ DocsOf(c)
  /\ profiled' = profiled \ DocsOf(c)
  /\ sourced' = {s \in sourced : s[1] # c}
  /\ Committed(r)
  /\ UNCHANGED <<batch, vacant, item, owner, files, bounds>>

\* Retention skips its items and leaves the batch alone.
CommitRetain(r) ==
  /\ Committing(r, "retain")
  /\ item' = [i \in Item |-> IF i \in txn[r].plan THEN "skipped" ELSE item[i]]
  /\ Committed(r)
  /\ UNCHANGED <<batch, vacant, status, docs, owner, profiled, sourced, files, bounds>>

\* Mutant: an accept that fails removes the staged file instead of its own.
FreshStaged(r) ==
  IF txn[r].stage # "writing" THEN {} ELSE
  CASE txn[r].op = "upload" /\ txn[r].plan = {} -> {Staged(txn[r].arg)}
    [] txn[r].op = "accept" -> {Staged(txn[r].arg)}
    [] txn[r].op = "direct" -> {Cv(txn[r].arg)}
    [] OTHER -> {}

\* The file this transaction has stored and no committed row names yet.
Fresh(r) ==
  IF txn[r].stage # "writing" THEN {} ELSE
  CASE txn[r].op = "upload" /\ txn[r].plan = {} -> {Staged(txn[r].arg)}
    [] txn[r].op \in {"accept", "direct"} -> {Cv(txn[r].arg)}
    [] OTHER -> {}

\* An error before the commit takes effect: the handlers of uploads and
\* accepts remove the file they stored.
Rollback(r) ==
  /\ txn[r].stage = "writing" /\ txn[r].op \in Fails
  /\ faults + losses < MaxMishap
  /\ faults' = faults + 1
  /\ files' = files \ Fresh(r)
  /\ End(r)
  /\ UNCHANGED <<rows, losses>>

\* The process dies with its transaction: no handler runs, no hook either.
Crash(r) ==
  /\ txn[r].stage \in {"writing", "hooks"} /\ txn[r].op \in Fails
  /\ faults + losses < MaxMishap
  /\ losses' = losses + 1
  /\ End(r)
  /\ UNCHANGED <<rows, files, faults>>

\* A hook raises after the commit and the hooks behind it are lost.  In an
\* accept the error reaches the handler that removes the stored document.
HookFails(r) ==
  /\ txn[r].stage = "hooks" /\ txn[r].op \in HookFailing
  /\ faults + losses < MaxMishap
  /\ losses' = losses + 1
  /\ files' = files \ (IF txn[r].op = "accept" THEN {Cv(txn[r].arg)} ELSE {})
  /\ End(r)
  /\ UNCHANGED <<rows, faults>>

HooksDone(r) ==
  /\ txn[r].stage = "hooks" /\ txn[r].left = {}
  /\ End(r)
  /\ UNCHANGED <<rows, files, bounds>>

-----------------------------------------------------------------------------
Start(r) ==
  \/ \E i \in Item : StartUpload(r, i) \/ StartAccept(r, i) \/ StartSkip(r, i)
  \/ \E b \in Batch : StartDiscard(r, b)
  \/ \E d \in Direct, c \in Candidate : StartDirect(r, d, c)
  \/ \E d \in Document : StartProfile(r, d)
  \/ \E op \in {"request", "cancel", "purge"}, c \in Candidate : StartDeletion(r, op, c)
  \/ StartRetain(r)

Step(r) ==
  \/ Lock(r) \/ Victim(r)
  \/ Upload(r) \/ Accept(r) \/ Skip(r) \/ Discard(r) \/ DiscardLocked(r)
  \/ Store(r) \/ SaveProfile(r) \/ Decide(r) \/ Purge(r) \/ Retain(r)
  \/ Locked(r) \/ Erase(r)

Commit(r) ==
  \/ CommitUpload(r) \/ CommitReuse(r) \/ CommitAccept(r) \/ CommitSkip(r)
  \/ CommitDiscard(r) \/ CommitDirect(r) \/ CommitProfile(r)
  \/ CommitDecision(r) \/ CommitPurge(r) \/ CommitRetain(r) \/ HooksDone(r)

Mishap(r) == Rollback(r) \/ Crash(r) \/ HookFails(r)

Next == \E r \in Actor : Start(r) \/ Step(r) \/ Commit(r) \/ Mishap(r)

Spec == Init /\ [][Next]_vars

-----------------------------------------------------------------------------
(* Properties. *)

TypeOK ==
  /\ batch \in [Batch -> {"open", "completed", "discarded"}]
  /\ vacant \subseteq Batch
  /\ item \in [Item -> {"absent", "pending", "created", "skipped"}]
  /\ status \in [Candidate -> {"absent", "active", "inactive", "requested", "deleted"}]
  /\ docs \subseteq Document /\ profiled \subseteq docs
  /\ owner \in [Document -> Candidate \cup {Nobody}]
  /\ sourced \subseteq Candidate \X Item
  /\ files \subseteq {Staged(i) : i \in Item} \cup {Cv(d) : d \in Document}
  /\ \A r \in Actor : txn[r].op \in Op \cup {"none"} /\ txn[r].closes \in BOOLEAN
  /\ \A r, q \in Actor : txn[r].held \cap txn[q].held # {} => r = q

\* "Organization-row and candidate-row locks serialize the final hash check and
\* save": no two stored CVs, and no two items awaiting review, have the same bytes.
OneCopyPerCv ==
  /\ \A d, e \in docs : Hash[d] = Hash[e] => d = e
  /\ \A i, j \in Item : item[i] = "pending" /\ item[j] = "pending" /\ Hash[i] = Hash[j]
                       => i = j

\* Accepting items one after the other, together or again never makes a second
\* candidate for an identity that somebody not purged has.
IntakeMakesNoTwins ==
  \A i \in Item, c \in Candidate :
    {status[i], status[c]} \cap {"absent", "deleted"} = {} /\ Ids[i] \cap Ids[c] # {} => c = i

\* A completed or discarded batch has nothing left to review.
ClosedBatchIsDone == \A b \in Batch : batch[b] # "open" => Pending(b) = {}

\* A purge in flight has erased files of rows it will delete; so has retention.
Erasing(op, x) == \E r \in Actor : txn[r].op = op /\ x \in txn[r].plan

\* Every item awaiting review and every document on file has its bytes.
RowsHaveFiles ==
  /\ \A i \in Item : item[i] = "pending" => Staged(i) \in files \/ Erasing("retain", i)
  /\ \A d \in docs : Cv(d) \in files \/ Erasing("purge", d)

\* "Successful or explicitly discarded rows clear their temporary file": every
\* stored file belongs to a row, or to a transaction that will name or erase
\* it, unless a process died or storage refused to erase.
NoOrphanFiles ==
  losses = 0 =>
    files \subseteq {Staged(i) : i \in {j \in Item : item[j] = "pending"}} \cup {Cv(d) : d \in docs}
                    \cup UNION {Fresh(r) \cup txn[r].left : r \in Actor}

\* A purge is complete: whatever ran beside it, a deleted candidate has no
\* documents, bytes, profiles or provenance left.
PurgedLeavesNothing ==
  \A c \in Candidate : status[c] = "deleted" =>
    /\ DocsOf(c) = {}
    /\ \A s \in sourced : s[1] # c
    /\ \A d \in Document : owner[d] = c /\ Cv(d) \in files => losses > 0

\* "Selected rows create the candidate, provenance, and accepted private
\* CandidateDocument in one database transaction": an accepted document that
\* nobody purges has its bytes.
AcceptedCvIsStored ==
  \A i \in Item \cap docs : Cv(i) \in files \/ Erasing("purge", i)

\* A discard locks the batch before its items and a purge the candidate before
\* its documents; a commit may have to share a row that another has locked.
HeldUp(r) == AtCommit(r) /\ \E q \in Actor \ {r} : ShareRows(r) \cap txn[q].held # {}
OutOfOrder(r) == txn[r].op \in {"discard", "purge"} \/ HeldUp(r)

\* All other waiting is in one order of locks, whatever rows the requests are
\* about: without one of these three nobody waits in a circle.
DeadlockNeedsOutOfOrder ==
  \A S \in SUBSET Actor : Deadlocked(S) => \E r \in S : OutOfOrder(r)
=============================================================================
