------------------------ MODULE CvIntakeFiles_proofs ------------------------
(***************************************************************************)
(* No row of CvIntake is left without its file.                            *)
(*                                                                         *)
(* Storage is not transactional: a purge and a retention run erase files   *)
(* of rows that are still there, an upload stores files of rows that are   *)
(* not there yet, and a failed hook of an accept erases the CV it just     *)
(* stored.  FilesInv says who answers for a missing file at each moment.   *)
(***************************************************************************)
EXTENDS CvIntake_proofs

\* A purge or a retention run that erased files commits, and the hooks of an
\* accept do not fail.
Reliable == {"purge", "retain"} \cap Fails = {} /\ "accept" \notin HookFailing

RetainErases(t, i) == t.op = "retain" /\ t.stage = "writing" /\ i \in t.plan
PurgeErases(t, d) == t.op = "purge" /\ t.stage = "writing" /\ d \in t.plan

\* What t has stored and will name when it commits.
HasWritten(t) ==
  t.stage = "writing" =>
    /\ t.op = "upload" /\ t.plan = {} => Staged(t.arg) \in files
    /\ t.op \in {"accept", "direct"} => Cv(t.arg) \in files

FilesInv ==
  /\ \A i \in Item : item[i] = "pending" =>
       Staged(i) \in files \/ \E r \in Actor : RetainErases(txn[r], i)
  /\ \A d \in docs : Cv(d) \in files \/ \E r \in Actor : PurgeErases(txn[r], d)
  /\ \A r \in Actor : HasWritten(txn[r])

-----------------------------------------------------------------------------
(* Steps that neither touch storage nor end an erasure. *)

NothingToName(t) ==
  t.stage = "writing" => t.op \notin {"accept", "direct"} /\ (t.op = "upload" => t.plan # {})

Quiet(r) ==
  /\ UNCHANGED <<rows, files>>
  /\ \A q \in Actor : q # r => txn'[q] = txn[q]
  /\ txn[r].stage = "writing" => txn[r].op \notin {"purge", "retain"}
  /\ NothingToName(txn'[r])

\* Whoever answers for a missing file still does after a quiet step.
LEMMA QuietKeepsFiles ==
  ASSUME FilesInv, NEW r \in Actor, Quiet(r)
  PROVE  FilesInv'
<1>1. files' = files /\ item' = item /\ docs' = docs
  BY DEF Quiet, rows
<1>2. ASSUME NEW i \in Item, item'[i] = "pending"
      PROVE  Staged(i) \in files' \/ \E q \in Actor : RetainErases(txn'[q], i)
  <2>1. ASSUME NEW q \in Actor, RetainErases(txn[q], i) PROVE txn'[q] = txn[q]
    BY <2>1 DEF RetainErases, Quiet
  <2> QED
    BY <1>1, <1>2, <2>1 DEF FilesInv
<1>3. ASSUME NEW d \in docs'
      PROVE  Cv(d) \in files' \/ \E q \in Actor : PurgeErases(txn'[q], d)
  <2>1. ASSUME NEW q \in Actor, PurgeErases(txn[q], d) PROVE txn'[q] = txn[q]
    BY <2>1 DEF PurgeErases, Quiet
  <2> QED
    BY <1>1, <1>3, <2>1 DEF FilesInv
<1>4. ASSUME NEW q \in Actor PROVE HasWritten(txn[q])'
  <2>1. CASE q = r
    BY <2>1 DEF Quiet, NothingToName, HasWritten
  <2>2. CASE q # r
    BY <1>1, <2>2 DEF Quiet, FilesInv, HasWritten
  <2> QED
    BY <2>1, <2>2
<1> QED
  BY <1>2, <1>3, <1>4 DEF FilesInv

\* A transaction that ends without having erased or stored anything ends
\* quietly.
LEMMA EndsQuietly ==
  ASSUME IntakeInv, NEW r \in Actor, End(r), UNCHANGED <<rows, files>>,
         txn[r].stage = "writing" => txn[r].op \notin {"purge", "retain"}
  PROVE  Quiet(r)
<1>1. /\ txn'[r] = Idle /\ \A q \in Actor : q # r => txn'[q] = txn[q]
  BY EndStands DEF Alone
<1>2. NothingToName(txn'[r])
  BY <1>1 DEF NothingToName, Idle
<1> QED
  BY <1>1, <1>2 DEF Quiet

\* A request that starts has stored nothing yet.
LEMMA StartIsQuiet ==
  ASSUME IntakeInv, NEW r \in Actor, Start(r)
  PROVE  Quiet(r)
<1>1. txn \in [Actor -> Txn]
  BY DEF IntakeInv, Typed
<1>2. ASSUME NEW op, NEW arg, NEW locks, Begin(r, op, arg, "deciding", locks)
      PROVE  Quiet(r)
  BY <1>1, <1>2 DEF Begin, Quiet, NothingToName, Idle
<1>3. ASSUME NEW d \in Direct, NEW c \in Candidate, StartDirect(r, d, c)
      PROVE  Quiet(r)
  BY <1>1, <1>3 DEF StartDirect, Quiet, NothingToName, Idle
<1> QED
  BY <1>2, <1>3 DEF Start, StartUpload, StartAccept, StartSkip, StartDiscard, StartProfile,
                    StartDeletion, StartRetain

\* What a step that only decides leaves of the transaction.
LEMMA ExceptTxn ==
  ASSUME IntakeInv, NEW r \in Actor
  PROVE  /\ txn \in [Actor -> Txn] /\ txn[r] \in Txn
         /\ LocksHeld(txn[r]) /\ Standing(txn[r])
BY DEF IntakeInv, Typed

\* The loser of a deadlock has neither stored nor erased a file: whoever waits
\* for a share lock at its commit stored none, and it is not a purge.
LEMMA VictimIsQuiet ==
  ASSUME Reliable, IntakeInv, NEW r \in Actor, Victim(r)
  PROVE  Quiet(r)
<1>1. Refuse(r) /\ \E q \in Actor : WaitsFor(r, q)
  BY DEF Victim, Deadlocked
<1>2. \/ txn[r].todo # <<>>
      \/ AtCommit(r) /\ ShareRows(r) # {}
  BY <1>1 DEF WaitsFor
<1>3. txn[r].stage = "writing" => txn[r].op \notin {"purge", "retain"}
  <2>1. CASE txn[r].todo # <<>>
    BY <2>1, ExceptTxn DEF LocksHeld
  <2>2. CASE AtCommit(r) /\ ShareRows(r) # {}
    BY <2>2 DEF Victim, Reliable, ShareRows
  <2> QED
    BY <1>2, <2>1, <2>2
<1> QED
  BY <1>1, <1>3, EndsQuietly DEF Refuse

\* Locking and checking come before any file is touched.
LEMMA DecidingIsQuiet ==
  ASSUME IntakeInv, NEW r \in Actor,
         Lock(r) \/ Accept(r) \/ Skip(r) \/ Discard(r) \/ DiscardLocked(r)
           \/ SaveProfile(r) \/ Decide(r) \/ Purge(r) \/ Retain(r) \/ Locked(r)
  PROVE  Quiet(r)
<1>1. txn \in [Actor -> Txn] /\ txn[r] \in Txn /\ LocksHeld(txn[r]) /\ Standing(txn[r])
  BY ExceptTxn
<1>2. UNCHANGED <<rows, files>>
  BY DEF Lock, Accept, Skip, Discard, DiscardLocked, SaveProfile, Decide, Purge, Retain,
         Locked, Refuse
<1>3. txn[r].stage # "writing"
  BY <1>1 DEF Lock, Accept, Skip, Discard, DiscardLocked,
         SaveProfile, Decide, Purge, Retain, Locked, Ready, LocksHeld
<1>4. CASE End(r)
  BY <1>2, <1>3, <1>4, EndsQuietly
<1>5. ASSUME \A q \in Actor : q # r => txn'[q] = txn[q], NothingToName(txn'[r]) PROVE Quiet(r)
  BY <1>2, <1>3, <1>5 DEF Quiet
<1>6. CASE Lock(r)
  BY <1>1, <1>3, <1>5, <1>6 DEF Lock, NothingToName
<1>8. CASE Accept(r)
  <2>1. ASSUME txn' = [txn EXCEPT ![r].stage = "storing", ![r].owner = txn[r].arg]
        PROVE  Quiet(r)
    BY <1>1, <1>5, <2>1 DEF NothingToName, Txn
  <2>2. ASSUME NEW c, txn' = [txn EXCEPT ![r].stage = "storing", ![r].owner = c,
                                         ![r].todo = <<PersonRow(c)>>]
        PROVE  Quiet(r)
    BY <1>1, <1>5, <2>2 DEF NothingToName, Txn
  <2> QED
    BY <1>4, <1>8, <2>1, <2>2 DEF Accept, Refuse
<1>9. CASE Skip(r)
  BY <1>1, <1>4, <1>5, <1>9 DEF Skip, NothingToName, Ready, Refuse, Txn
<1>10. CASE Discard(r)
  BY <1>1, <1>4, <1>5, <1>10 DEF Discard, NothingToName, Ready, Refuse, Txn
<1>11. CASE DiscardLocked(r)
  BY <1>1, <1>4, <1>5, <1>11 DEF DiscardLocked, NothingToName, Ready, Refuse, Txn
<1>12. CASE SaveProfile(r)
  BY <1>1, <1>4, <1>5, <1>12 DEF SaveProfile, NothingToName, Ready, Refuse, Txn
<1>13. CASE Decide(r)
  BY <1>1, <1>4, <1>5, <1>13 DEF Decide, NothingToName, Ready, Refuse, Txn
<1>14. CASE Purge(r)
  BY <1>1, <1>4, <1>5, <1>14 DEF Purge, NothingToName, Ready, Refuse, Txn
<1>15. CASE Retain(r)
  <2>1. PICK aged, todo : txn' = [txn EXCEPT ![r].stage = "storing", ![r].plan = aged,
                                             ![r].todo = todo]
    BY <1>15 DEF Retain
  <2> QED
    BY <1>1, <1>5, <2>1 DEF NothingToName, Txn
<1>16. CASE Locked(r)
  BY <1>1, <1>4, <1>5, <1>16 DEF Locked, NothingToName, Ready, Refuse, Txn
<1> QED
  BY <1>6, <1>8, <1>9, <1>10, <1>11, <1>12, <1>13, <1>14, <1>15, <1>16

-----------------------------------------------------------------------------
(* Steps that store files, and commits. *)

OthersWait(r) == \A q \in Actor : q # r => txn'[q] = txn[q]

\* Steps that add files: whatever row appears has its file by then, and whoever
\* erased a file takes its row along.
LEMMA MoreFilesKeep ==
  ASSUME FilesInv, NEW r \in Actor, OthersWait(r), files \subseteq files',
         \A i \in Item : item'[i] = "pending" /\ item[i] # "pending" => Staged(i) \in files',
         \A d \in docs' \ docs : Cv(d) \in files',
         \A i \in Item : RetainErases(txn[r], i) => item'[i] # "pending",
         \A d \in docs : PurgeErases(txn[r], d) => d \notin docs',
         HasWritten(txn[r])'
  PROVE  FilesInv'
<1>1. ASSUME NEW i \in Item, item'[i] = "pending"
      PROVE  Staged(i) \in files' \/ \E q \in Actor : RetainErases(txn'[q], i)
  BY <1>1 DEF FilesInv, OthersWait
<1>2. ASSUME NEW d \in docs'
      PROVE  Cv(d) \in files' \/ \E q \in Actor : PurgeErases(txn'[q], d)
  BY <1>2 DEF FilesInv, OthersWait
<1>3. ASSUME NEW q \in Actor, q # r PROVE HasWritten(txn[q])'
  BY <1>3 DEF FilesInv, OthersWait, HasWritten
<1> QED
  BY <1>1, <1>2, <1>3 DEF FilesInv

\* upload_candidate_intake_cv stores the staged file before it saves the item.
LEMMA UploadKeepsFiles ==
  ASSUME IntakeInv, FilesInv, NEW r \in Actor, Upload(r)
  PROVE  FilesInv'
<1>1. txn \in [Actor -> Txn] /\ txn[r] \in Txn /\ txn[r].op = "upload" /\ txn[r].stage = "deciding"
  BY ExceptTxn DEF Upload, Ready
<1>2. CASE Refuse(r)
  BY <1>1, <1>2, EndsQuietly, QuietKeepsFiles DEF Refuse
<1>3. ASSUME NEW d, UNCHANGED <<rows, files, bounds>>,
             txn' = [txn EXCEPT ![r].stage = "writing", ![r].plan = {d}, ![r].owner = owner[d],
                                ![r].closes = LastPending(txn[r].arg)]
      PROVE  FilesInv'
  <2>1. txn'[r].op = "upload" /\ txn'[r].plan # {} /\ OthersWait(r)
    BY <1>1, <1>3 DEF Txn, OthersWait
  <2>2. Quiet(r)
    BY <1>1, <1>3, <2>1 DEF Quiet, NothingToName, OthersWait
  <2> QED
    BY <2>2, QuietKeepsFiles
<1>4. ASSUME UNCHANGED rows, files' = files \cup {Staged(txn[r].arg)},
             txn' = [txn EXCEPT ![r].stage = "writing"]
      PROVE  FilesInv'
  <2>1. txn'[r].op = "upload" /\ txn'[r].arg = txn[r].arg /\ OthersWait(r)
    BY <1>1, <1>4 DEF Txn, OthersWait
  <2>2. HasWritten(txn[r])'
    BY <1>4, <2>1 DEF HasWritten
  <2>3. item' = item /\ docs' = docs
    BY <1>4 DEF rows
  <2> QED
    BY <1>1, <1>4, <2>1, <2>2, <2>3, MoreFilesKeep DEF RetainErases, PurgeErases
<1> QED
  BY <1>2, <1>3, <1>4 DEF Upload

\* An accept and a direct upload store the CV before they save the document.
LEMMA StoreKeepsFiles ==
  ASSUME IntakeInv, FilesInv, NEW r \in Actor, Store(r)
  PROVE  FilesInv'
<1>1. /\ txn \in [Actor -> Txn] /\ txn[r] \in Txn
      /\ txn[r].op \in {"accept", "direct"} /\ txn[r].stage = "storing"
  BY ExceptTxn DEF Store, Ready
<1>2. CASE Refuse(r)
  BY <1>1, <1>2, EndsQuietly, QuietKeepsFiles DEF Refuse
<1>3. ASSUME NEW closes, UNCHANGED rows, files' = files \cup {Cv(txn[r].arg)},
             txn' = [txn EXCEPT ![r].stage = "writing", ![r].closes = closes]
      PROVE  FilesInv'
  <2>1. txn'[r].op = txn[r].op /\ txn'[r].arg = txn[r].arg /\ OthersWait(r)
    BY <1>1, <1>3 DEF Txn, OthersWait
  <2>2. HasWritten(txn[r])'
    BY <1>1, <1>3, <2>1 DEF HasWritten
  <2>3. item' = item /\ docs' = docs
    BY <1>3 DEF rows
  <2> QED
    BY <1>1, <1>3, <2>1, <2>2, <2>3, MoreFilesKeep DEF RetainErases, PurgeErases
<1> QED
  BY <1>2, <1>3 DEF Store

\* Whoever committed has nothing left to name.
LEMMA CommittedWaits ==
  ASSUME IntakeInv, NEW r \in Actor, Committed(r)
  PROVE  OthersWait(r) /\ HasWritten(txn[r])'
<1>1. txn \in [Actor -> Txn] /\ txn[r] \in Txn
  BY ExceptTxn
<1>2. txn'[r].stage \in {"idle", "hooks"} /\ OthersWait(r)
  <2>1. PICK left : left = EraseLast(r)
    OBVIOUS
  <2>2. txn' = [txn EXCEPT ![r] = IF left = {} THEN Idle
                                  ELSE [@ EXCEPT !.stage = "hooks", !.held = {}, !.left = left]]
    BY <2>1 DEF Committed
  <2> QED
    BY <1>1, <2>2 DEF OthersWait, Idle, Txn
<1> QED
  BY <1>2 DEF HasWritten

\* Settling an item makes no item pending.
LEMMA SettleOnly ==
  ASSUME IntakeInv, NEW r \in Actor, NEW i \in Item, NEW s \in {"created", "skipped"},
         Settle(r, i, s)
  PROVE  \A j \in Item : item'[j] = "pending" => item[j] = "pending"
BY DEF Settle, IntakeInv, Typed

\* At a commit the rows appear whose files were stored, and go whose files were
\* erased.
LEMMA CommitKeepsFiles ==
  ASSUME IntakeInv, FilesInv, NEW r \in Actor, Commit(r)
  PROVE  FilesInv'
<1>1. txn[r] \in Txn /\ Standing(txn[r]) /\ HasWritten(txn[r])
  BY ExceptTxn DEF FilesInv
<1>2. ASSUME CommitUpload(r) PROVE FilesInv'
  <2>1. Staged(txn[r].arg) \in files /\ files' = files /\ docs' = docs
    BY <1>1, <1>2 DEF CommitUpload, Committing, AtCommit, HasWritten
  <2>2. \A i \in Item : item'[i] = "pending" /\ item[i] # "pending" => i = txn[r].arg
    BY <1>2 DEF CommitUpload, IntakeInv, Typed
  <2> QED
    BY <1>2, <2>1, <2>2, CommittedWaits, MoreFilesKeep
       DEF CommitUpload, Committing, AtCommit, RetainErases, PurgeErases
<1>3. ASSUME CommitReuse(r) PROVE FilesInv'
  <2>1. CASE Refuse(r)
    BY <1>3, <2>1, EndsQuietly, QuietKeepsFiles DEF Refuse, CommitReuse, Committing, AtCommit
  <2>2. CASE Settle(r, txn[r].arg, "created") /\ Committed(r) /\ UNCHANGED <<docs, files>>
    <3>1. txn[r].arg \in Item
      BY <1>1, <1>3 DEF CommitReuse, Committing, AtCommit, Standing, UploadStanding
    <3> QED
      BY <1>3, <2>2, <3>1, SettleOnly, CommittedWaits, MoreFilesKeep
         DEF CommitReuse, Committing, AtCommit, RetainErases, PurgeErases
  <2> QED
    BY <1>3, <2>1, <2>2 DEF CommitReuse
<1>4. ASSUME CommitAccept(r) PROVE FilesInv'
  <2>1. txn[r].arg \in Item /\ Cv(txn[r].arg) \in files
    BY <1>1, <1>4 DEF CommitAccept, Committing, AtCommit, Standing, AcceptStanding, HasWritten
  <2>2. docs' \subseteq docs \cup {txn[r].arg} /\ files' = files
    BY <1>4 DEF CommitAccept
  <2> QED
    BY <1>4, <2>1, <2>2, SettleOnly, CommittedWaits, MoreFilesKeep
       DEF CommitAccept, Committing, AtCommit, RetainErases, PurgeErases
<1>5. ASSUME CommitSkip(r) PROVE FilesInv'
  <2>1. txn[r].arg \in Item
    BY <1>1, <1>5 DEF CommitSkip, Committing, AtCommit, Standing, SkipStanding
  <2> QED
    BY <1>5, <2>1, SettleOnly, CommittedWaits, MoreFilesKeep
       DEF CommitSkip, Committing, AtCommit, RetainErases, PurgeErases
<1>6. ASSUME CommitDiscard(r) PROVE FilesInv'
  <2>1. \A i \in Item : item'[i] = "pending" => item[i] = "pending"
    BY <1>6 DEF CommitDiscard
  <2> QED
    BY <1>6, <2>1, CommittedWaits, MoreFilesKeep
       DEF CommitDiscard, Committing, AtCommit, RetainErases, PurgeErases
<1>7. ASSUME CommitDirect(r) PROVE FilesInv'
  <2>1. Cv(txn[r].arg) \in files
    BY <1>1, <1>7 DEF CommitDirect, Committing, AtCommit, HasWritten
  <2> QED
    BY <1>7, <2>1, CommittedWaits, MoreFilesKeep
       DEF CommitDirect, Committing, AtCommit, RetainErases, PurgeErases
<1>8. ASSUME CommitProfile(r) \/ CommitDecision(r) PROVE FilesInv'
  BY <1>8, CommittedWaits, MoreFilesKeep
     DEF CommitProfile, CommitDecision, Committing, AtCommit, RetainErases, PurgeErases
<1>9. ASSUME CommitPurge(r) PROVE FilesInv'
  <2>1. txn[r].plan = DocsOf(txn[r].arg)
    BY <1>1, <1>9 DEF CommitPurge, Committing, AtCommit, Standing, PurgeStanding
  <2> QED
    BY <1>9, <2>1, CommittedWaits, MoreFilesKeep
       DEF CommitPurge, Committing, AtCommit, RetainErases, PurgeErases
<1>10. ASSUME CommitRetain(r) PROVE FilesInv'
  <2>1. \A i \in Item : item'[i] = "pending" => item[i] = "pending" /\ i \notin txn[r].plan
    BY <1>10 DEF CommitRetain
  <2> QED
    BY <1>10, <2>1, CommittedWaits, MoreFilesKeep
       DEF CommitRetain, Committing, AtCommit, RetainErases, PurgeErases
<1>11. ASSUME HooksDone(r) PROVE FilesInv'
  BY <1>11, EndsQuietly, QuietKeepsFiles DEF HooksDone
<1> QED
  BY <1>2, <1>3, <1>4, <1>5, <1>6, <1>7, <1>8, <1>9, <1>10, <1>11 DEF Commit

-----------------------------------------------------------------------------
(* Steps that erase files. *)

\* Whoever still needs an erased file is the transaction that erased it.
MayErase(r, f) ==
  /\ \A i \in Item : f = Staged(i) =>
       /\ item[i] = "pending" => RetainErases(txn'[r], i)
       /\ \A q \in Actor : q # r /\ txn[q].op = "upload" => txn[q].arg # i \/ txn[q].plan # {}
                                                            \/ txn[q].stage # "writing"
  /\ \A d \in Document : f = Cv(d) =>
       /\ d \in docs => PurgeErases(txn'[r], d)
       /\ \A q \in Actor : q # r /\ txn[q].op \in {"accept", "direct"} =>
            txn[q].arg # d \/ txn[q].stage # "writing"

\* Steps that erase files: each erased file is one that the transaction may
\* erase.
LEMMA FewerFilesKeep ==
  ASSUME IntakeInv, FilesInv, NEW r \in Actor, OthersWait(r), UNCHANGED rows,
         \A f \in File : f \in files \ files' => MayErase(r, f),
         \A i \in Item : RetainErases(txn[r], i) => RetainErases(txn'[r], i),
         \A d \in docs : PurgeErases(txn[r], d) => PurgeErases(txn'[r], d),
         HasWritten(txn[r])'
  PROVE  FilesInv'
<1>1. item' = item /\ docs' = docs /\ docs \subseteq Document
  BY DEF rows, IntakeInv, Typed
<1>2. ASSUME NEW i \in Item PROVE Staged(i) \in File
  BY DEF File
<1>3. ASSUME NEW d \in Document PROVE Cv(d) \in File
  BY DEF File
<1>4. ASSUME NEW i \in Item, item'[i] = "pending"
      PROVE  Staged(i) \in files' \/ \E q \in Actor : RetainErases(txn'[q], i)
  BY <1>1, <1>2, <1>4 DEF FilesInv, OthersWait, MayErase
<1>5. ASSUME NEW d \in docs'
      PROVE  Cv(d) \in files' \/ \E q \in Actor : PurgeErases(txn'[q], d)
  BY <1>1, <1>3, <1>5 DEF FilesInv, OthersWait, MayErase
<1>6. ASSUME NEW q \in Actor PROVE HasWritten(txn[q])'
  <2>1. CASE q = r
    BY <2>1
  <2>2. ASSUME q # r, txn[q].stage = "writing", txn[q].op = "upload", txn[q].plan = {}
        PROVE  Staged(txn[q].arg) \in files'
    <3>1. txn[q].arg \in Item /\ Staged(txn[q].arg) \in files
      BY <2>2, ExceptTxn DEF Standing, UploadStanding, FilesInv, HasWritten
    <3> QED
      BY <1>2, <2>2, <3>1 DEF MayErase
  <2>3. ASSUME q # r, txn[q].stage = "writing", txn[q].op \in {"accept", "direct"}
        PROVE  Cv(txn[q].arg) \in files'
    <3>1. txn[q].arg \in Document /\ Cv(txn[q].arg) \in files
      BY <2>3, ExceptTxn DEF Standing, AcceptStanding, DirectStanding, FilesInv, HasWritten, Document
    <3> QED
      BY <1>3, <2>3, <3>1 DEF MayErase
  <2> QED
    BY <2>1, <2>2, <2>3 DEF OthersWait, HasWritten
<1> QED
  BY <1>4, <1>5, <1>6 DEF FilesInv

\* A document on file is nobody's upload any more.
LEMMA UploadsAreNew ==
  ASSUME IntakeInv, NEW q \in Actor, txn[q].stage = "writing"
  PROVE  /\ txn[q].op = "upload" => txn[q].arg \in Item /\ item[txn[q].arg] = "absent"
         /\ txn[q].op \in {"accept", "direct"} =>
              txn[q].arg \in Document /\ txn[q].arg \notin docs /\ owner[txn[q].arg] = Nobody
<1>1. txn[q].op = "upload" => txn[q].arg \in Item /\ item[txn[q].arg] = "absent"
  BY DEF IntakeInv, Standing, UploadStanding
<1>2. txn[q].op \in {"accept", "direct"} => txn[q].arg \in Document /\ owner[txn[q].arg] = Nobody
  BY DEF IntakeInv, Standing, AcceptStanding, DirectStanding, BornOfItems, Document
<1>3. \A d \in docs : owner[d] # Nobody
  BY IntakeAssumption DEF IntakeInv, OwnersAreReal, Nobody
<1> QED
  BY <1>1, <1>2, <1>3

\* Erasing a file of its plan, a purge or retention run still answers for the
\* row.
LEMMA EraseKeepsFiles ==
  ASSUME IntakeInv, FilesInv, NEW r \in Actor, Erase(r)
  PROVE  FilesInv'
<1>1. PICK f \in txn[r].left : files' = files \ {f} /\ txn' = [txn EXCEPT ![r].left = @ \ {f}]
  BY DEF Erase
<1>2. UNCHANGED rows /\ txn[r].stage \in {"writing", "hooks"}
  BY DEF Erase
<1>3. txn \in [Actor -> Txn] /\ txn[r] \in Txn /\ Standing(txn[r])
  BY ExceptTxn
<1>4. /\ txn'[r].op = txn[r].op /\ txn'[r].arg = txn[r].arg /\ txn'[r].stage = txn[r].stage
      /\ txn'[r].plan = txn[r].plan /\ OthersWait(r)
  BY <1>1, <1>3 DEF Txn, OthersWait
<1>5. \/ txn[r].op = "purge" /\ txn[r].stage = "writing" /\ PurgeStanding(txn[r])
      \/ txn[r].op = "retain" /\ txn[r].stage = "writing" /\ RetainStanding(txn[r])
      \/ txn[r].stage = "hooks" /\ HookStanding(txn[r])
  BY <1>1, <1>2, <1>3 DEF Standing, UploadStanding, AcceptStanding, SkipStanding, DiscardStanding,
                    DirectStanding, ProfileStanding, DecisionStanding, Txn, Op
<1>6. MayErase(r, f)
  <2>1. CASE txn[r].op = "purge" /\ txn[r].stage = "writing" /\ PurgeStanding(txn[r])
    <3>1. PICK d \in txn[r].plan : f = Cv(d)
      BY <1>1, <2>1 DEF PurgeStanding
    <3>2. d \in docs /\ PurgeErases(txn'[r], d)
      BY <1>4, <2>1, <3>1 DEF PurgeStanding, DocsOf, PurgeErases
    <3> QED
      BY <3>1, <3>2, RowsDiffer, UploadsAreNew DEF MayErase
  <2>2. CASE txn[r].op = "retain" /\ txn[r].stage = "writing" /\ RetainStanding(txn[r])
    <3>1. PICK i \in txn[r].plan : f = Staged(i)
      BY <1>1, <2>2 DEF RetainStanding
    <3>2. i \in Item /\ item[i] # "absent" /\ RetainErases(txn'[r], i)
      BY <1>4, <2>2, <3>1 DEF RetainStanding, Unsettled, RetainErases
    <3> QED
      BY <3>1, <3>2, RowsDiffer, UploadsAreNew DEF MayErase
  <2>3. CASE txn[r].stage = "hooks" /\ HookStanding(txn[r])
    <3>1. PICK i \in Item : f = Staged(i) /\ item[i] \in {"created", "skipped"}
      BY <1>1, <2>3 DEF HookStanding
    <3> QED
      BY <3>1, RowsDiffer, UploadsAreNew DEF MayErase
  <2> QED
    BY <1>5, <2>1, <2>2, <2>3
<1>7. HasWritten(txn[r])'
  BY <1>4, <1>5, <1>3 DEF HasWritten, HookStanding
<1> QED
  BY <1>1, <1>2, <1>4, <1>6, <1>7, FewerFilesKeep DEF RetainErases, PurgeErases

\* A rollback removes only what the same transaction stored; a reliable purge
\* or retention run does not roll back.
LEMMA RollbackKeepsFiles ==
  ASSUME Reliable, IntakeInv, FilesInv, NEW r \in Actor, Rollback(r)
  PROVE  FilesInv'
<1>1. /\ End(r) /\ UNCHANGED rows /\ files' = files \ Fresh(r) /\ txn[r].stage = "writing"
      /\ txn[r].op \notin {"purge", "retain"}
  BY DEF Rollback, Reliable
<1>2. OthersWait(r) /\ txn'[r] = Idle
  BY <1>1, EndStands DEF Alone, OthersWait
<1>3. HasWritten(txn[r])'
  BY <1>2 DEF HasWritten, Idle
<1>4. txn[r] \in Txn /\ Standing(txn[r]) /\ LocksHeld(txn[r])
  BY ExceptTxn
<1>5. CASE txn[r].op = "upload" /\ txn[r].plan = {}
  <2>1. Fresh(r) = {Staged(txn[r].arg)}
    BY <1>1, <1>5 DEF Fresh
  <2>2. txn[r].arg \in Item /\ item[txn[r].arg] = "absent"
    BY <1>1, <1>5, UploadsAreNew
  <2>3. \A q \in Actor : q # r /\ txn[q].op = "upload" => txn[q].arg # txn[r].arg
    BY <1>5 DEF IntakeInv, OneUploader
  <2>4. MayErase(r, Staged(txn[r].arg))
    BY <2>2, <2>3, RowsDiffer DEF MayErase
  <2> QED
    BY <1>1, <1>2, <1>3, <2>1, <2>4, FewerFilesKeep DEF RetainErases, PurgeErases
<1>6. CASE txn[r].op \in {"accept", "direct"}
  <2>1. Fresh(r) = {Cv(txn[r].arg)}
    BY <1>1, <1>6 DEF Fresh
  <2>2. txn[r].arg \in Document /\ txn[r].arg \notin docs
    BY <1>1, <1>6, UploadsAreNew
  <2>3. ASSUME NEW q \in Actor, q # r, txn[q].op \in {"accept", "direct"},
               txn[q].stage = "writing"
        PROVE  txn[q].arg # txn[r].arg
    BY <1>1, <1>6, <2>3, HeldInWriting DEF IntakeInv, Apart, Keeps
  <2>4. MayErase(r, Cv(txn[r].arg))
    BY <2>2, <2>3, RowsDiffer DEF MayErase
  <2> QED
    BY <1>1, <1>2, <1>3, <2>1, <2>4, FewerFilesKeep DEF RetainErases, PurgeErases
<1>7. CASE ~(txn[r].op = "upload" /\ txn[r].plan = {}) /\ txn[r].op \notin {"accept", "direct"}
  <2>1. Fresh(r) = {}
    BY <1>7 DEF Fresh
  <2> QED
    BY <1>1, <2>1, EndsQuietly, QuietKeepsFiles
<1> QED
  BY <1>5, <1>6, <1>7

\* A process that dies, or a hook that fails, takes no file of a row along.
LEMMA LossKeepsFiles ==
  ASSUME Reliable, IntakeInv, FilesInv, NEW r \in Actor, Crash(r) \/ HookFails(r)
  PROVE  FilesInv'
<1>1. End(r) /\ UNCHANGED <<rows, files>>
  <2>1. CASE Crash(r)
    BY <2>1 DEF Crash
  <2>2. CASE HookFails(r)
    BY <2>2 DEF HookFails, Reliable
  <2> QED
    BY <2>1, <2>2
<1>2. txn[r].stage = "writing" => txn[r].op \notin {"purge", "retain"}
  BY DEF Crash, HookFails, Reliable
<1> QED
  BY <1>1, <1>2, EndsQuietly, QuietKeepsFiles

-----------------------------------------------------------------------------
\* At the start there is neither an item nor a document.
LEMMA FilesInit == Init => FilesInv
BY DEF Init, FilesInv, HasWritten, Idle

\* FilesInv is inductive together with IntakeInv.
LEMMA FilesKeep ==
  ASSUME Reliable, IntakeInv, FilesInv, [Next]_vars
  PROVE  FilesInv'
<1>1. CASE UNCHANGED vars
  BY <1>1 DEF vars, rows, FilesInv, HasWritten
<1>2. ASSUME NEW r \in Actor, Start(r) PROVE FilesInv'
  BY <1>2, StartIsQuiet, QuietKeepsFiles
<1>3. ASSUME NEW r \in Actor, Step(r) PROVE FilesInv'
  BY <1>3, DecidingIsQuiet, VictimIsQuiet, QuietKeepsFiles, UploadKeepsFiles, StoreKeepsFiles,
     EraseKeepsFiles DEF Step
<1>4. ASSUME NEW r \in Actor, Commit(r) PROVE FilesInv'
  BY <1>4, CommitKeepsFiles
<1>5. ASSUME NEW r \in Actor, Mishap(r) PROVE FilesInv'
  BY <1>5, RollbackKeepsFiles, LossKeepsFiles DEF Mishap
<1> QED
  BY <1>1, <1>2, <1>3, <1>4, <1>5 DEF Next

\* While purges, retention runs and the hooks of accepts are reliable, a row
\* without its file is about to be removed by the transaction that erased it
\* (delete_candidate, apply_retention_plan), and whoever is about to save a row
\* has stored its file (create_candidate_from_intake_item, upload_candidate_cv).
THEOREM FilesInvariant == Reliable => (Spec => []FilesInv)
<1> SUFFICES ASSUME Reliable PROVE Spec => []FilesInv
  OBVIOUS
<1>1. Init => FilesInv
  BY FilesInit
<1>2. IntakeInv /\ FilesInv /\ [Next]_vars => FilesInv'
  BY FilesKeep
<1> QED
  BY <1>1, <1>2, IntakeInvariant, PTL DEF Spec

(* Unless a purge, a retention run or the hooks of an accept die half way,    *)
(* every item awaiting review and every document on file has its bytes, or a  *)
(* transaction that is erasing them is about to remove the row as well.       *)
THEOREM IntakeFiles == Reliable => (Spec => []RowsHaveFiles)
<1>1. FilesInv => RowsHaveFiles
  BY DEF FilesInv, RowsHaveFiles, Erasing, RetainErases, PurgeErases
<1> QED
  BY <1>1, FilesInvariant, PTL

(* So only a failed hook of an accept takes the CV of an accepted item away.  *)
THEOREM AcceptsAreStored == Reliable => (Spec => []AcceptedCvIsStored)
<1>1. FilesInv => AcceptedCvIsStored
  BY DEF FilesInv, AcceptedCvIsStored, Erasing, PurgeErases
<1> QED
  BY <1>1, FilesInvariant, PTL
=============================================================================
