-------------------------- MODULE CvIntake_proofs --------------------------
(***************************************************************************)
(* Theorems about CvIntake, for every set of actors, batches, items,       *)
(* candidates, hashes and identity keys, and every choice of failures.     *)
(*                                                                         *)
(* IntakeInv strengthens the safety properties with what each transaction  *)
(* knows between its check and its commit (Standing).  It knows it because *)
(* it holds the rows it checked (LocksHeld), no two transactions hold the  *)
(* same row (Apart), and a row only changes under its lock (UnderLocks).   *)
(***************************************************************************)
EXTENDS CvIntake, FiniteSetTheorems, TLAPS

-----------------------------------------------------------------------------
(* Types. *)

File == {Staged(i) : i \in Item} \cup {Cv(d) : d \in Document}
Row == {Organization} \cup {BatchRow(b) : b \in Batch} \cup {ItemRow(i) : i \in Item}
       \cup {PersonRow(c) : c \in Candidate} \cup {CvRow(d) : d \in Document}
Txn == [op : Op \cup {"none"}, arg : Document \cup Candidate \cup Batch \cup {Nobody},
        stage : {"idle", "deciding", "storing", "writing", "hooks"},
        todo : Seq(Row), held : SUBSET Row, owner : Candidate \cup {Nobody},
        plan : SUBSET Document, left : SUBSET File, closes : BOOLEAN]

Typed ==
  /\ batch \in [Batch -> {"open", "completed", "discarded"}]
  /\ vacant \subseteq Batch
  /\ item \in [Item -> {"absent", "pending", "created", "skipped"}]
  /\ status \in [Candidate -> {"absent", "active", "inactive", "requested", "deleted"}]
  /\ docs \subseteq Document /\ profiled \subseteq Document
  /\ owner \in [Document -> Candidate \cup {Nobody}]
  /\ sourced \subseteq Candidate \X Item
  /\ files \subseteq File
  /\ txn \in [Actor -> Txn]
  /\ faults \in Nat /\ losses \in Nat

-----------------------------------------------------------------------------
(* Locks. *)

\* No row is held by two transactions.
Apart == \A r, q \in Actor : r # q => txn[r].held \cap txn[q].held = {}

\* A direct upload begins with storing.
First(t) == t.stage = "deciding" \/ (t.op = "direct" /\ t.stage = "storing")

\* Rows that t holds or is still going to lock.
Wanted(t) == t.held \cup {t.todo[k] : k \in DOMAIN t.todo}

\* Whoever is past its first locks holds them.
Takes(t, S) == S \subseteq (IF First(t) THEN Wanted(t) ELSE t.held)

\* An accept that reuses a candidate locks that one, too, before it writes.
LocksHeld(t) ==
  /\ t.stage \in {"deciding", "storing", "writing"} =>
       /\ t.op = "upload"  => Takes(t, {Organization, BatchRow(BatchOf[t.arg])})
       /\ t.op = "accept"  => Takes(t, {Organization, ItemRow(t.arg), BatchRow(BatchOf[t.arg])})
       /\ t.op = "skip"    => Takes(t, {ItemRow(t.arg), BatchRow(BatchOf[t.arg])})
       /\ t.op = "discard" => Takes(t, {BatchRow(t.arg)})
       /\ t.op = "direct"  => Takes(t, {Organization, PersonRow(t.owner)})
       /\ t.op = "profile" => Takes(t, {CvRow(t.arg), PersonRow(owner[t.arg])})
       /\ t.op \in {"request", "cancel", "purge"} => Takes(t, {PersonRow(t.arg)})
       /\ t.op = "retain"  => Takes(t, {Organization})
  /\ t.op = "accept" /\ t.stage \in {"storing", "writing"} /\ t.owner # t.arg
       => PersonRow(t.owner) \in Wanted(t)
  /\ t.stage \in {"idle", "writing", "hooks"} => t.todo = <<>>
  /\ t.stage \in {"idle", "hooks"} => t.held = {}

-----------------------------------------------------------------------------
(* What a transaction knows of the rows. *)

Here(c) == status[c] \notin {"absent", "deleted"}
NoTwinOf(i) == \A c \in Candidate : Here(c) => Ids[c] \cap Ids[i] = {}
NoPendingCopy(i) == \A j \in Item : item[j] = "pending" => Hash[j] # Hash[i]

UploadStanding(t) ==
  /\ t.arg \in Item /\ item[t.arg] = "absent"
  /\ t.stage \in {"deciding", "writing"} /\ t.left = {}
  /\ t.stage = "deciding" => t.plan = {} /\ ~t.closes
  /\ t.stage = "writing" =>
       /\ batch[BatchOf[t.arg]] = "open"
       /\ t.plan = {} => Copies(t.arg) = {} /\ NoPendingCopy(t.arg)
       /\ t.plan # {} => t.owner \in Candidate /\ \A d \in t.plan : owner[d] = t.owner
       /\ t.closes => LastPending(t.arg)

AcceptStanding(t) ==
  /\ t.arg \in Item
  /\ t.stage \in {"deciding", "storing", "writing"} /\ t.left = {}
  /\ t.stage \in {"storing", "writing"} =>
       /\ item[t.arg] = "pending" /\ t.owner \in Candidate
       /\ t.owner = t.arg => NoTwinOf(t.arg)
       /\ t.owner # t.arg => status[t.owner] # "absent"
  /\ t.stage = "writing" =>
       /\ Copies(t.arg) = {}
       /\ ~Frozen(t.owner)
       /\ t.closes => LastPending(t.arg)

SkipStanding(t) ==
  /\ t.arg \in Item
  /\ t.stage \in {"deciding", "writing"} /\ t.left = {}
  /\ item[t.arg] # "absent"
  /\ t.stage = "writing" => /\ item[t.arg] \in {"pending", "skipped"}
                            /\ t.closes => LastPending(t.arg)

\* Some of what a discarded batch or retention planned may be skipped already.
Unsettled(S) == S \subseteq {i \in Item : item[i] \in {"pending", "skipped"}}

DiscardStanding(t) ==
  /\ t.arg \in Batch
  /\ t.stage \in {"deciding", "storing", "writing"} /\ t.left = {}
  /\ t.stage # "deciding" => /\ Pending(t.arg) \subseteq t.plan /\ Unsettled(t.plan)
                             /\ \A i \in t.plan : BatchOf[i] = t.arg

DirectStanding(t) ==
  /\ t.arg \in Direct /\ t.owner \in Candidate
  /\ t.stage \in {"storing", "writing"} /\ t.left = {}
  /\ owner[t.arg] = Nobody /\ status[t.owner] # "absent"
  /\ t.stage = "writing" => Copies(t.arg) = {} /\ ~Frozen(t.owner)

ProfileStanding(t) ==
  /\ t.arg \in Document /\ owner[t.arg] \in Candidate
  /\ t.stage \in {"deciding", "writing"} /\ t.left = {}
  /\ t.stage = "writing" => t.arg \in docs

DecisionStanding(t) ==
  /\ t.arg \in Candidate /\ status[t.arg] # "absent"
  /\ t.stage \in {"deciding", "writing"} /\ t.left = {}
  /\ t.stage = "writing" => Here(t.arg)

PurgeStanding(t) ==
  /\ t.arg \in Candidate /\ status[t.arg] # "absent"
  /\ t.stage \in {"deciding", "storing", "writing"}
  /\ t.stage # "deciding" => status[t.arg] = "requested" /\ t.plan = DocsOf(t.arg)
  /\ t.stage # "writing" => t.left = {}
  /\ t.left \subseteq {Cv(d) : d \in t.plan}
  /\ t.stage = "writing" => \A d \in t.plan : Cv(d) \in files => Cv(d) \in t.left

RetainStanding(t) ==
  /\ t.stage \in {"deciding", "storing", "writing"}
  /\ t.stage # "deciding" => Unsettled(t.plan)
  /\ t.stage # "writing" => t.left = {}
  /\ t.left \subseteq {Staged(i) : i \in t.plan}
  /\ t.stage = "writing" =>
       \A i \in t.plan : item[i] = "pending" /\ Staged(i) \in files => Staged(i) \in t.left

\* Hooks erase files of settled items only.
HookStanding(t) ==
  /\ t.op \in {"accept", "skip", "discard"}
  /\ t.left \subseteq {Staged(i) : i \in {j \in Item : item[j] \in {"created", "skipped"}}}

Standing(t) ==
  /\ t.stage = "idle" <=> t.op = "none"
  /\ t.stage = "idle" => t = Idle
  /\ t.stage = "hooks" => HookStanding(t)
  /\ t.stage # "hooks" =>
       /\ t.op = "upload"  => UploadStanding(t)
       /\ t.op = "accept"  => AcceptStanding(t)
       /\ t.op = "skip"    => SkipStanding(t)
       /\ t.op = "discard" => DiscardStanding(t)
       /\ t.op = "direct"  => DirectStanding(t)
       /\ t.op = "profile" => ProfileStanding(t)
       /\ t.op \in {"request", "cancel"} => DecisionStanding(t)
       /\ t.op = "purge"   => PurgeStanding(t)
       /\ t.op = "retain"  => RetainStanding(t)

-----------------------------------------------------------------------------
(* What the rows say of one another. *)

\* An upload is in one request's hands.
OneUploader == \A r, q \in Actor :
  txn[r].op = txn[q].op /\ txn[r].op \in {"upload", "direct"} /\ txn[r].arg = txn[q].arg => r = q

\* Candidates and documents of an item exist once the item is accepted.
BornOfItems == \A i \in Item :
  item[i] # "created" => status[i] = "absent" /\ owner[i] = Nobody

OwnersAreReal ==
  /\ \A d \in docs : owner[d] \in Candidate
  /\ \A d \in Document : owner[d] # Nobody => status[owner[d]] # "absent"
  /\ profiled \subseteq docs

TombstonesAreBare == \A c \in Candidate : status[c] = "deleted" =>
  DocsOf(c) = {} /\ \A s \in sourced : s[1] # c

\* The exact account of what is in storage, unless something was lost.
StoredCvs == losses = 0 => \A d \in Document : Cv(d) \in files =>
  d \in docs \/ \E r \in Actor : /\ txn[r].stage = "writing" /\ txn[r].arg = d
                                 /\ txn[r].op \in {"accept", "direct"}
StagedCvs == losses = 0 => \A i \in Item : Staged(i) \in files =>
  \/ item[i] = "pending"
  \/ \E r \in Actor : /\ txn[r].stage = "writing" /\ txn[r].arg = i
                      /\ txn[r].op = "upload" /\ txn[r].plan = {}
  \/ \E r \in Actor : txn[r].stage = "hooks" /\ Staged(i) \in txn[r].left

IntakeInv ==
  /\ Typed /\ Apart
  /\ \A r \in Actor : LocksHeld(txn[r])
  /\ \A r \in Actor : Standing(txn[r])
  /\ OneUploader /\ BornOfItems /\ OwnersAreReal /\ TombstonesAreBare
  /\ OneCopyPerCv /\ IntakeMakesNoTwins /\ ClosedBatchIsDone
  /\ StoredCvs /\ StagedCvs
-----------------------------------------------------------------------------
(* What one transaction may do to the rows while others are at work. *)

Keeps(r, row) == row \in txn[r].held

ItemMoves(r, i) ==
  \/ /\ item[i] = "absent" /\ item'[i] \in {"pending", "created"}
     /\ txn[r].op = "upload" /\ txn[r].arg = i
     /\ Keeps(r, Organization) /\ Keeps(r, BatchRow(BatchOf[i]))
  \/ /\ item[i] = "pending" /\ item'[i] = "created"
     /\ Keeps(r, Organization) /\ Keeps(r, BatchRow(BatchOf[i]))
  \/ /\ item[i] = "pending" /\ item'[i] = "skipped"
     /\ Keeps(r, Organization) \/ Keeps(r, BatchRow(BatchOf[i]))

StatusMoves(r, c) ==
  /\ status'[c] # "absent"
  /\ IF status[c] = "absent" THEN Keeps(r, Organization) ELSE Keeps(r, PersonRow(c))
  /\ Here(c) \/ ~Here(c)' \/ Keeps(r, Organization)

DocAdded(r, d) ==
  /\ owner[d] = Nobody /\ owner'[d] \in Candidate
  /\ txn[r].arg = d /\ txn[r].op \in {"accept", "direct"} /\ txn[r].stage # "hooks"
  /\ Keeps(r, Organization)
  /\ Keeps(r, PersonRow(owner'[d])) \/ status[owner'[d]] = "absent"

UnderLocks(r) ==
  /\ \A q \in Actor : q # r => txn'[q] = txn[q]
  /\ \A i \in Item : item'[i] # item[i] => ItemMoves(r, i)
  /\ \A b \in Batch : batch'[b] # batch[b] => Keeps(r, BatchRow(b))
  /\ \A c \in Candidate : status'[c] # status[c] => StatusMoves(r, c)
  /\ \A d \in docs' \ docs : DocAdded(r, d)
  /\ \A d \in docs \ docs' : Keeps(r, PersonRow(owner[d]))
  /\ \A d \in Document : owner'[d] # owner[d] => d \in docs' \ docs
  /\ \A d \in Document : Cv(d) \in files' \ files => owner[d] = Nobody
  /\ \A i \in Item : Staged(i) \in files' \ files => item[i] = "absent"

-----------------------------------------------------------------------------
(* Rows are told apart by their kind and by what they are the row of. *)
LEMMA RowsDiffer ==
  /\ \A b, c : BatchRow(b) = BatchRow(c) => b = c
  /\ \A b, c : ItemRow(b) = ItemRow(c) => b = c
  /\ \A b, c : PersonRow(b) = PersonRow(c) => b = c
  /\ \A b, c : Staged(b) = Staged(c) => b = c
  /\ \A b, c : Cv(b) = Cv(c) => b = c
  /\ \A b, c : Staged(b) # Cv(c)
BY DEF BatchRow, ItemRow, PersonRow, Staged, Cv

(* Transaction q finds its standing untouched by what r does under its locks. *)
LEMMA UploadStands ==
  ASSUME IntakeInv, NEW r \in Actor, NEW q \in Actor, q # r, UnderLocks(r),
         txn[q].op = "upload", txn[q].stage # "hooks"
  PROVE  UploadStanding(txn[q])'
<1> DEFINE t == txn[q]
<1>1. /\ UploadStanding(t) /\ LocksHeld(t) /\ txn'[q] = t
      /\ t.held \cap txn[r].held = {}
  BY DEF IntakeInv, Standing, Apart, UnderLocks
<1>2. item'[t.arg] = "absent"
  BY <1>1 DEF UploadStanding, UnderLocks, ItemMoves, IntakeInv, OneUploader
<1>3. ASSUME t.stage = "writing"
      PROVE  /\ batch'[BatchOf[t.arg]] = "open"
             /\ t.plan = {} => Copies(t.arg)' = {} /\ NoPendingCopy(t.arg)'
             /\ t.plan # {} => t.owner \in Candidate /\ \A d \in t.plan : owner'[d] = t.owner
             /\ t.closes => LastPending(t.arg)'
  <2>1. Keeps(q, Organization) /\ Keeps(q, BatchRow(BatchOf[t.arg]))
    BY <1>1, <1>3 DEF LocksHeld, First, Takes, Keeps
  <2>2. ~Keeps(r, Organization) /\ ~Keeps(r, BatchRow(BatchOf[t.arg]))
    BY <1>1, <2>1 DEF Keeps
  <2>3. BatchOf[t.arg] \in Batch
    BY <1>1, IntakeAssumption DEF UploadStanding
  <2>4. batch'[BatchOf[t.arg]] = "open"
    BY <1>1, <1>3, <2>2, <2>3 DEF UploadStanding, UnderLocks
  <2>5. docs' \subseteq docs
    BY <2>2 DEF UnderLocks, DocAdded
  <2>6. \A i \in Item : item'[i] = "pending" => item[i] = "pending"
    BY <2>2 DEF UnderLocks, ItemMoves
  <2>7. t.plan = {} => Copies(t.arg)' = {} /\ NoPendingCopy(t.arg)'
    BY <1>1, <1>3, <2>5, <2>6 DEF UploadStanding, Copies, NoPendingCopy
  <2>8. ASSUME t.plan # {}
        PROVE  t.owner \in Candidate /\ \A d \in t.plan : owner'[d] = t.owner
    <3>1. t.owner \in Candidate /\ \A d \in t.plan : owner[d] = t.owner /\ d \in Document
      BY <1>1, <1>3, <2>8 DEF UploadStanding, IntakeInv, Typed, Txn
    <3> QED
      BY <3>1, IntakeAssumption DEF UnderLocks, DocAdded, Nobody
  <2>9. t.closes => LastPending(t.arg)'
    BY <1>1, <1>3, <2>6 DEF UploadStanding, LastPending, Pending
  <2> QED
    BY <2>4, <2>7, <2>8, <2>9
<1> QED
  BY <1>1, <1>2, <1>3 DEF UploadStanding

\* Whoever accepts holds item, batch and organization: what it found stands.
LEMMA AcceptStands ==
  ASSUME IntakeInv, NEW r \in Actor, NEW q \in Actor, q # r, UnderLocks(r),
         txn[q].op = "accept", txn[q].stage # "hooks"
  PROVE  AcceptStanding(txn[q])'
<1> DEFINE t == txn[q]
<1>1. /\ AcceptStanding(t) /\ LocksHeld(t) /\ txn'[q] = t
      /\ t.held \cap txn[r].held = {}
  BY DEF IntakeInv, Standing, Apart, UnderLocks
<1>2. ASSUME t.stage \in {"storing", "writing"}
      PROVE  /\ item'[t.arg] = "pending" /\ t.owner \in Candidate
             /\ t.owner = t.arg => NoTwinOf(t.arg)'
             /\ t.owner # t.arg => status'[t.owner] # "absent"
             /\ t.stage = "writing" => Copies(t.arg)' = {} /\ ~Frozen(t.owner)'
                                       /\ (t.closes => LastPending(t.arg)')
  <2>1. Keeps(q, Organization) /\ Keeps(q, BatchRow(BatchOf[t.arg]))
    BY <1>1, <1>2 DEF LocksHeld, First, Takes, Keeps
  <2>2. ~Keeps(r, Organization) /\ ~Keeps(r, BatchRow(BatchOf[t.arg]))
    BY <1>1, <2>1 DEF Keeps
  <2>3. item'[t.arg] = "pending" /\ t.owner \in Candidate
    BY <1>1, <1>2, <2>2 DEF AcceptStanding, UnderLocks, ItemMoves
  <2>4. t.owner = t.arg => NoTwinOf(t.arg)'
    BY <1>1, <1>2, <2>2 DEF AcceptStanding, UnderLocks, StatusMoves, NoTwinOf, Here
  <2>5. t.owner # t.arg => status'[t.owner] # "absent"
    BY <1>1, <1>2 DEF AcceptStanding, UnderLocks, StatusMoves
  <2>6. docs' \subseteq docs
    BY <2>2 DEF UnderLocks, DocAdded
  <2>7. t.stage = "writing" => Copies(t.arg)' = {}
    BY <1>1, <2>6 DEF AcceptStanding, Copies
  <2>8. ASSUME t.stage = "writing" PROVE ~Frozen(t.owner)'
    <3>1. CASE t.owner = t.arg
      <4>1. status[t.owner] = "absent"
        BY <1>1, <1>2, <3>1 DEF AcceptStanding, IntakeInv, BornOfItems
      <4> QED
        BY <1>1, <1>2, <2>2, <2>8, <4>1 DEF AcceptStanding, UnderLocks, StatusMoves, Frozen, IntakeInv
    <3>2. CASE t.owner # t.arg
      <4>1. PersonRow(t.owner) \in t.held
        BY <1>1, <2>8, <3>2 DEF LocksHeld, Wanted
      <4> QED
        BY <1>1, <1>2, <2>2, <2>8, <4>1 DEF AcceptStanding, UnderLocks, StatusMoves, Frozen, Keeps
    <3> QED
      BY <3>1, <3>2
  <2>9. t.stage = "writing" /\ t.closes => LastPending(t.arg)'
    BY <1>1, <2>2 DEF AcceptStanding, LastPending, Pending, UnderLocks, ItemMoves
  <2> QED
    BY <2>3, <2>4, <2>5, <2>7, <2>8, <2>9
<1> QED
  BY <1>1, <1>2 DEF AcceptStanding

\* Whoever skips holds the item and its batch.
LEMMA SkipStands ==
  ASSUME IntakeInv, NEW r \in Actor, NEW q \in Actor, q # r, UnderLocks(r),
         txn[q].op = "skip", txn[q].stage # "hooks"
  PROVE  SkipStanding(txn[q])'
<1> DEFINE t == txn[q]
<1>1. /\ SkipStanding(t) /\ LocksHeld(t) /\ txn'[q] = t
      /\ t.held \cap txn[r].held = {}
  BY DEF IntakeInv, Standing, Apart, UnderLocks
<1>2. item'[t.arg] # "absent"
  BY <1>1 DEF SkipStanding, UnderLocks, ItemMoves
<1>3. ASSUME t.stage = "writing"
      PROVE  item'[t.arg] \in {"pending", "skipped"} /\ (t.closes => LastPending(t.arg)')
  <2>1. ~Keeps(r, BatchRow(BatchOf[t.arg]))
    BY <1>1, <1>3 DEF LocksHeld, First, Takes, Keeps
  <2>2. item'[t.arg] \in {"pending", "skipped"}
    BY <1>1, <1>3, <2>1 DEF SkipStanding, UnderLocks, ItemMoves
  <2>3. t.closes => LastPending(t.arg)'
    BY <1>1, <1>3, <2>1 DEF SkipStanding, LastPending, Pending, UnderLocks, ItemMoves
  <2> QED
    BY <2>2, <2>3
<1> QED
  BY <1>1, <1>2, <1>3 DEF SkipStanding

\* Whoever discards holds the batch and the items it has locked.
LEMMA DiscardStands ==
  ASSUME IntakeInv, NEW r \in Actor, NEW q \in Actor, q # r, UnderLocks(r),
         txn[q].op = "discard", txn[q].stage # "hooks"
  PROVE  DiscardStanding(txn[q])'
<1> DEFINE t == txn[q]
<1>1. /\ DiscardStanding(t) /\ LocksHeld(t) /\ txn'[q] = t
      /\ t.held \cap txn[r].held = {}
  BY DEF IntakeInv, Standing, Apart, UnderLocks
<1>2. ASSUME t.stage # "deciding"
      PROVE  Pending(t.arg)' \subseteq t.plan /\ Unsettled(t.plan)'
  <2>1. ~Keeps(r, BatchRow(t.arg))
    BY <1>1, <1>2 DEF LocksHeld, First, Takes, Keeps, DiscardStanding
  <2>2. Pending(t.arg)' \subseteq t.plan
    BY <1>1, <1>2, <2>1 DEF DiscardStanding, Pending, UnderLocks, ItemMoves
  <2>3. ASSUME NEW i \in t.plan PROVE i \in Item /\ item'[i] \in {"pending", "skipped"}
    <3>1. i \in Item /\ item[i] \in {"pending", "skipped"} /\ BatchOf[i] = t.arg
      BY <1>1, <1>2 DEF DiscardStanding, Unsettled
    <3> QED
      BY <2>1, <3>1 DEF UnderLocks, ItemMoves
  <2> QED
    BY <1>1, <2>2, <2>3 DEF Unsettled
<1> QED
  BY <1>1, <1>2 DEF DiscardStanding

\* A direct upload holds the organization and the candidate.
LEMMA DirectStands ==
  ASSUME IntakeInv, NEW r \in Actor, NEW q \in Actor, q # r, UnderLocks(r),
         txn[q].op = "direct", txn[q].stage # "hooks"
  PROVE  DirectStanding(txn[q])'
<1> DEFINE t == txn[q]
<1>1. /\ DirectStanding(t) /\ LocksHeld(t) /\ txn'[q] = t
      /\ t.held \cap txn[r].held = {}
  BY DEF IntakeInv, Standing, Apart, UnderLocks
<1>2. status'[t.owner] # "absent"
  BY <1>1 DEF DirectStanding, UnderLocks, StatusMoves
<1>3. owner'[t.arg] = Nobody
  <2>1. SUFFICES ASSUME owner'[t.arg] # Nobody PROVE FALSE
    OBVIOUS
  <2>2. DocAdded(r, t.arg)
    BY <1>1, <2>1 DEF DirectStanding, UnderLocks, Document
  <2>3. txn[r].op = "accept"
    BY <1>1, <2>2 DEF DocAdded, IntakeInv, OneUploader
  <2>4. txn[r].arg \in Item
    BY <2>2, <2>3 DEF DocAdded, IntakeInv, Standing, AcceptStanding
  <2> QED
    BY <1>1, <2>2, <2>4, IntakeAssumption DEF DocAdded, DirectStanding
<1>4. ASSUME t.stage = "writing"
      PROVE  Copies(t.arg)' = {} /\ ~Frozen(t.owner)'
  <2>1. ~Keeps(r, Organization) /\ ~Keeps(r, PersonRow(t.owner))
    BY <1>1, <1>4 DEF LocksHeld, First, Takes, Keeps
  <2>2. docs' \subseteq docs
    BY <2>1 DEF UnderLocks, DocAdded
  <2>3. Copies(t.arg)' = {}
    BY <1>1, <1>4, <2>2 DEF DirectStanding, Copies
  <2>4. ~Frozen(t.owner)'
    BY <1>1, <1>4, <2>1 DEF DirectStanding, UnderLocks, StatusMoves, Frozen
  <2> QED
    BY <2>3, <2>4
<1> QED
  BY <1>1, <1>2, <1>3, <1>4 DEF DirectStanding

\* A document never changes hands.
LEMMA OwnerStays ==
  ASSUME IntakeInv, NEW r \in Actor, UnderLocks(r), NEW d \in Document, owner[d] # Nobody
  PROVE  owner'[d] = owner[d]
BY DEF UnderLocks, DocAdded

\* Whoever saves a profile holds the document and its candidate.
LEMMA ProfileStands ==
  ASSUME IntakeInv, NEW r \in Actor, NEW q \in Actor, q # r, UnderLocks(r),
         txn[q].op = "profile", txn[q].stage # "hooks"
  PROVE  ProfileStanding(txn[q])'
<1> DEFINE t == txn[q]
<1>1. /\ ProfileStanding(t) /\ LocksHeld(t) /\ txn'[q] = t
      /\ t.held \cap txn[r].held = {}
  BY DEF IntakeInv, Standing, Apart, UnderLocks
<1>2. owner'[t.arg] \in Candidate
  BY <1>1, OwnerStays, IntakeAssumption DEF ProfileStanding, Nobody
<1>3. ASSUME t.stage = "writing" PROVE t.arg \in docs'
  BY <1>1, <1>3 DEF LocksHeld, First, Takes, Keeps, UnderLocks, ProfileStanding
<1> QED
  BY <1>1, <1>2, <1>3 DEF ProfileStanding

\* A deletion request or its cancellation holds the candidate.
LEMMA DecisionStands ==
  ASSUME IntakeInv, NEW r \in Actor, NEW q \in Actor, q # r, UnderLocks(r),
         txn[q].op \in {"request", "cancel"}, txn[q].stage # "hooks"
  PROVE  DecisionStanding(txn[q])'
<1> DEFINE t == txn[q]
<1>1. /\ DecisionStanding(t) /\ LocksHeld(t) /\ txn'[q] = t
      /\ t.held \cap txn[r].held = {}
  BY DEF IntakeInv, Standing, Apart, UnderLocks
<1>2. status'[t.arg] # "absent"
  BY <1>1 DEF DecisionStanding, UnderLocks, StatusMoves
<1>3. ASSUME t.stage = "writing" PROVE Here(t.arg)'
  <2>1. ~Keeps(r, PersonRow(t.arg))
    BY <1>1, <1>3 DEF LocksHeld, First, Takes, Keeps
  <2> QED
    BY <1>1, <1>3, <2>1 DEF DecisionStanding, Here, UnderLocks, StatusMoves
<1> QED
  BY <1>1, <1>2, <1>3 DEF DecisionStanding

\* A purge holds the candidate and then its documents.
LEMMA PurgeStands ==
  ASSUME IntakeInv, NEW r \in Actor, NEW q \in Actor, q # r, UnderLocks(r),
         txn[q].op = "purge", txn[q].stage # "hooks"
  PROVE  PurgeStanding(txn[q])'
<1> DEFINE t == txn[q]
<1>1. /\ PurgeStanding(t) /\ LocksHeld(t) /\ txn'[q] = t
      /\ t.held \cap txn[r].held = {}
  BY DEF IntakeInv, Standing, Apart, UnderLocks
<1>2. status'[t.arg] # "absent"
  BY <1>1 DEF PurgeStanding, UnderLocks, StatusMoves
<1>3. ASSUME t.stage # "deciding"
      PROVE  status'[t.arg] = "requested" /\ t.plan = DocsOf(t.arg)'
  <2>1. ~Keeps(r, PersonRow(t.arg))
    BY <1>1, <1>3 DEF LocksHeld, First, Takes, Keeps, PurgeStanding
  <2>2. status[t.arg] = "requested" /\ status'[t.arg] = "requested"
    BY <1>1, <1>3, <2>1 DEF PurgeStanding, UnderLocks, StatusMoves
  <2>3. ASSUME NEW d \in docs' \ docs PROVE owner'[d] # t.arg
    BY <2>1, <2>2 DEF UnderLocks, DocAdded
  <2>4. ASSUME NEW d \in docs, owner[d] = t.arg PROVE d \in docs'
    BY <2>1, <2>4 DEF UnderLocks
  <2>5. ASSUME NEW d \in docs PROVE owner'[d] = owner[d]
    BY OwnerStays, IntakeAssumption DEF IntakeInv, Typed, OwnersAreReal, Nobody
  <2>6. t.plan = DocsOf(t.arg)
    BY <1>1, <1>3 DEF PurgeStanding
  <2>7. DocsOf(t.arg)' = DocsOf(t.arg)
    BY <1>1, <2>3, <2>4, <2>5 DEF DocsOf
  <2> QED
    BY <2>2, <2>6, <2>7
<1>4. ASSUME t.stage = "writing", NEW d \in t.plan, Cv(d) \in files' PROVE Cv(d) \in t.left
  <2>1. d \in Document /\ owner[d] # Nobody
    BY <1>1, <1>4, IntakeAssumption
    DEF PurgeStanding, DocsOf, IntakeInv, Typed, OwnersAreReal, Nobody
  <2> QED
    BY <1>1, <1>4, <2>1 DEF PurgeStanding, UnderLocks
<1> QED
  BY <1>1, <1>2, <1>3, <1>4 DEF PurgeStanding

\* A retention run holds the organization and the items it has locked.
LEMMA RetainStands ==
  ASSUME IntakeInv, NEW r \in Actor, NEW q \in Actor, q # r, UnderLocks(r),
         txn[q].op = "retain", txn[q].stage # "hooks"
  PROVE  RetainStanding(txn[q])'
<1> DEFINE t == txn[q]
<1>1. /\ RetainStanding(t) /\ LocksHeld(t) /\ txn'[q] = t
      /\ t.held \cap txn[r].held = {}
  BY DEF IntakeInv, Standing, Apart, UnderLocks
<1>2. ASSUME t.stage # "deciding" PROVE Unsettled(t.plan)'
  <2>1. ~Keeps(r, Organization)
    BY <1>1, <1>2 DEF LocksHeld, First, Takes, Keeps, RetainStanding
  <2>2. ASSUME NEW i \in t.plan PROVE i \in Item /\ item'[i] \in {"pending", "skipped"}
    <3>1. i \in Item /\ item[i] \in {"pending", "skipped"}
      BY <1>1, <1>2 DEF RetainStanding, Unsettled
    <3> QED
      BY <2>1, <3>1 DEF UnderLocks, ItemMoves
  <2> QED
    BY <1>1, <2>2 DEF Unsettled
<1>3. ASSUME t.stage = "writing", NEW i \in t.plan, item'[i] = "pending", Staged(i) \in files'
      PROVE  Staged(i) \in t.left
  <2>1. i \in Item /\ item[i] \in {"pending", "skipped"}
    BY <1>1, <1>3 DEF RetainStanding, Unsettled
  <2>2. item[i] = "pending"
    BY <1>3, <2>1 DEF UnderLocks, ItemMoves
  <2> QED
    BY <1>1, <1>3, <2>1, <2>2 DEF RetainStanding, UnderLocks
<1> QED
  BY <1>1, <1>2, <1>3 DEF RetainStanding

\* After a commit nobody brings back what the hooks are going to erase.
LEMMA HooksStand ==
  ASSUME IntakeInv, NEW r \in Actor, NEW q \in Actor, q # r, UnderLocks(r),
         txn[q].stage = "hooks"
  PROVE  HookStanding(txn[q])'
BY DEF IntakeInv, Standing, HookStanding, UnderLocks, ItemMoves

(* So the others stand, and hold what they held. *)
LEMMA OthersStand ==
  ASSUME IntakeInv, NEW r \in Actor, NEW q \in Actor, q # r, UnderLocks(r)
  PROVE  Standing(txn[q])' /\ LocksHeld(txn[q])'
<1>1. Standing(txn[q]) /\ LocksHeld(txn[q]) /\ txn'[q] = txn[q]
  BY DEF IntakeInv, UnderLocks
<1>2. txn[q].stage # "hooks" =>
        /\ txn[q].op = "upload"  => UploadStanding(txn[q])'
        /\ txn[q].op = "accept"  => AcceptStanding(txn[q])'
        /\ txn[q].op = "skip"    => SkipStanding(txn[q])'
        /\ txn[q].op = "discard" => DiscardStanding(txn[q])'
        /\ txn[q].op = "direct"  => DirectStanding(txn[q])'
  BY UploadStands, AcceptStands, SkipStands, DiscardStands, DirectStands
<1>3. txn[q].stage # "hooks" =>
        /\ txn[q].op = "profile" => ProfileStanding(txn[q])'
        /\ txn[q].op \in {"request", "cancel"} => DecisionStanding(txn[q])'
        /\ txn[q].op = "purge"   => PurgeStanding(txn[q])'
        /\ txn[q].op = "retain"  => RetainStanding(txn[q])'
  BY ProfileStands, DecisionStands, PurgeStands, RetainStands
<1>4. txn[q].stage = "hooks" => HookStanding(txn[q])'
  BY HooksStand
<1>5. Standing(txn[q])'
  BY <1>1, <1>2, <1>3, <1>4 DEF Standing
<1>6. txn[q].op = "profile" /\ txn[q].stage # "hooks" => owner'[txn[q].arg] = owner[txn[q].arg]
  BY <1>1, OwnerStays, IntakeAssumption DEF Standing, ProfileStanding, Nobody
<1>7. LocksHeld(txn[q])'
  BY <1>1, <1>6 DEF LocksHeld, Takes, First, Wanted
<1> QED
  BY <1>5, <1>7

-----------------------------------------------------------------------------
(* Steps that change no row and no file. *)

Still == UNCHANGED <<rows, files, bounds>>

\* r ends or goes on without leaving a file nobody accounts for.
Owes(r) == \/ txn[r].stage = "writing" /\ txn[r].op \in {"accept", "direct"}
           \/ txn[r].stage = "writing" /\ txn[r].op = "upload" /\ txn[r].plan = {}
           \/ txn[r].stage = "hooks" /\ txn[r].left # {}

Alone(r) == /\ txn' \in [Actor -> Txn]
            /\ \A q \in Actor : q # r => txn'[q] = txn[q]

NewInHand(r) ==
  \/ txn'[r].op = txn[r].op /\ txn'[r].arg = txn[r].arg
  \/ txn'[r].op \notin {"upload", "direct"}
  \/ ~InHand(txn'[r].op, txn'[r].arg)

ApartFrom(r) == \A q \in Actor : q # r => txn'[r].held \cap txn[q].held = {}

\* One transaction locking free rows does not touch what others hold.
LEMMA StillApart ==
  ASSUME IntakeInv, NEW r \in Actor, Alone(r), ApartFrom(r)
  PROVE  Apart'
BY DEF IntakeInv, Apart, Alone, ApartFrom

\* An upload that starts is of a file nobody else has in hand.
LEMMA StillOneUploader ==
  ASSUME IntakeInv, NEW r \in Actor, Alone(r), NewInHand(r)
  PROVE  OneUploader'
<1> SUFFICES ASSUME NEW p \in Actor, NEW q \in Actor, p # q, txn'[p].op = txn'[q].op,
                    txn'[p].op \in {"upload", "direct"}, txn'[p].arg = txn'[q].arg
             PROVE  FALSE
  BY DEF OneUploader
<1>1. CASE p # r /\ q # r
  BY <1>1 DEF IntakeInv, OneUploader, Alone
<1>2. CASE p = r
  BY <1>2 DEF IntakeInv, OneUploader, Alone, NewInHand, InHand
<1>3. CASE q = r
  BY <1>3 DEF IntakeInv, OneUploader, Alone, NewInHand, InHand
<1> QED
  BY <1>1, <1>2, <1>3

\* A step that changes neither rows nor files is right if its own transaction
\* is.
LEMMA StillStep ==
  ASSUME IntakeInv, NEW r \in Actor, Still, Alone(r), NewInHand(r), ApartFrom(r), ~Owes(r),
         Standing(txn[r])', LocksHeld(txn[r])'
  PROVE  IntakeInv'
<1>1. UnderLocks(r)
  BY DEF Still, rows, UnderLocks, Alone
<1>2. \A q \in Actor : Standing(txn[q])' /\ LocksHeld(txn[q])'
  BY <1>1, OthersStand
<1>3. Typed'
  BY DEF IntakeInv, Typed, Still, rows, bounds, Alone
<1>4. Apart' /\ OneUploader'
  BY StillApart, StillOneUploader
<1>5. BornOfItems' /\ OwnersAreReal' /\ TombstonesAreBare'
  BY DEF IntakeInv, BornOfItems, OwnersAreReal, TombstonesAreBare, DocsOf, Still, rows
<1>6. OneCopyPerCv' /\ IntakeMakesNoTwins' /\ ClosedBatchIsDone'
  BY DEF IntakeInv, OneCopyPerCv, IntakeMakesNoTwins, ClosedBatchIsDone, Pending, Still, rows
<1>7. StoredCvs'
  BY DEF IntakeInv, StoredCvs, Still, rows, bounds, Alone, Owes
<1>8. StagedCvs'
  BY DEF IntakeInv, StagedCvs, Still, rows, bounds, Alone, Owes
<1> QED
  BY <1>2, <1>3, <1>4, <1>5, <1>6, <1>7, <1>8 DEF IntakeInv

(* A transaction that is over stands for nothing. *)
LEMMA IdleTyped == Idle \in Txn
<1>1. <<>> \in Seq(Row)
  OBVIOUS
<1> QED
  BY <1>1 DEF Idle, Txn

\* A transaction that ends holds nothing and knows nothing.
LEMMA EndStands ==
  ASSUME IntakeInv, NEW r \in Actor, End(r)
  PROVE  /\ Alone(r) /\ NewInHand(r) /\ ApartFrom(r) /\ txn'[r] = Idle
         /\ Standing(txn[r])' /\ LocksHeld(txn[r])'
<1>1. txn'[r] = Idle /\ Alone(r)
  BY IdleTyped DEF IntakeInv, Typed, End, Alone
<1>2. NewInHand(r) /\ ApartFrom(r)
  BY <1>1 DEF NewInHand, ApartFrom, Idle
<1>3. Standing(txn[r])'
  BY <1>1 DEF Standing, Idle
<1>4. LocksHeld(txn[r])'
  BY <1>1 DEF LocksHeld, Idle
<1> QED
  BY <1>1, <1>2, <1>3, <1>4

\* A request that is refused leaves everything as it was.
LEMMA RefuseStep ==
  ASSUME IntakeInv, NEW r \in Actor, Refuse(r), ~Owes(r)
  PROVE  IntakeInv'
BY EndStands, StillStep DEF Refuse, Still

(* Going on from one stage to the next with the same locks. *)
GoesOn(r) ==
  /\ Still /\ Alone(r)
  /\ txn'[r].op = txn[r].op /\ txn'[r].arg = txn[r].arg
  /\ txn'[r].held = txn[r].held
  /\ txn[r].stage \in {"deciding", "storing"}

\* A transaction that goes on with the locks it has.
LEMMA GoOnStep ==
  ASSUME IntakeInv, NEW r \in Actor, GoesOn(r), Standing(txn[r])', LocksHeld(txn[r])'
  PROVE  IntakeInv'
<1>1. NewInHand(r) /\ ~Owes(r)
  BY DEF GoesOn, NewInHand, Owes
<1>2. ApartFrom(r)
  BY DEF GoesOn, ApartFrom, IntakeInv, Apart
<1> QED
  BY <1>1, <1>2, StillStep DEF GoesOn

(* A new transaction has locked nothing yet. *)
LEMMA StartStep ==
  ASSUME IntakeInv, NEW r \in Actor, NEW t \in Txn, txn[r] = Idle, Still,
         txn' = [txn EXCEPT ![r] = t], t.held = {},
         t.op \in {"upload", "direct"} => ~InHand(t.op, t.arg),
         Standing(t)', LocksHeld(t)'
  PROVE  IntakeInv'
<1>1. Alone(r) /\ txn'[r] = t
  BY DEF IntakeInv, Typed, Alone
<1>2. NewInHand(r) /\ ApartFrom(r)
  BY <1>1 DEF NewInHand, ApartFrom
<1>3. ~Owes(r)
  BY DEF Owes, Idle
<1>4. Standing(txn[r])' /\ LocksHeld(txn[r])'
  BY <1>1
<1> QED
  BY <1>1, <1>2, <1>3, <1>4, StillStep

\* The lock lists of the services are sequences of rows.
LEMMA LocksTyped ==
  /\ \A i \in Item : UploadLocks(i) \in Seq(Row) /\ AcceptLocks(i) \in Seq(Row)
                     /\ SkipLocks(i) \in Seq(Row)
  /\ \A c \in Candidate : DirectLocks(c) \in Seq(Row) /\ <<PersonRow(c)>> \in Seq(Row)
  /\ \A b \in Batch : <<BatchRow(b)>> \in Seq(Row)
  /\ <<Organization>> \in Seq(Row)
  /\ \A d \in Document : owner[d] \in Candidate => ProfileLocks(d) \in Seq(Row)
<1>1. Organization \in Row /\ \A b \in Batch : BatchRow(b) \in Row
  BY DEF Row
<1>2. (\A i \in Item : ItemRow(i) \in Row) /\ (\A c \in Candidate : PersonRow(c) \in Row)
      /\ \A d \in Document : CvRow(d) \in Row
  BY DEF Row
<1>3. \A i \in Item : BatchOf[i] \in Batch
  BY IntakeAssumption
<1> QED
  BY <1>1, <1>2, <1>3 DEF UploadLocks, AcceptLocks, SkipLocks, DirectLocks, ProfileLocks

Begins(r, op, arg, locks) == Begin(r, op, arg, "deciding", locks)

Begun(r, t) ==
  /\ txn[r] = Idle /\ Still /\ txn' = [txn EXCEPT ![r] = t]
  /\ t.held = {} /\ t.stage = "deciding" /\ t.left = {} /\ t.plan = {} /\ ~t.closes

\* What a transaction that begins looks like.
LEMMA BeginStep ==
  ASSUME IntakeInv, NEW r \in Actor, NEW op \in Op,
         NEW arg \in Document \cup Candidate \cup Batch \cup {Nobody}, NEW locks \in Seq(Row),
         Begins(r, op, arg, locks)
  PROVE  \E t \in Txn : Begun(r, t) /\ t.op = op /\ t.arg = arg /\ t.todo = locks
<1> DEFINE t == [Idle EXCEPT !.op = op, !.arg = arg, !.stage = "deciding", !.todo = locks]
<1>1. t \in Txn
  BY DEF Idle, Txn
<1>2. /\ t.held = {} /\ t.op = op /\ t.arg = arg /\ t.stage = "deciding" /\ t.left = {}
      /\ t.plan = {} /\ t.todo = locks /\ t.closes = FALSE
  BY DEF Idle
<1>3. txn[r] = Idle /\ Still /\ txn' = [txn EXCEPT ![r] = t]
  BY DEF Begins, Begin, Still
<1>4. Begun(r, t)
  BY <1>2, <1>3 DEF Begun
<1> HIDE DEF t
<1> QED
  BY <1>1, <1>2, <1>4

\* A transaction that begins wants the rows of its list.
LEMMA WantsAll ==
  ASSUME NEW t \in Txn, t.stage = "deciding"
  PROVE  /\ \A a : t.todo = <<a>> => Takes(t, {a})
         /\ \A a, b : t.todo = <<a, b>> => Takes(t, {a, b})
         /\ \A a, b, c : t.todo = <<a, b, c>> => Takes(t, {a, b, c})
BY DEF Takes, First, Wanted

\* upload_candidate_intake_cv begins.
LEMMA StartUploadStep ==
  ASSUME IntakeInv, NEW r \in Actor, NEW i \in Item, StartUpload(r, i)
  PROVE  IntakeInv'
<1>1. PICK op \in Op : op = "upload"
  BY DEF Op
<1>2. PICK locks \in Seq(Row) : locks = UploadLocks(i)
  BY LocksTyped
<1>3. Begins(r, op, i, locks)
  BY <1>1, <1>2 DEF StartUpload, Begins
<1>4. i \in Document \cup Candidate \cup Batch \cup {Nobody}
  BY DEF Document
<1>5. PICK t \in Txn : Begun(r, t) /\ t.op = op /\ t.arg = i /\ t.todo = locks
  BY <1>3, <1>4, BeginStep
<1>6. t.op = "upload" /\ t.todo = <<Organization, BatchRow(BatchOf[i])>>
  BY <1>1, <1>2, <1>5 DEF UploadLocks
<1>7. Takes(t, {Organization, BatchRow(BatchOf[i])})
  BY <1>5, <1>6, WantsAll DEF Begun
<1>8. LocksHeld(t)'
  BY <1>5, <1>6, <1>7 DEF Begun, LocksHeld, Takes, First, Wanted
<1>9. Standing(t)'
  BY <1>5, <1>6 DEF Standing, UploadStanding, StartUpload, Begun, Still, rows
<1>10. t.op \in {"upload", "direct"} => ~InHand(t.op, t.arg)
  BY <1>5, <1>6 DEF StartUpload
<1> QED
  BY <1>5, <1>8, <1>9, <1>10, StartStep DEF Begun

\* create_candidate_from_intake_item begins.
LEMMA StartAcceptStep ==
  ASSUME IntakeInv, NEW r \in Actor, NEW i \in Item, StartAccept(r, i)
  PROVE  IntakeInv'
<1>1. PICK op \in Op : op = "accept"
  BY DEF Op
<1>2. PICK locks \in Seq(Row) : locks = AcceptLocks(i)
  BY LocksTyped
<1>3. Begins(r, op, i, locks)
  BY <1>1, <1>2 DEF StartAccept, Begins
<1>4. i \in Document \cup Candidate \cup Batch \cup {Nobody}
  BY DEF Document
<1>5. PICK t \in Txn : Begun(r, t) /\ t.op = op /\ t.arg = i /\ t.todo = locks
  BY <1>3, <1>4, BeginStep
<1>6. t.op = "accept" /\ t.todo = <<Organization, ItemRow(i), BatchRow(BatchOf[i])>>
  BY <1>1, <1>2, <1>5 DEF AcceptLocks
<1>7. Takes(t, {Organization, ItemRow(i), BatchRow(BatchOf[i])})
  BY <1>5, <1>6, WantsAll DEF Begun
<1>8. LocksHeld(t)'
  BY <1>5, <1>6, <1>7 DEF Begun, LocksHeld, Takes, First, Wanted, Still, rows
<1>9. Standing(t)'
  BY <1>5, <1>6 DEF Standing, AcceptStanding, StartAccept, Begun, Still, rows
<1> QED
  BY <1>5, <1>6, <1>8, <1>9, StartStep DEF Begun

\* skip_candidate_intake_item begins.
LEMMA StartSkipStep ==
  ASSUME IntakeInv, NEW r \in Actor, NEW i \in Item, StartSkip(r, i)
  PROVE  IntakeInv'
<1>1. PICK op \in Op : op = "skip"
  BY DEF Op
<1>2. PICK locks \in Seq(Row) : locks = SkipLocks(i)
  BY LocksTyped
<1>3. Begins(r, op, i, locks)
  BY <1>1, <1>2 DEF StartSkip, Begins
<1>4. i \in Document \cup Candidate \cup Batch \cup {Nobody}
  BY DEF Document
<1>5. PICK t \in Txn : Begun(r, t) /\ t.op = op /\ t.arg = i /\ t.todo = locks
  BY <1>3, <1>4, BeginStep
<1>6. t.op = "skip" /\ t.todo = <<ItemRow(i), BatchRow(BatchOf[i])>>
  BY <1>1, <1>2, <1>5 DEF SkipLocks
<1>7. Takes(t, {ItemRow(i), BatchRow(BatchOf[i])})
  BY <1>5, <1>6, WantsAll DEF Begun
<1>8. LocksHeld(t)'
  BY <1>5, <1>6, <1>7 DEF Begun, LocksHeld, Takes, First, Wanted, Still, rows
<1>9. Standing(t)'
  BY <1>5, <1>6 DEF Standing, SkipStanding, StartSkip, Begun, Still, rows
<1> QED
  BY <1>5, <1>6, <1>8, <1>9, StartStep DEF Begun

\* discard_candidate_intake_batch begins.
LEMMA StartDiscardStep ==
  ASSUME IntakeInv, NEW r \in Actor, NEW b \in Batch, StartDiscard(r, b)
  PROVE  IntakeInv'
<1>1. PICK op \in Op : op = "discard"
  BY DEF Op
<1>2. PICK locks \in Seq(Row) : locks = <<BatchRow(b)>>
  BY LocksTyped
<1>3. Begins(r, op, b, locks)
  BY <1>1, <1>2 DEF StartDiscard, Begins
<1>4. b \in Document \cup Candidate \cup Batch \cup {Nobody}
  OBVIOUS
<1>5. PICK t \in Txn : Begun(r, t) /\ t.op = op /\ t.arg = b /\ t.todo = locks
  BY <1>3, <1>4, BeginStep
<1>6. t.op = "discard" /\ t.todo = <<BatchRow(b)>>
  BY <1>1, <1>2, <1>5
<1>7. Takes(t, {BatchRow(b)})
  BY <1>5, <1>6, WantsAll DEF Begun
<1>8. LocksHeld(t)'
  BY <1>5, <1>6, <1>7 DEF Begun, LocksHeld, Takes, First, Wanted, Still, rows
<1>9. Standing(t)'
  BY <1>5, <1>6 DEF Standing, DiscardStanding, StartDiscard, Begun, Still, rows
<1> QED
  BY <1>5, <1>6, <1>8, <1>9, StartStep DEF Begun

\* apply_retention_plan begins.
LEMMA StartRetainStep ==
  ASSUME IntakeInv, NEW r \in Actor, StartRetain(r)
  PROVE  IntakeInv'
<1>1. PICK op \in Op : op = "retain"
  BY DEF Op
<1>2. PICK locks \in Seq(Row) : locks = <<Organization>>
  BY LocksTyped
<1>3. Begins(r, op, Nobody, locks)
  BY <1>1, <1>2 DEF StartRetain, Begins
<1>4. Nobody \in Document \cup Candidate \cup Batch \cup {Nobody}
  OBVIOUS
<1>5. PICK t \in Txn : Begun(r, t) /\ t.op = op /\ t.arg = Nobody /\ t.todo = locks
  BY <1>3, <1>4, BeginStep
<1>6. t.op = "retain" /\ t.todo = <<Organization>>
  BY <1>1, <1>2, <1>5
<1>7. Takes(t, {Organization})
  BY <1>5, <1>6, WantsAll DEF Begun
<1>8. LocksHeld(t)'
  BY <1>5, <1>6, <1>7 DEF Begun, LocksHeld, Takes, First, Wanted, Still, rows
<1>9. Standing(t)'
  BY <1>5, <1>6 DEF Standing, RetainStanding, StartRetain, Begun, Still, rows
<1> QED
  BY <1>5, <1>6, <1>8, <1>9, StartStep DEF Begun

\* The saving transaction of extract_candidate_profile begins.
LEMMA StartProfileStep ==
  ASSUME IntakeInv, NEW r \in Actor, NEW d \in Document, StartProfile(r, d)
  PROVE  IntakeInv'
<1>0. owner[d] \in Candidate
  BY DEF StartProfile, IntakeInv, OwnersAreReal
<1>1. PICK op \in Op : op = "profile"
  BY DEF Op
<1>2. PICK locks \in Seq(Row) : locks = ProfileLocks(d)
  BY LocksTyped, <1>0
<1>3. Begins(r, op, d, locks)
  BY <1>1, <1>2 DEF StartProfile, Begins
<1>4. d \in Document \cup Candidate \cup Batch \cup {Nobody}
  OBVIOUS
<1>5. PICK t \in Txn : Begun(r, t) /\ t.op = op /\ t.arg = d /\ t.todo = locks
  BY <1>3, <1>4, BeginStep
<1>6. t.op = "profile" /\ t.todo = <<CvRow(d), PersonRow(owner[d])>>
  BY <1>1, <1>2, <1>5 DEF ProfileLocks
<1>7. Takes(t, {CvRow(d), PersonRow(owner[d])})
  BY <1>5, <1>6, WantsAll DEF Begun
<1>8. LocksHeld(t)'
  BY <1>5, <1>6, <1>7 DEF Begun, LocksHeld, Takes, First, Wanted, Still, rows
<1>9. Standing(t)'
  BY <1>5, <1>6, <1>0 DEF Standing, ProfileStanding, StartProfile, Begun, Still, rows
<1> QED
  BY <1>5, <1>6, <1>8, <1>9, StartStep DEF Begun

\* A deletion is requested, cancelled or executed.
LEMMA StartDeletionStep ==
  ASSUME IntakeInv, NEW r \in Actor, NEW op \in {"request", "cancel", "purge"},
         NEW c \in Candidate, StartDeletion(r, op, c)
  PROVE  IntakeInv'
<1>1. op \in Op
  BY DEF Op
<1>2. PICK locks \in Seq(Row) : locks = <<PersonRow(c)>>
  BY LocksTyped
<1>3. Begins(r, op, c, locks)
  BY <1>2 DEF StartDeletion, Begins
<1>4. c \in Document \cup Candidate \cup Batch \cup {Nobody}
  OBVIOUS
<1>5. PICK t \in Txn : Begun(r, t) /\ t.op = op /\ t.arg = c /\ t.todo = locks
  BY <1>1, <1>3, <1>4, BeginStep
<1>6. t.op \in {"request", "cancel", "purge"} /\ t.todo = <<PersonRow(c)>>
  BY <1>2, <1>5
<1>7. Takes(t, {PersonRow(c)})
  BY <1>5, <1>6, WantsAll DEF Begun
<1>8. LocksHeld(t)'
  BY <1>5, <1>6, <1>7 DEF Begun, LocksHeld, Takes, First, Wanted, Still, rows
<1>9. status[c] # "absent"
  BY DEF StartDeletion, Allows
<1>10. Standing(t)'
  BY <1>5, <1>6, <1>9 DEF Standing, DecisionStanding, PurgeStanding, Begun, Still, rows
<1> QED
  BY <1>5, <1>6, <1>8, <1>10, StartStep DEF Begun

\* upload_candidate_cv begins.
LEMMA StartDirectStep ==
  ASSUME IntakeInv, NEW r \in Actor, NEW d \in Direct, NEW c \in Candidate, StartDirect(r, d, c)
  PROVE  IntakeInv'
<1> DEFINE t == [Idle EXCEPT !.op = "direct", !.arg = d, !.owner = c,
                             !.stage = "storing", !.todo = DirectLocks(c)]
<1>1. DirectLocks(c) \in Seq(Row)
  BY LocksTyped
<1>2. t \in Txn
  BY <1>1 DEF Idle, Txn, Op, Document
<1>3. /\ t.held = {} /\ t.op = "direct" /\ t.arg = d /\ t.stage = "storing" /\ t.left = {}
      /\ t.owner = c /\ t.todo = <<Organization, PersonRow(c)>>
  BY DEF Idle, DirectLocks
<1>4. txn[r] = Idle /\ Still /\ txn' = [txn EXCEPT ![r] = t] /\ ~InHand("direct", d)
      /\ status[c] # "absent" /\ owner[d] = Nobody
  BY DEF StartDirect, Still
<1> HIDE DEF t
<1>5. Takes(t, {Organization, PersonRow(c)})
  BY <1>2, <1>3 DEF Takes, First, Wanted
<1>6. LocksHeld(t)'
  BY <1>2, <1>3, <1>5 DEF LocksHeld, Takes, First, Wanted
<1>7. Standing(t)'
  BY <1>3, <1>4 DEF Standing, DirectStanding, Still, rows
<1>8. t.op \in {"upload", "direct"} => ~InHand(t.op, t.arg)
  BY <1>3, <1>4
<1> QED
  BY <1>2, <1>3, <1>4, <1>6, <1>7, <1>8, StartStep

-----------------------------------------------------------------------------
(* Locks are taken one by one; the database may abort whoever waits. *)

\* After the first row the rest of a list is still wanted.
LEMMA RestIsWanted ==
  ASSUME NEW s \in Seq(Row), s # <<>>
  PROVE  /\ Head(s) \in Row /\ Tail(s) \in Seq(Row)
         /\ \A k \in DOMAIN s : s[k] = Head(s) \/ \E j \in DOMAIN Tail(s) : s[k] = Tail(s)[j]
<1>1. Len(s) \in Nat \ {0} /\ Len(Tail(s)) = Len(s) - 1
      /\ Head(s) = s[1] /\ \A j \in 1 .. Len(s) - 1 : Tail(s)[j] = s[j + 1]
  OBVIOUS
<1>2. DOMAIN s = 1 .. Len(s) /\ DOMAIN Tail(s) = 1 .. Len(s) - 1
  BY <1>1
<1>3. ASSUME NEW k \in DOMAIN s, k # 1
      PROVE  k - 1 \in DOMAIN Tail(s) /\ s[k] = Tail(s)[k - 1]
  <2>1. k \in 1 .. Len(s) /\ k - 1 \in 1 .. Len(s) - 1 /\ (k - 1) + 1 = k
    BY <1>1, <1>2, <1>3
  <2> QED
    BY <1>1, <1>2, <2>1
<1> QED
  BY <1>1, <1>3

\* Locking a free row adds it to what is held.
LEMMA LockStep ==
  ASSUME IntakeInv, NEW r \in Actor, Lock(r)
  PROVE  IntakeInv'
<1> DEFINE t == txn[r]
<1>1. /\ t \in Txn /\ t.todo # <<>> /\ LocksHeld(t) /\ Standing(t) /\ Still
  BY DEF IntakeInv, Typed, Lock, Still
<1>2. PICK s \in Seq(Row) : s = t.todo
  BY <1>1 DEF Txn
<1>3. s # <<>> /\ Head(s) \in Row /\ Tail(s) \in Seq(Row)
  BY <1>1, <1>2, RestIsWanted
<1>4. txn' = [txn EXCEPT ![r].held = @ \cup {Head(s)}, ![r].todo = Tail(s)]
  BY <1>2 DEF Lock
<1>5. Alone(r)
  BY <1>1, <1>3, <1>4 DEF IntakeInv, Typed, Txn, Alone
<1>6. /\ txn'[r].held = t.held \cup {Head(s)} /\ txn'[r].todo = Tail(s)
      /\ txn'[r].op = t.op /\ txn'[r].arg = t.arg /\ txn'[r].stage = t.stage
      /\ txn'[r].owner = t.owner /\ txn'[r].plan = t.plan /\ txn'[r].left = t.left
      /\ txn'[r].closes = t.closes
  BY <1>1, <1>4 DEF IntakeInv, Typed, Txn
<1>7. t.stage \in {"deciding", "storing"}
  BY <1>1 DEF LocksHeld, Txn
<1>8. NewInHand(r) /\ ~Owes(r)
  BY <1>6, <1>7 DEF NewInHand, Owes
<1>9. ApartFrom(r)
  BY <1>2, <1>6 DEF ApartFrom, Lock, Holder, IntakeInv, Apart
<1>10. Standing(txn[r])'
  <2>1. txn'[r].stage \notin {"idle", "hooks"} /\ txn'[r].op # "none"
    BY <1>1, <1>6, <1>7 DEF Standing
  <2> QED
    BY <1>1, <1>6, <1>7, <2>1
    DEF Standing, UploadStanding, AcceptStanding, SkipStanding, DiscardStanding, DirectStanding,
        ProfileStanding, DecisionStanding, PurgeStanding, RetainStanding, Copies, NoPendingCopy,
        LastPending, Pending, NoTwinOf, Here, Frozen, Unsettled, DocsOf, Still, rows
<1>11. Wanted(t) \subseteq Wanted(txn'[r])
  BY <1>2, <1>3, <1>6, RestIsWanted DEF Wanted
<1>12. LocksHeld(txn[r])'
  <2>1. \A S : Takes(t, S) => Takes(txn'[r], S)
    BY <1>6, <1>11 DEF Takes, First
  <2>2. owner' = owner
    BY <1>1 DEF Still, rows
  <2> QED
    BY <1>1, <1>6, <1>7, <1>11, <2>1, <2>2 DEF LocksHeld, Takes, First, Wanted
<1> QED
  BY <1>1, <1>5, <1>8, <1>9, <1>10, <1>12, StillStep

\* The loser of a deadlock is rolled back.
LEMMA VictimStep ==
  ASSUME IntakeInv, NEW r \in Actor, Victim(r)
  PROVE  IntakeInv'
<1>1. Refuse(r) /\ \E q \in Actor : WaitsFor(r, q)
  BY DEF Victim, Deadlocked
<1>2. txn[r].todo # <<>> \/ (AtCommit(r) /\ ShareRows(r) # {})
  BY <1>1 DEF WaitsFor
<1>3. ~Owes(r)
  <2>1. CASE txn[r].todo # <<>>
    BY <2>1 DEF IntakeInv, LocksHeld, Owes
  <2>2. CASE AtCommit(r) /\ ShareRows(r) # {}
    <3>1. txn[r].op = "upload" => txn[r].plan # {}
      BY <2>2 DEF ShareRows
    <3>2. txn[r].op \in {"request", "cancel", "purge", "upload"}
      BY <2>2 DEF ShareRows
    <3> QED
      BY <2>2, <3>1, <3>2 DEF AtCommit, Owes
  <2> QED
    BY <1>2, <2>1, <2>2
<1> QED
  BY <1>1, <1>3, RefuseStep

-----------------------------------------------------------------------------
(* Decisions made under the locks, before anything is written. *)

\* What r is about to work on is as it was, and it has all its locks.
OnTrack(r) ==
  /\ txn'[r].op = txn[r].op /\ txn'[r].arg = txn[r].arg
  /\ txn'[r].held = txn[r].held
  /\ txn[r].stage \in {"deciding", "storing"} /\ txn[r].todo = <<>>
  /\ txn'[r].stage \in {"storing", "writing"}
  /\ txn'[r].stage = "writing" => txn'[r].todo = <<>>
  /\ txn'[r].op = "direct" => txn'[r].owner = txn[r].owner
  /\ txn'[r].op = "accept" /\ txn'[r].owner # txn'[r].arg =>
       \/ PersonRow(txn'[r].owner) \in Wanted(txn'[r])
       \/ txn[r].stage = "storing" /\ txn'[r].owner = txn[r].owner

\* A transaction that keeps its locks and its operation holds what it should.
LEMMA OnTrackHolds ==
  ASSUME IntakeInv, NEW r \in Actor, Alone(r), OnTrack(r), owner' = owner
  PROVE  LocksHeld(txn[r])'
<1>1. LocksHeld(txn[r]) /\ txn[r] \in Txn /\ txn'[r] \in Txn
  BY DEF IntakeInv, Typed, Alone
<1>2. Wanted(txn[r]) = txn[r].held /\ txn[r].held \subseteq Wanted(txn'[r])
  BY <1>1 DEF OnTrack, Wanted
<1>3. \A S : Takes(txn[r], S) => Takes(txn'[r], S)
  BY <1>1, <1>2 DEF Takes, First, OnTrack
<1> QED
  BY <1>1, <1>2, <1>3 DEF LocksHeld, OnTrack, Takes, First, Wanted

\* A check that changes only the transaction is right if what it found is.
LEMMA OnTrackStep ==
  ASSUME IntakeInv, NEW r \in Actor, Still, Alone(r), OnTrack(r), Standing(txn[r])'
  PROVE  IntakeInv'
<1>1. GoesOn(r) /\ owner' = owner
  BY DEF GoesOn, OnTrack, Still, rows
<1> QED
  BY <1>1, OnTrackHolds, GoOnStep

(* A file is stored before the row that names it. *)
Stores(r) ==
  \/ /\ txn'[r].op = "upload" /\ txn'[r].plan = {}
     /\ txn'[r].arg \in Item /\ item[txn'[r].arg] = "absent"
     /\ files' = files \cup {Staged(txn'[r].arg)}
  \/ /\ txn'[r].op \in {"accept", "direct"}
     /\ txn'[r].arg \in Document /\ owner[txn'[r].arg] = Nobody
     /\ files' = files \cup {Cv(txn'[r].arg)}

\* Storing a file for a row that is about to be saved.
LEMMA StoreStep ==
  ASSUME IntakeInv, NEW r \in Actor, UNCHANGED <<rows, bounds>>, Alone(r), OnTrack(r),
         txn'[r].stage = "writing", Stores(r), Standing(txn[r])'
  PROVE  IntakeInv'
<1>1. UnderLocks(r)
  BY RowsDiffer DEF rows, UnderLocks, Alone, Stores
<1>2. \A q \in Actor : Standing(txn[q])' /\ LocksHeld(txn[q])'
  <2>1. owner' = owner
    BY DEF rows
  <2> QED
    BY <1>1, <2>1, OthersStand, OnTrackHolds
<1>3. Typed'
  BY DEF IntakeInv, Typed, rows, bounds, Alone, Stores, File
<1>4. Apart' /\ OneUploader'
  <2>1. NewInHand(r) /\ ApartFrom(r)
    BY DEF OnTrack, NewInHand, ApartFrom, IntakeInv, Apart
  <2> QED
    BY <2>1, StillApart, StillOneUploader
<1>5. BornOfItems' /\ OwnersAreReal' /\ TombstonesAreBare'
  BY DEF IntakeInv, BornOfItems, OwnersAreReal, TombstonesAreBare, DocsOf, rows
<1>6. OneCopyPerCv' /\ IntakeMakesNoTwins' /\ ClosedBatchIsDone'
  BY DEF IntakeInv, OneCopyPerCv, IntakeMakesNoTwins, ClosedBatchIsDone, Pending, rows
<1>7. StoredCvs'
  BY RowsDiffer DEF IntakeInv, StoredCvs, rows, bounds, Alone, OnTrack, Stores
<1>8. StagedCvs'
  BY RowsDiffer DEF IntakeInv, StagedCvs, rows, bounds, Alone, OnTrack, Stores
<1> QED
  BY <1>2, <1>3, <1>4, <1>5, <1>6, <1>7, <1>8 DEF IntakeInv

\* An upload checks batch and copies, and stores the file or reuses what is on
\* file.
LEMMA UploadStep ==
  ASSUME IntakeInv, NEW r \in Actor, Upload(r)
  PROVE  IntakeInv'
<1> DEFINE i == txn[r].arg
<1>0. txn[r].op = "upload" /\ txn[r].stage = "deciding" /\ txn[r].todo = <<>>
  BY DEF Upload, Ready
<1>1. /\ txn[r] \in Txn /\ txn \in [Actor -> Txn] /\ Standing(txn[r]) /\ UploadStanding(txn[r])
      /\ i \in Item /\ item[i] = "absent" /\ txn[r].left = {}
  BY <1>0 DEF IntakeInv, Typed, Standing, UploadStanding
<1>2. CASE Refuse(r)
  BY <1>0, <1>2, RefuseStep DEF Owes
<1>3. ASSUME batch[BatchOf[i]] = "open", NEW d \in Copies(i), Still,
             txn' = [txn EXCEPT ![r].stage = "writing", ![r].plan = {d},
                                ![r].owner = owner[d], ![r].closes = LastPending(i)]
      PROVE  IntakeInv'
  <2>1. d \in docs /\ d \in Document /\ owner[d] \in Candidate /\ LastPending(i) \in BOOLEAN
    BY DEF Copies, IntakeInv, Typed, OwnersAreReal, LastPending
  <2>2. Alone(r)
    BY <1>1, <1>3, <2>1 DEF Alone, Txn
  <2>3. /\ txn'[r].op = "upload" /\ txn'[r].arg = i /\ txn'[r].held = txn[r].held
        /\ txn'[r].stage = "writing" /\ txn'[r].todo = <<>> /\ txn'[r].left = {}
        /\ txn'[r].plan = {d} /\ txn'[r].owner = owner[d] /\ txn'[r].closes = LastPending(i)
    BY <1>0, <1>1, <1>3, <2>1 DEF Txn
  <2>4. OnTrack(r)
    BY <1>0, <2>3 DEF OnTrack
  <2>5. Standing(txn[r])'
    BY <1>1, <1>3, <2>1, <2>3 DEF Standing, UploadStanding, LastPending, Pending, Still, rows
  <2> QED
    BY <1>3, <2>2, <2>4, <2>5, OnTrackStep
<1>4. ASSUME batch[BatchOf[i]] = "open", Copies(i) = {}, NoPendingCopy(i),
             files' = files \cup {Staged(i)}, UNCHANGED <<rows, bounds>>,
             txn' = [txn EXCEPT ![r].stage = "writing"]
      PROVE  IntakeInv'
  <2>1. Alone(r)
    BY <1>1, <1>4 DEF Alone, Txn
  <2>2. /\ txn'[r].op = "upload" /\ txn'[r].arg = i /\ txn'[r].held = txn[r].held
        /\ txn'[r].stage = "writing" /\ txn'[r].todo = <<>> /\ txn'[r].left = {}
        /\ txn'[r].plan = txn[r].plan /\ txn'[r].owner = txn[r].owner
        /\ txn'[r].closes = txn[r].closes
    BY <1>0, <1>1, <1>4 DEF Txn
  <2>3. txn[r].plan = {} /\ txn[r].closes = FALSE
    BY <1>0, <1>1 DEF UploadStanding
  <2>4. OnTrack(r) /\ Stores(r)
    BY <1>0, <1>1, <1>4, <2>2, <2>3 DEF OnTrack, Stores
  <2>5. Standing(txn[r])'
    BY <1>1, <1>4, <2>2, <2>3 DEF Standing, UploadStanding, Copies, NoPendingCopy, rows
  <2> QED
    BY <1>4, <2>1, <2>2, <2>4, <2>5, StoreStep
<1> QED
  BY <1>2, <1>3, <1>4 DEF Upload, NoPendingCopy, Still

\* An accept checks its item and looks for the candidate to use.
LEMMA AcceptStep ==
  ASSUME IntakeInv, NEW r \in Actor, Accept(r)
  PROVE  IntakeInv'
<1> DEFINE i == txn[r].arg
<1>0. txn[r].op = "accept" /\ txn[r].stage = "deciding" /\ txn[r].todo = <<>>
  BY DEF Accept, Ready
<1>1. /\ txn[r] \in Txn /\ txn \in [Actor -> Txn] /\ Standing(txn[r]) /\ AcceptStanding(txn[r])
      /\ i \in Item /\ txn[r].left = {}
  BY <1>0 DEF IntakeInv, Typed, Standing, AcceptStanding
<1>2. CASE Refuse(r)
  BY <1>0, <1>2, RefuseStep DEF Owes
<1>3. ASSUME item[i] = "pending", Matches(i) = {}, Still,
             txn' = [txn EXCEPT ![r].stage = "storing", ![r].owner = i]
      PROVE  IntakeInv'
  <2>1. i \in Candidate
    BY <1>1 DEF Candidate
  <2>2. Alone(r)
    BY <1>1, <1>3, <2>1 DEF Alone, Txn
  <2>3. /\ txn'[r].op = "accept" /\ txn'[r].arg = i /\ txn'[r].held = txn[r].held
        /\ txn'[r].stage = "storing" /\ txn'[r].todo = <<>> /\ txn'[r].left = {}
        /\ txn'[r].owner = i
    BY <1>0, <1>1, <1>3, <2>1 DEF Txn
  <2>4. OnTrack(r)
    BY <1>0, <2>3 DEF OnTrack
  <2>5. NoTwinOf(i)
    BY <1>3 DEF Matches, NoTwinOf, Here
  <2>6. Standing(txn[r])'
    BY <1>1, <1>3, <2>1, <2>3, <2>5 DEF Standing, AcceptStanding, NoTwinOf, Here, Still, rows
  <2> QED
    BY <1>3, <2>2, <2>4, <2>6, OnTrackStep
<1>4. ASSUME item[i] = "pending", NEW c \in Matches(i), Still,
             txn' = [txn EXCEPT ![r].stage = "storing", ![r].owner = c,
                                ![r].todo = <<PersonRow(c)>>]
      PROVE  IntakeInv'
  <2>1. c \in Candidate /\ status[c] # "absent" /\ <<PersonRow(c)>> \in Seq(Row)
    BY LocksTyped DEF Matches
  <2>2. Alone(r)
    BY <1>1, <1>4, <2>1 DEF Alone, Txn
  <2>3. /\ txn'[r].op = "accept" /\ txn'[r].arg = i /\ txn'[r].held = txn[r].held
        /\ txn'[r].stage = "storing" /\ txn'[r].todo = <<PersonRow(c)>> /\ txn'[r].left = {}
        /\ txn'[r].owner = c
    BY <1>0, <1>1, <1>4, <2>1 DEF Txn
  <2>4. PersonRow(c) \in Wanted(txn'[r])
    BY <2>3 DEF Wanted
  <2>5. OnTrack(r)
    BY <1>0, <2>3, <2>4 DEF OnTrack
  <2>6. c # i
    BY <1>1, <1>4, <2>1 DEF IntakeInv, BornOfItems
  <2>7. Standing(txn[r])'
    BY <1>1, <1>4, <2>1, <2>3, <2>6 DEF Standing, AcceptStanding, Still, rows
  <2> QED
    BY <1>4, <2>2, <2>5, <2>7, OnTrackStep
<1> QED
  BY <1>2, <1>3, <1>4 DEF Accept, Still

\* A skip checks that its item awaits review.
LEMMA SkipStep ==
  ASSUME IntakeInv, NEW r \in Actor, Skip(r)
  PROVE  IntakeInv'
<1> DEFINE i == txn[r].arg
<1>0. txn[r].op = "skip" /\ txn[r].stage = "deciding" /\ txn[r].todo = <<>>
  BY DEF Skip, Ready
<1>1. /\ txn[r] \in Txn /\ txn \in [Actor -> Txn] /\ Standing(txn[r]) /\ SkipStanding(txn[r])
  BY <1>0 DEF IntakeInv, Typed, Standing
<1>2. CASE Refuse(r)
  BY <1>0, <1>2, RefuseStep DEF Owes
<1>3. ASSUME item[i] = "pending", Still,
             txn' = [txn EXCEPT ![r].stage = "writing", ![r].closes = LastPending(i)]
      PROVE  IntakeInv'
  <2>1. LastPending(i) \in BOOLEAN
    BY DEF LastPending
  <2>2. Alone(r)
    BY <1>1, <1>3, <2>1 DEF Alone, Txn
  <2>3. /\ txn'[r].op = "skip" /\ txn'[r].arg = i /\ txn'[r].held = txn[r].held
        /\ txn'[r].stage = "writing" /\ txn'[r].todo = <<>> /\ txn'[r].left = txn[r].left
        /\ txn'[r].closes = LastPending(i)
    BY <1>0, <1>1, <1>3, <2>1 DEF Txn
  <2>4. OnTrack(r)
    BY <1>0, <2>3 DEF OnTrack
  <2>5. Standing(txn[r])'
    BY <1>1, <1>3, <2>3, <1>0 DEF Standing, SkipStanding, LastPending, Pending, Still, rows
  <2> QED
    BY <1>3, <2>2, <2>4, <2>5, OnTrackStep
<1> QED
  BY <1>2, <1>3 DEF Skip, Still

\* Sets of items and documents can be counted.
LEMMA ItemsFinite ==
  ASSUME NEW S \in SUBSET Document
  PROVE  Cardinality(S) \in Nat
BY FS_Subset, FS_CardinalityType, IntakeAssumption

\* Rows locked in id order are a sequence of rows.
LEMMA OrderTyped ==
  ASSUME NEW S \in SUBSET Document, NEW s \in InIdOrder(S)
  PROVE  /\ S \subseteq Item => [k \in DOMAIN s |-> ItemRow(s[k])] \in Seq(Row)
         /\ [k \in DOMAIN s |-> CvRow(s[k])] \in Seq(Row)
<1>1. Cardinality(S) \in Nat /\ s \in [1 .. Cardinality(S) -> S] /\ DOMAIN s = 1 .. Cardinality(S)
  BY ItemsFinite DEF InIdOrder
<1>2. ASSUME S \subseteq Item PROVE [k \in DOMAIN s |-> ItemRow(s[k])] \in [1 .. Cardinality(S) -> Row]
  BY <1>1, <1>2 DEF Row
<1>3. [k \in DOMAIN s |-> CvRow(s[k])] \in [1 .. Cardinality(S) -> Row]
  BY <1>1 DEF Row
<1>4. \A n \in Nat : \A f \in [1 .. n -> Row] : f \in Seq(Row)
  OBVIOUS
<1> QED
  BY <1>1, <1>2, <1>3, <1>4

\* A discard finds the batch's unsettled items and goes on to lock them.
LEMMA DiscardStep ==
  ASSUME IntakeInv, NEW r \in Actor, Discard(r)
  PROVE  IntakeInv'
<1> DEFINE b == txn[r].arg
<1>0. txn[r].op = "discard" /\ txn[r].stage = "deciding" /\ txn[r].todo = <<>>
  BY DEF Discard, Ready
<1>1. /\ txn[r] \in Txn /\ txn \in [Actor -> Txn] /\ Standing(txn[r]) /\ DiscardStanding(txn[r])
  BY <1>0 DEF IntakeInv, Typed, Standing
<1>2. CASE Refuse(r)
  BY <1>0, <1>2, RefuseStep DEF Owes
<1>3. ASSUME NEW order \in InIdOrder(Pending(b)), Still,
             txn' = [txn EXCEPT ![r].stage = "storing", ![r].plan = Pending(b),
                                ![r].todo = [k \in DOMAIN order |-> ItemRow(order[k])]]
      PROVE  IntakeInv'
  <2>1. Pending(b) \subseteq Item /\ Pending(b) \in SUBSET Document
    BY DEF Pending, Document
  <2>2. PICK todo \in Seq(Row) : todo = [k \in DOMAIN order |-> ItemRow(order[k])]
    BY <2>1, OrderTyped
  <2>3. txn' = [txn EXCEPT ![r].stage = "storing", ![r].plan = Pending(b), ![r].todo = todo]
    BY <1>3, <2>2
  <2>4. Alone(r)
    BY <1>1, <2>1, <2>3 DEF Alone, Txn
  <2>5. /\ txn'[r].op = "discard" /\ txn'[r].arg = b /\ txn'[r].held = txn[r].held
        /\ txn'[r].stage = "storing" /\ txn'[r].left = txn[r].left
        /\ txn'[r].plan = Pending(b)
    BY <1>0, <1>1, <2>1, <2>3 DEF Txn
  <2>6. OnTrack(r)
    BY <1>0, <2>5 DEF OnTrack
  <2>7. Standing(txn[r])'
    BY <1>0, <1>1, <1>3, <2>5 DEF Standing, DiscardStanding, Pending, Unsettled, Still, rows
  <2> QED
    BY <1>3, <2>4, <2>6, <2>7, OnTrackStep
<1> QED
  BY <1>2, <1>3 DEF Discard, Still

\* With all items locked a discard is about to write.
LEMMA DiscardLockedStep ==
  ASSUME IntakeInv, NEW r \in Actor, DiscardLocked(r)
  PROVE  IntakeInv'
<1> DEFINE b == txn[r].arg
<1>0. txn[r].op = "discard" /\ txn[r].stage = "storing" /\ txn[r].todo = <<>> /\ Still
      /\ txn' = [txn EXCEPT ![r].stage = "writing", ![r].plan = @ \cap Pending(b)]
  BY DEF DiscardLocked, Ready, Still
<1>1. /\ txn[r] \in Txn /\ txn \in [Actor -> Txn] /\ Standing(txn[r]) /\ DiscardStanding(txn[r])
  BY <1>0 DEF IntakeInv, Typed, Standing
<1>2. Alone(r)
  BY <1>0, <1>1 DEF Alone, Txn
<1>3. /\ txn'[r].op = "discard" /\ txn'[r].arg = b /\ txn'[r].held = txn[r].held
      /\ txn'[r].stage = "writing" /\ txn'[r].left = txn[r].left /\ txn'[r].todo = <<>>
      /\ txn'[r].plan = txn[r].plan \cap Pending(b)
  BY <1>0, <1>1 DEF Txn
<1>4. OnTrack(r)
  BY <1>0, <1>3 DEF OnTrack
<1>5. Standing(txn[r])'
  BY <1>0, <1>1, <1>3 DEF Standing, DiscardStanding, Pending, Unsettled, Still, rows
<1> QED
  BY <1>0, <1>2, <1>4, <1>5, OnTrackStep

(* An upload has looked at the candidate and the copies under its locks. *)
LEMMA StoreCvStep ==
  ASSUME IntakeInv, NEW r \in Actor, Store(r)
  PROVE  IntakeInv'
<1> DEFINE d == txn[r].arg
<1>0. txn[r].op \in {"direct", "accept"} /\ txn[r].stage = "storing" /\ txn[r].todo = <<>>
  BY DEF Store, Ready
<1>1. /\ txn[r] \in Txn /\ txn \in [Actor -> Txn] /\ Standing(txn[r])
      /\ txn[r].op = "accept" => AcceptStanding(txn[r])
      /\ txn[r].op = "direct" => DirectStanding(txn[r])
      /\ LocksHeld(txn[r])
  BY <1>0 DEF IntakeInv, Typed, Standing
<1>2. CASE Refuse(r)
  BY <1>0, <1>2, RefuseStep DEF Owes
<1>3. ASSUME ~Frozen(txn[r].owner), Copies(d) = {}, files' = files \cup {Cv(d)},
             UNCHANGED <<rows, bounds>>,
             txn' = [txn EXCEPT ![r].stage = "writing",
                                ![r].closes = txn[r].op = "accept" /\ LastPending(d)]
      PROVE  IntakeInv'
  <2>1. PICK closing \in BOOLEAN : closing = (txn[r].op = "accept" /\ LastPending(d))
    OBVIOUS
  <2>2. txn' = [txn EXCEPT ![r].stage = "writing", ![r].closes = closing]
    BY <1>3, <2>1
  <2>3. Alone(r)
    BY <1>1, <2>2 DEF Alone, Txn
  <2>4. /\ txn'[r].op = txn[r].op /\ txn'[r].arg = d /\ txn'[r].held = txn[r].held
        /\ txn'[r].stage = "writing" /\ txn'[r].left = txn[r].left /\ txn'[r].todo = <<>>
        /\ txn'[r].owner = txn[r].owner /\ txn'[r].closes = closing
    BY <1>0, <1>1, <2>2 DEF Txn
  <2>5. closing => LastPending(d)
    BY <2>1
  <2>6. OnTrack(r)
    BY <1>0, <2>4 DEF OnTrack
  <2>7. Stores(r)
    <3>1. d \in Document /\ owner[d] = Nobody
      BY <1>0, <1>1 DEF AcceptStanding, DirectStanding, IntakeInv, BornOfItems, Document
    <3> QED
      BY <1>0, <1>3, <2>4, <3>1 DEF Stores
  <2>8. Standing(txn[r])'
    <3>1. txn[r].op = "accept" => AcceptStanding(txn[r])'
      BY <1>0, <1>1, <1>3, <2>4, <2>5
      DEF AcceptStanding, NoTwinOf, Here, Copies, Frozen, LastPending, Pending, rows
    <3>2. txn[r].op = "direct" => DirectStanding(txn[r])'
      BY <1>0, <1>1, <1>3, <2>4 DEF DirectStanding, Copies, Frozen, rows
    <3> QED
      BY <1>0, <2>4, <3>1, <3>2 DEF Standing
  <2> QED
    BY <1>3, <2>3, <2>4, <2>6, <2>7, <2>8, StoreStep
<1> QED
  BY <1>2, <1>3 DEF Store

\* A profile is saved only if the document is still there.
LEMMA SaveProfileStep ==
  ASSUME IntakeInv, NEW r \in Actor, SaveProfile(r)
  PROVE  IntakeInv'
<1> DEFINE d == txn[r].arg
<1>0. txn[r].op = "profile" /\ txn[r].stage = "deciding" /\ txn[r].todo = <<>>
  BY DEF SaveProfile, Ready
<1>1. /\ txn[r] \in Txn /\ txn \in [Actor -> Txn] /\ Standing(txn[r]) /\ ProfileStanding(txn[r])
  BY <1>0 DEF IntakeInv, Typed, Standing
<1>2. CASE Refuse(r)
  BY <1>0, <1>2, RefuseStep DEF Owes
<1>3. ASSUME d \in docs, Still, txn' = [txn EXCEPT ![r].stage = "writing"]
      PROVE  IntakeInv'
  <2>1. Alone(r)
    BY <1>1, <1>3 DEF Alone, Txn
  <2>2. /\ txn'[r].op = "profile" /\ txn'[r].arg = d /\ txn'[r].held = txn[r].held
        /\ txn'[r].stage = "writing" /\ txn'[r].todo = <<>> /\ txn'[r].left = txn[r].left
    BY <1>0, <1>1, <1>3 DEF Txn
  <2>3. OnTrack(r)
    BY <1>0, <2>2 DEF OnTrack
  <2>4. Standing(txn[r])'
    BY <1>1, <1>3, <2>2 DEF Standing, ProfileStanding, Still, rows
  <2> QED
    BY <1>3, <2>1, <2>3, <2>4, OnTrackStep
<1> QED
  BY <1>2, <1>3 DEF SaveProfile, Still

\* A deletion request or cancellation checks the candidate's status.
LEMMA DecideStep ==
  ASSUME IntakeInv, NEW r \in Actor, Decide(r)
  PROVE  IntakeInv'
<1> DEFINE c == txn[r].arg
<1>0. txn[r].op \in {"request", "cancel"} /\ txn[r].stage = "deciding" /\ txn[r].todo = <<>>
  BY DEF Decide, Ready
<1>1. /\ txn[r] \in Txn /\ txn \in [Actor -> Txn] /\ Standing(txn[r]) /\ DecisionStanding(txn[r])
  BY <1>0 DEF IntakeInv, Typed, Standing
<1>2. CASE Refuse(r)
  BY <1>0, <1>2, RefuseStep DEF Owes
<1>3. ASSUME Here(c), Still, txn' = [txn EXCEPT ![r].stage = "writing"]
      PROVE  IntakeInv'
  <2>1. Alone(r)
    BY <1>1, <1>3 DEF Alone, Txn
  <2>2. /\ txn'[r].op = txn[r].op /\ txn'[r].arg = c /\ txn'[r].held = txn[r].held
        /\ txn'[r].stage = "writing" /\ txn'[r].todo = <<>> /\ txn'[r].left = txn[r].left
    BY <1>0, <1>1, <1>3 DEF Txn
  <2>3. OnTrack(r)
    BY <1>0, <2>2 DEF OnTrack
  <2>4. Standing(txn[r])'
    BY <1>0, <1>1, <1>3, <2>2 DEF Standing, DecisionStanding, Here, Still, rows
  <2> QED
    BY <1>3, <2>1, <2>3, <2>4, OnTrackStep
<1>4. Allows(txn[r].op, c) => Here(c)
  BY DEF Allows, Here
<1> QED
  BY <1>2, <1>3, <1>4 DEF Decide, Still

\* A purge finds the candidate's documents and goes on to lock them.
LEMMA PurgeStep ==
  ASSUME IntakeInv, NEW r \in Actor, Purge(r)
  PROVE  IntakeInv'
<1> DEFINE c == txn[r].arg
<1>0. txn[r].op = "purge" /\ txn[r].stage = "deciding" /\ txn[r].todo = <<>>
  BY DEF Purge, Ready
<1>1. /\ txn[r] \in Txn /\ txn \in [Actor -> Txn] /\ Standing(txn[r]) /\ PurgeStanding(txn[r])
  BY <1>0 DEF IntakeInv, Typed, Standing
<1>2. CASE Refuse(r)
  BY <1>0, <1>2, RefuseStep DEF Owes
<1>3. ASSUME status[c] = "requested", NEW order \in InIdOrder(DocsOf(c)), Still,
             txn' = [txn EXCEPT ![r].stage = "storing", ![r].plan = DocsOf(c),
                                ![r].todo = [k \in DOMAIN order |-> CvRow(order[k])]]
      PROVE  IntakeInv'
  <2>1. DocsOf(c) \in SUBSET Document
    BY DEF DocsOf, IntakeInv, Typed
  <2>2. PICK todo \in Seq(Row) : todo = [k \in DOMAIN order |-> CvRow(order[k])]
    BY <2>1, OrderTyped
  <2>3. txn' = [txn EXCEPT ![r].stage = "storing", ![r].plan = DocsOf(c), ![r].todo = todo]
    BY <1>3, <2>2
  <2>4. Alone(r)
    BY <1>1, <2>1, <2>3 DEF Alone, Txn
  <2>5. /\ txn'[r].op = "purge" /\ txn'[r].arg = c /\ txn'[r].held = txn[r].held
        /\ txn'[r].stage = "storing" /\ txn'[r].left = txn[r].left
        /\ txn'[r].plan = DocsOf(c)
    BY <1>0, <1>1, <2>1, <2>3 DEF Txn
  <2>6. OnTrack(r)
    BY <1>0, <2>5 DEF OnTrack
  <2>7. Standing(txn[r])'
    BY <1>0, <1>1, <1>3, <2>5 DEF Standing, PurgeStanding, DocsOf, Still, rows
  <2> QED
    BY <1>3, <2>4, <2>6, <2>7, OnTrackStep
<1>4. Allows("purge", c) => status[c] = "requested"
  BY DEF Allows
<1> QED
  BY <1>2, <1>3, <1>4 DEF Purge, Still

\* A retention run finds the abandoned items and goes on to lock them.
LEMMA RetainStep ==
  ASSUME IntakeInv, NEW r \in Actor, Retain(r)
  PROVE  IntakeInv'
<1>0. txn[r].op = "retain" /\ txn[r].stage = "deciding" /\ txn[r].todo = <<>> /\ Still
  BY DEF Retain, Ready, Still
<1>1. /\ txn[r] \in Txn /\ txn \in [Actor -> Txn] /\ Standing(txn[r]) /\ RetainStanding(txn[r])
  BY <1>0 DEF IntakeInv, Typed, Standing
<1>2. PICK aged \in SUBSET {i \in Item : item[i] = "pending"} : \E order \in InIdOrder(aged) :
        txn' = [txn EXCEPT ![r].stage = "storing", ![r].plan = aged,
                           ![r].todo = [k \in DOMAIN order |-> ItemRow(order[k])]]
  BY DEF Retain
<1>3. PICK order \in InIdOrder(aged) :
        txn' = [txn EXCEPT ![r].stage = "storing", ![r].plan = aged,
                           ![r].todo = [k \in DOMAIN order |-> ItemRow(order[k])]]
  BY <1>2
<1>4. aged \subseteq Item /\ aged \in SUBSET Document
  BY DEF Document
<1>5. PICK todo \in Seq(Row) : todo = [k \in DOMAIN order |-> ItemRow(order[k])]
  BY <1>4, OrderTyped
<1>6. txn' = [txn EXCEPT ![r].stage = "storing", ![r].plan = aged, ![r].todo = todo]
  BY <1>3, <1>5
<1>7. Alone(r)
  BY <1>1, <1>4, <1>6 DEF Alone, Txn
<1>8. /\ txn'[r].op = "retain" /\ txn'[r].arg = txn[r].arg /\ txn'[r].held = txn[r].held
      /\ txn'[r].stage = "storing" /\ txn'[r].left = txn[r].left /\ txn'[r].plan = aged
  BY <1>0, <1>1, <1>4, <1>6 DEF Txn
<1>9. OnTrack(r)
  BY <1>0, <1>8 DEF OnTrack
<1>10. Standing(txn[r])'
  BY <1>0, <1>1, <1>8 DEF Standing, RetainStanding, Unsettled, Still, rows
<1> QED
  BY <1>0, <1>7, <1>9, <1>10, OnTrackStep

\* With all rows locked a purge or retention run begins to erase.
LEMMA LockedStep ==
  ASSUME IntakeInv, NEW r \in Actor, Locked(r)
  PROVE  IntakeInv'
<1>0. /\ txn[r].op \in {"purge", "retain"} /\ txn[r].stage = "storing" /\ txn[r].todo = <<>>
      /\ Still /\ txn' = [txn EXCEPT ![r].stage = "writing", ![r].left = EraseFirst(r)]
  BY DEF Locked, Ready, Still
<1>1. /\ txn[r] \in Txn /\ txn \in [Actor -> Txn] /\ Standing(txn[r])
      /\ txn[r].op = "purge" => PurgeStanding(txn[r])
      /\ txn[r].op = "retain" => RetainStanding(txn[r])
  BY <1>0 DEF IntakeInv, Typed, Standing
<1>2. PICK left : left = EraseFirst(r)
  OBVIOUS
<1>3. /\ txn[r].op = "purge" => left = {Cv(d) : d \in txn[r].plan}
      /\ txn[r].op = "retain" =>
           left = {Staged(i) : i \in {j \in txn[r].plan : item[j] = "pending"}}
  BY <1>0, <1>2 DEF EraseFirst
<1>4. left \in SUBSET File
  <2>1. CASE txn[r].op = "purge"
    BY <1>1, <1>3, <2>1 DEF File, Txn
  <2>2. CASE txn[r].op = "retain"
    BY <1>0, <1>1, <1>3, <2>2 DEF File, RetainStanding, Unsettled
  <2> QED
    BY <1>0, <2>1, <2>2
<1>5. txn' = [txn EXCEPT ![r].stage = "writing", ![r].left = left]
  BY <1>0, <1>2
<1>6. Alone(r)
  BY <1>1, <1>4, <1>5 DEF Alone, Txn
<1>7. /\ txn'[r].op = txn[r].op /\ txn'[r].arg = txn[r].arg /\ txn'[r].held = txn[r].held
      /\ txn'[r].stage = "writing" /\ txn'[r].left = left /\ txn'[r].plan = txn[r].plan
      /\ txn'[r].todo = <<>>
  BY <1>0, <1>1, <1>4, <1>5 DEF Txn
<1>8. OnTrack(r)
  BY <1>0, <1>7 DEF OnTrack
<1>9. Standing(txn[r])'
  <2>1. txn[r].op = "purge" => PurgeStanding(txn[r])'
    BY <1>0, <1>1, <1>3, <1>7 DEF PurgeStanding, DocsOf, Still, rows
  <2>2. txn[r].op = "retain" => RetainStanding(txn[r])'
    BY <1>0, <1>1, <1>3, <1>7 DEF RetainStanding, Unsettled, Still, rows
  <2> QED
    BY <1>0, <1>7, <2>1, <2>2 DEF Standing
<1> QED
  BY <1>0, <1>6, <1>8, <1>9, OnTrackStep

\* The last hook has run.
LEMMA HooksDoneStep ==
  ASSUME IntakeInv, NEW r \in Actor, HooksDone(r)
  PROVE  IntakeInv'
BY RefuseStep DEF HooksDone, Refuse, Owes

-----------------------------------------------------------------------------
(* Files are erased one by one; errors and crashes end a transaction early. *)

\* One file is erased: by a purge, a retention run or a hook.
LEMMA EraseStep ==
  ASSUME IntakeInv, NEW r \in Actor, Erase(r)
  PROVE  IntakeInv'
<1>1. PICK f \in txn[r].left : files' = files \ {f} /\ txn' = [txn EXCEPT ![r].left = @ \ {f}]
  BY DEF Erase
<1>2. UNCHANGED <<rows, bounds>> /\ txn[r].stage \in {"writing", "hooks"}
  BY DEF Erase
<1>3. /\ txn[r] \in Txn /\ txn \in [Actor -> Txn] /\ Standing(txn[r]) /\ LocksHeld(txn[r])
  BY DEF IntakeInv, Typed
<1>4. Alone(r)
  BY <1>1, <1>3 DEF Alone, Txn
<1>5. /\ txn'[r].op = txn[r].op /\ txn'[r].arg = txn[r].arg /\ txn'[r].held = txn[r].held
      /\ txn'[r].stage = txn[r].stage /\ txn'[r].todo = txn[r].todo
      /\ txn'[r].owner = txn[r].owner /\ txn'[r].plan = txn[r].plan
      /\ txn'[r].left = txn[r].left \ {f}
  BY <1>1, <1>3 DEF Txn
<1>6. UnderLocks(r)
  BY <1>1, <1>2, <1>4 DEF rows, UnderLocks, Alone
<1>7. LocksHeld(txn[r])'
  BY <1>2, <1>3, <1>5 DEF LocksHeld, Takes, First, Wanted, rows
<1>8. Standing(txn[r])'
  <2>1. txn[r].stage = "writing" => txn[r].op \in {"purge", "retain"}
    BY <1>1, <1>3 DEF Standing, UploadStanding, AcceptStanding, SkipStanding, DiscardStanding,
                      DirectStanding, ProfileStanding, DecisionStanding, Txn, Op
  <2>2. txn[r].stage = "writing" /\ txn[r].op = "purge" => PurgeStanding(txn[r])'
    BY <1>1, <1>2, <1>3, <1>5 DEF Standing, PurgeStanding, DocsOf, rows
  <2>3. txn[r].stage = "writing" /\ txn[r].op = "retain" => RetainStanding(txn[r])'
    BY <1>1, <1>2, <1>3, <1>5 DEF Standing, RetainStanding, Unsettled, rows
  <2>4. txn[r].stage = "hooks" => HookStanding(txn[r])'
    BY <1>1, <1>2, <1>3, <1>5 DEF Standing, HookStanding, rows
  <2> QED
    BY <1>2, <1>3, <1>5, <2>1, <2>2, <2>3, <2>4 DEF Standing
<1>9. \A q \in Actor : Standing(txn[q])' /\ LocksHeld(txn[q])'
  BY <1>6, <1>7, <1>8, OthersStand
<1>10. Typed'
  BY <1>1, <1>2, <1>4 DEF IntakeInv, Typed, rows, bounds, Alone
<1>11. Apart' /\ OneUploader'
  <2>1. NewInHand(r) /\ ApartFrom(r)
    BY <1>5 DEF NewInHand, ApartFrom, IntakeInv, Apart
  <2> QED
    BY <1>4, <2>1, StillApart, StillOneUploader
<1>12. BornOfItems' /\ OwnersAreReal' /\ TombstonesAreBare'
  BY <1>2 DEF IntakeInv, BornOfItems, OwnersAreReal, TombstonesAreBare, DocsOf, rows
<1>13. OneCopyPerCv' /\ IntakeMakesNoTwins' /\ ClosedBatchIsDone'
  BY <1>2 DEF IntakeInv, OneCopyPerCv, IntakeMakesNoTwins, ClosedBatchIsDone, Pending, rows
<1>14. StoredCvs'
  BY <1>1, <1>2, <1>4, <1>5 DEF IntakeInv, StoredCvs, rows, bounds, Alone
<1>15. StagedCvs'
  BY <1>1, <1>2, <1>4, <1>5 DEF IntakeInv, StagedCvs, rows, bounds, Alone
<1> QED
  BY <1>9, <1>10, <1>11, <1>12, <1>13, <1>14, <1>15 DEF IntakeInv

\* A transaction that breaks off leaves the rows, and removes files at most.
LEMMA BreakOff ==
  ASSUME IntakeInv, NEW r \in Actor, End(r), UNCHANGED rows, files' \subseteq files,
         faults' \in Nat, losses' \in Nat, StoredCvs', StagedCvs'
  PROVE  IntakeInv'
<1>1. /\ Alone(r) /\ NewInHand(r) /\ ApartFrom(r)
      /\ Standing(txn[r])' /\ LocksHeld(txn[r])'
  BY EndStands
<1>2. UnderLocks(r)
  BY <1>1 DEF rows, UnderLocks, Alone
<1>3. \A q \in Actor : Standing(txn[q])' /\ LocksHeld(txn[q])'
  BY <1>1, <1>2, OthersStand
<1>4. Typed'
  BY <1>1 DEF IntakeInv, Typed, rows, Alone
<1>5. Apart' /\ OneUploader'
  BY <1>1, StillApart, StillOneUploader
<1>6. BornOfItems' /\ OwnersAreReal' /\ TombstonesAreBare'
  BY DEF IntakeInv, BornOfItems, OwnersAreReal, TombstonesAreBare, DocsOf, rows
<1>7. OneCopyPerCv' /\ IntakeMakesNoTwins' /\ ClosedBatchIsDone'
  BY DEF IntakeInv, OneCopyPerCv, IntakeMakesNoTwins, ClosedBatchIsDone, Pending, rows
<1> QED
  BY <1>3, <1>4, <1>5, <1>6, <1>7 DEF IntakeInv

\* A rollback removes the file that was stored for the row that is not saved.
LEMMA RollbackStep ==
  ASSUME IntakeInv, NEW r \in Actor, Rollback(r)
  PROVE  IntakeInv'
<1>1. /\ End(r) /\ UNCHANGED rows /\ files' = files \ Fresh(r) /\ txn[r].stage = "writing"
      /\ faults' = faults + 1 /\ losses' = losses
  BY DEF Rollback
<1>2. Alone(r) /\ txn'[r] = Idle
  BY <1>1, EndStands
<1>3. /\ txn[r].op = "upload" /\ txn[r].plan = {} => Fresh(r) = {Staged(txn[r].arg)}
      /\ txn[r].op \in {"accept", "direct"} => Fresh(r) = {Cv(txn[r].arg)}
  BY <1>1 DEF Fresh
<1>4. faults' \in Nat /\ losses' \in Nat
  BY <1>1 DEF IntakeInv, Typed
<1>5. StoredCvs'
  BY <1>1, <1>2, <1>3 DEF IntakeInv, StoredCvs, rows, Alone
<1>6. StagedCvs'
  BY <1>1, <1>2, <1>3 DEF IntakeInv, StagedCvs, rows, Alone
<1> QED
  BY <1>1, <1>4, <1>5, <1>6, BreakOff

\* A process that dies, or a hook that fails, is counted as a loss.
LEMMA LossStep ==
  ASSUME IntakeInv, NEW r \in Actor, Crash(r) \/ HookFails(r)
  PROVE  IntakeInv'
<1>1. /\ End(r) /\ UNCHANGED rows /\ files' \subseteq files
      /\ faults' = faults /\ losses' = losses + 1
  BY DEF Crash, HookFails
<1>2. faults' \in Nat /\ losses' \in Nat /\ losses' # 0
  BY <1>1 DEF IntakeInv, Typed
<1>3. StoredCvs' /\ StagedCvs'
  BY <1>2 DEF StoredCvs, StagedCvs
<1> QED
  BY <1>1, <1>2, <1>3, BreakOff

-----------------------------------------------------------------------------
(* Commits. *)

RowsTyped ==
  /\ batch \in [Batch -> {"open", "completed", "discarded"}]
  /\ item \in [Item -> {"absent", "pending", "created", "skipped"}]
  /\ status \in [Candidate -> {"absent", "active", "inactive", "requested", "deleted"}]
  /\ docs \subseteq Document /\ profiled \subseteq Document
  /\ owner \in [Document -> Candidate \cup {Nobody}]
  /\ sourced \subseteq Candidate \X Item

\* The commit leaves no file without a row, a hook or a loss to explain it.
AccountsFor(r) ==
  /\ \A d \in docs \ docs' : Cv(d) \notin files
  /\ txn[r].op \in {"accept", "direct"} => txn[r].arg \in docs'
  /\ txn[r].op = "upload" /\ txn[r].plan = {} => item'[txn[r].arg] = "pending"
  /\ \A i \in Item : item[i] = "pending" /\ item'[i] # "pending" =>
       Staged(i) \notin files \/ Staged(i) \in EraseLast(r)

\* What the hooks will erase is settled now.
HooksAgree(r) ==
  /\ EraseLast(r) \subseteq {Staged(i) : i \in {j \in Item : item'[j] \in {"created", "skipped"}}}
  /\ EraseLast(r) # {} => txn[r].op \in {"accept", "skip", "discard"}

\* After its commit a transaction has no locks, and hooks only where it
\* promised some.
LEMMA CommittedTxn ==
  ASSUME IntakeInv, NEW r \in Actor, txn[r].stage = "writing", Committed(r), HooksAgree(r)
  PROVE  /\ Alone(r) /\ NewInHand(r) /\ ApartFrom(r)
         /\ Standing(txn[r])' /\ LocksHeld(txn[r])'
         /\ EraseLast(r) # {} => txn'[r].stage = "hooks" /\ txn'[r].left = EraseLast(r)
<1>1. txn[r] \in Txn /\ txn \in [Actor -> Txn] /\ Standing(txn[r]) /\ LocksHeld(txn[r])
  BY DEF IntakeInv, Typed
<1>2. CASE EraseLast(r) = {}
  <2>1. End(r)
    BY <1>2 DEF Committed, End
  <2> QED
    BY <1>2, <2>1, EndStands
<1>3. CASE EraseLast(r) # {}
  <2>1. PICK left : left = EraseLast(r)
    OBVIOUS
  <2>2. left \in SUBSET File /\ left # {}
    BY <1>3, <2>1 DEF HooksAgree, File
  <2>3. txn' = [txn EXCEPT ![r] = [@ EXCEPT !.stage = "hooks", !.held = {}, !.left = left]]
    BY <1>3, <2>1 DEF Committed
  <2>4. Alone(r)
    BY <1>1, <2>2, <2>3 DEF Alone, Txn
  <2>5. /\ txn'[r].op = txn[r].op /\ txn'[r].arg = txn[r].arg /\ txn'[r].held = {}
        /\ txn'[r].stage = "hooks" /\ txn'[r].todo = txn[r].todo /\ txn'[r].left = left
    BY <1>1, <2>2, <2>3 DEF Txn
  <2>6. NewInHand(r) /\ ApartFrom(r)
    BY <2>5 DEF NewInHand, ApartFrom
  <2>7. LocksHeld(txn[r])'
    BY <1>1, <2>5 DEF LocksHeld
  <2>8. HookStanding(txn[r])'
    BY <1>3, <2>1, <2>5 DEF HookStanding, HooksAgree
  <2>9. Standing(txn[r])'
    BY <1>1, <2>5, <2>8 DEF Standing
  <2> QED
    BY <2>1, <2>4, <2>5, <2>6, <2>7, <2>9
<1> QED
  BY <1>2, <1>3

\* What each commit has to show: rows of its type under its locks, hooks for
\* the files it gives up, and the properties of the rows.
LEMMA CommitStep ==
  ASSUME IntakeInv, NEW r \in Actor, txn[r].stage = "writing", txn[r].left = {}, Committed(r),
         UNCHANGED <<vacant, files, bounds>>, RowsTyped', UnderLocks(r),
         HooksAgree(r), AccountsFor(r),
         BornOfItems', OwnersAreReal', TombstonesAreBare',
         OneCopyPerCv', IntakeMakesNoTwins', ClosedBatchIsDone'
  PROVE  IntakeInv'
<1>1. /\ Alone(r) /\ NewInHand(r) /\ ApartFrom(r)
      /\ Standing(txn[r])' /\ LocksHeld(txn[r])'
      /\ EraseLast(r) # {} => txn'[r].stage = "hooks" /\ txn'[r].left = EraseLast(r)
  BY CommittedTxn
<1>2. \A q \in Actor : Standing(txn[q])' /\ LocksHeld(txn[q])'
  BY <1>1, OthersStand
<1>3. Typed'
  BY <1>1 DEF IntakeInv, Typed, RowsTyped, bounds, Alone
<1>4. Apart' /\ OneUploader'
  BY <1>1, StillApart, StillOneUploader
<1>5. StoredCvs'
  BY <1>1 DEF IntakeInv, StoredCvs, bounds, Alone, AccountsFor
<1>6. StagedCvs'
  <2> SUFFICES ASSUME losses = 0, NEW i \in Item, Staged(i) \in files, item'[i] # "pending"
               PROVE \/ \E q \in Actor : /\ txn'[q].stage = "writing" /\ txn'[q].arg = i
                                         /\ txn'[q].op = "upload" /\ txn'[q].plan = {}
                     \/ \E q \in Actor : txn'[q].stage = "hooks" /\ Staged(i) \in txn'[q].left
    BY DEF StagedCvs, bounds
  <2>1. CASE item[i] = "pending"
    BY <1>1, <2>1 DEF AccountsFor
  <2>2. ASSUME NEW q \in Actor, txn[q].stage = "writing", txn[q].arg = i, txn[q].op = "upload",
               txn[q].plan = {}
        PROVE  q # r /\ txn'[q] = txn[q]
    BY <1>1, <2>2 DEF Alone, AccountsFor
  <2>3. ASSUME NEW q \in Actor, txn[q].stage = "hooks"
        PROVE  q # r /\ txn'[q] = txn[q]
    BY <1>1, <2>3 DEF Alone
  <2>4. \/ item[i] = "pending"
        \/ \E q \in Actor : /\ txn[q].stage = "writing" /\ txn[q].arg = i
                            /\ txn[q].op = "upload" /\ txn[q].plan = {}
        \/ \E q \in Actor : txn[q].stage = "hooks" /\ Staged(i) \in txn[q].left
    BY DEF IntakeInv, StagedCvs
  <2> QED
    BY <2>1, <2>2, <2>3, <2>4
<1> QED
  BY <1>2, <1>3, <1>4, <1>5, <1>6 DEF IntakeInv

(* Settling an item closes its batch only when nothing else awaits review. *)
LEMMA SettleClosesDone ==
  ASSUME IntakeInv, NEW r \in Actor, NEW i \in Item, NEW s \in {"created", "skipped"},
         Settle(r, i, s), txn[r].closes => LastPending(i)
  PROVE  /\ item' \in [Item -> {"absent", "pending", "created", "skipped"}]
         /\ batch' \in [Batch -> {"open", "completed", "discarded"}]
         /\ item'[i] = s /\ \A j \in Item : j # i => item'[j] = item[j]
         /\ \A b \in Batch : batch'[b] # batch[b] => b = BatchOf[i]
         /\ ClosedBatchIsDone'
<1>1. /\ item \in [Item -> {"absent", "pending", "created", "skipped"}]
      /\ batch \in [Batch -> {"open", "completed", "discarded"}]
      /\ BatchOf[i] \in Batch /\ ClosedBatchIsDone
  BY IntakeAssumption DEF IntakeInv, Typed
<1>2. /\ item' \in [Item -> {"absent", "pending", "created", "skipped"}]
      /\ item'[i] = s /\ \A j \in Item : j # i => item'[j] = item[j]
  BY <1>1 DEF Settle
<1>3. batch' = IF txn[r].closes THEN [batch EXCEPT ![BatchOf[i]] = "completed"] ELSE batch
  BY DEF Settle
<1>4. /\ batch' \in [Batch -> {"open", "completed", "discarded"}]
      /\ \A b \in Batch : batch'[b] # batch[b] => b = BatchOf[i] /\ txn[r].closes
  <2>1. CASE txn[r].closes
    BY <1>1, <1>3, <2>1
  <2>2. CASE ~txn[r].closes
    BY <1>1, <1>3, <2>2
  <2> QED
    BY <2>1, <2>2
<1>5. ClosedBatchIsDone'
  <2> SUFFICES ASSUME NEW b \in Batch, batch'[b] # "open", NEW j \in Item, BatchOf[j] = b,
                      item'[j] = "pending"
               PROVE  FALSE
    BY DEF ClosedBatchIsDone, Pending
  <2>1. j # i /\ item[j] = "pending"
    BY <1>2
  <2>2. CASE batch[b] # "open"
    BY <1>1, <2>1, <2>2 DEF ClosedBatchIsDone, Pending
  <2>3. CASE batch[b] = "open"
    BY <1>4, <2>1, <2>3 DEF LastPending, Pending
  <2> QED
    BY <2>2, <2>3
<1> QED
  BY <1>2, <1>4, <1>5

\* Which rows a transaction holds when it writes.
LEMMA HeldInWriting ==
  ASSUME IntakeInv, NEW r \in Actor, txn[r].stage = "writing"
  PROVE  /\ txn[r].op = "upload" =>
              Keeps(r, Organization) /\ Keeps(r, BatchRow(BatchOf[txn[r].arg]))
         /\ txn[r].op = "accept" =>
              Keeps(r, Organization) /\ Keeps(r, BatchRow(BatchOf[txn[r].arg]))
         /\ txn[r].op = "accept" /\ txn[r].owner # txn[r].arg => Keeps(r, PersonRow(txn[r].owner))
         /\ txn[r].op = "skip" => Keeps(r, BatchRow(BatchOf[txn[r].arg]))
         /\ txn[r].op = "discard" => Keeps(r, BatchRow(txn[r].arg))
         /\ txn[r].op = "direct" => Keeps(r, Organization) /\ Keeps(r, PersonRow(txn[r].owner))
         /\ txn[r].op \in {"request", "cancel", "purge"} => Keeps(r, PersonRow(txn[r].arg))
         /\ txn[r].op = "retain" => Keeps(r, Organization)
<1>1. LocksHeld(txn[r]) /\ txn[r].todo = <<>>
  BY DEF IntakeInv, LocksHeld
<1>2. Wanted(txn[r]) = txn[r].held
  BY <1>1 DEF Wanted
<1> QED
  BY <1>1, <1>2 DEF LocksHeld, Takes, First, Keeps

\* The commit of an upload.
LEMMA CommitUploadStep ==
  ASSUME IntakeInv, NEW r \in Actor, CommitUpload(r)
  PROVE  IntakeInv'
<1> DEFINE i == txn[r].arg
<1>1. /\ txn[r].op = "upload" /\ txn[r].stage = "writing" /\ txn[r].left = {} /\ txn[r].plan = {}
      /\ item' = [item EXCEPT ![i] = "pending"] /\ Committed(r)
      /\ UNCHANGED <<batch, vacant, status, docs, owner, profiled, sourced, files, bounds>>
  BY DEF CommitUpload, Committing, AtCommit
<1>2. UploadStanding(txn[r]) /\ i \in Item /\ item[i] = "absent" /\ batch[BatchOf[i]] = "open"
      /\ Copies(i) = {} /\ NoPendingCopy(i)
  BY <1>1 DEF IntakeInv, Standing, UploadStanding
<1>3. RowsTyped' /\ item'[i] = "pending" /\ \A j \in Item : j # i => item'[j] = item[j]
  BY <1>1, <1>2 DEF IntakeInv, Typed, RowsTyped
<1>4. EraseLast(r) = {}
  BY <1>1 DEF EraseLast
<1>5. Alone(r)
  BY <1>1, <1>4, EndStands DEF Committed, End
<1>6. UnderLocks(r)
  BY <1>1, <1>2, <1>3, <1>5, HeldInWriting DEF UnderLocks, ItemMoves, Alone
<1>7. HooksAgree(r) /\ AccountsFor(r)
  BY <1>1, <1>2, <1>3, <1>4 DEF HooksAgree, AccountsFor
<1>8. BornOfItems' /\ OwnersAreReal' /\ TombstonesAreBare'
  BY <1>1, <1>2, <1>3 DEF IntakeInv, BornOfItems, OwnersAreReal, TombstonesAreBare, DocsOf
<1>9. OneCopyPerCv' /\ IntakeMakesNoTwins'
  BY <1>1, <1>2, <1>3 DEF IntakeInv, OneCopyPerCv, IntakeMakesNoTwins, NoPendingCopy
<1>10. ClosedBatchIsDone'
  BY <1>1, <1>2, <1>3 DEF IntakeInv, ClosedBatchIsDone, Pending
<1> QED
  BY <1>1, <1>3, <1>6, <1>7, <1>8, <1>9, <1>10, CommitStep

\* The commit of an upload that was a copy.
LEMMA CommitReuseStep ==
  ASSUME IntakeInv, NEW r \in Actor, CommitReuse(r)
  PROVE  IntakeInv'
<1> DEFINE i == txn[r].arg
           c == txn[r].owner
<1>1. txn[r].op = "upload" /\ txn[r].stage = "writing" /\ txn[r].left = {}
  BY DEF CommitReuse, Committing, AtCommit
<1>2. PICK d \in txn[r].plan :
        IF d \notin docs THEN Refuse(r)
        ELSE /\ Settle(r, i, "created")
             /\ sourced' = sourced \cup {<<c, i>>}
             /\ Committed(r)
             /\ UNCHANGED <<vacant, status, docs, owner, profiled, files, bounds>>
  BY DEF CommitReuse
<1>3. UploadStanding(txn[r]) /\ i \in Item /\ item[i] = "absent"
      /\ c \in Candidate /\ owner[d] = c /\ (txn[r].closes => LastPending(i))
  BY <1>1, <1>2 DEF IntakeInv, Standing, UploadStanding
<1>4. CASE d \notin docs
  <2>1. ~Owes(r)
    BY <1>1, <1>2 DEF Owes
  <2> QED
    BY <1>2, <1>4, <2>1, RefuseStep
<1>5. CASE d \in docs
  <2>1. /\ Settle(r, i, "created") /\ sourced' = sourced \cup {<<c, i>>} /\ Committed(r)
        /\ UNCHANGED <<vacant, status, docs, owner, profiled, files, bounds>>
    BY <1>2, <1>5
  <2>2. /\ item' \in [Item -> {"absent", "pending", "created", "skipped"}]
        /\ batch' \in [Batch -> {"open", "completed", "discarded"}]
        /\ item'[i] = "created" /\ \A j \in Item : j # i => item'[j] = item[j]
        /\ \A b \in Batch : batch'[b] # batch[b] => b = BatchOf[i]
        /\ ClosedBatchIsDone'
    BY <1>3, <2>1, SettleClosesDone
  <2>3. RowsTyped'
    BY <1>3, <2>1, <2>2 DEF IntakeInv, Typed, RowsTyped
  <2>4. EraseLast(r) = {}
    BY <1>1 DEF EraseLast
  <2>5. Alone(r)
    BY <2>1, <2>4, EndStands DEF Committed, End
  <2>6. UnderLocks(r)
    BY <1>1, <1>3, <2>1, <2>2, <2>5, HeldInWriting DEF UnderLocks, ItemMoves, Alone
  <2>7. HooksAgree(r) /\ AccountsFor(r)
    BY <1>1, <1>2, <1>3, <2>1, <2>2, <2>4 DEF HooksAgree, AccountsFor
  <2>8. BornOfItems' /\ OwnersAreReal'
    BY <1>3, <2>1, <2>2 DEF IntakeInv, BornOfItems, OwnersAreReal
  <2>9. TombstonesAreBare'
    <3>1. status[c] # "deleted"
      BY <1>3, <1>5 DEF IntakeInv, TombstonesAreBare, DocsOf
    <3> QED
      BY <2>1, <3>1 DEF IntakeInv, TombstonesAreBare, DocsOf
  <2>10. OneCopyPerCv' /\ IntakeMakesNoTwins'
    BY <1>3, <2>1, <2>2 DEF IntakeInv, OneCopyPerCv, IntakeMakesNoTwins
  <2> QED
    BY <1>1, <2>1, <2>2, <2>3, <2>6, <2>7, <2>8, <2>9, <2>10, CommitStep
<1> QED
  BY <1>4, <1>5

\* The commit of a skip.
LEMMA CommitSkipStep ==
  ASSUME IntakeInv, NEW r \in Actor, CommitSkip(r)
  PROVE  IntakeInv'
<1> DEFINE i == txn[r].arg
<1>1. /\ txn[r].op = "skip" /\ txn[r].stage = "writing" /\ txn[r].left = {}
      /\ Settle(r, i, "skipped") /\ Committed(r)
      /\ UNCHANGED <<vacant, status, docs, owner, profiled, sourced, files, bounds>>
  BY DEF CommitSkip, Committing, AtCommit
<1>2. i \in Item /\ item[i] \in {"pending", "skipped"} /\ (txn[r].closes => LastPending(i))
  BY <1>1 DEF IntakeInv, Standing, SkipStanding
<1>3. /\ item' \in [Item -> {"absent", "pending", "created", "skipped"}]
      /\ batch' \in [Batch -> {"open", "completed", "discarded"}]
      /\ item'[i] = "skipped" /\ \A j \in Item : j # i => item'[j] = item[j]
      /\ \A b \in Batch : batch'[b] # batch[b] => b = BatchOf[i]
      /\ ClosedBatchIsDone'
  BY <1>1, <1>2, SettleClosesDone
<1>4. RowsTyped'
  BY <1>1, <1>3 DEF IntakeInv, Typed, RowsTyped
<1>5. EraseLast(r) = {Staged(i)}
  BY <1>1 DEF EraseLast
<1>6. HooksAgree(r) /\ AccountsFor(r)
  BY <1>1, <1>2, <1>3, <1>5 DEF HooksAgree, AccountsFor
<1>7. Alone(r)
  BY <1>1, <1>6, CommittedTxn
<1>8. UnderLocks(r)
  BY <1>1, <1>2, <1>3, <1>7, HeldInWriting DEF UnderLocks, ItemMoves, Alone
<1>9. BornOfItems' /\ OwnersAreReal' /\ TombstonesAreBare'
  BY <1>1, <1>2, <1>3 DEF IntakeInv, BornOfItems, OwnersAreReal, TombstonesAreBare, DocsOf
<1>10. OneCopyPerCv' /\ IntakeMakesNoTwins'
  BY <1>1, <1>2, <1>3 DEF IntakeInv, OneCopyPerCv, IntakeMakesNoTwins
<1> QED
  BY <1>1, <1>3, <1>4, <1>6, <1>8, <1>9, <1>10, CommitStep

(* Retention and discarded batches skip what they planned. *)
LEMMA SkipPlanned ==
  ASSUME IntakeInv, NEW r \in Actor, Unsettled(txn[r].plan),
         item' = [i \in Item |-> IF i \in txn[r].plan THEN "skipped" ELSE item[i]]
  PROVE  /\ item' \in [Item -> {"absent", "pending", "created", "skipped"}]
         /\ \A i \in Item : item'[i] # item[i] =>
              i \in txn[r].plan /\ item[i] = "pending" /\ item'[i] = "skipped"
         /\ \A i \in txn[r].plan : item'[i] = "skipped"
BY DEF IntakeInv, Typed, Unsettled

\* The commit of a discard.
LEMMA CommitDiscardStep ==
  ASSUME IntakeInv, NEW r \in Actor, CommitDiscard(r)
  PROVE  IntakeInv'
<1> DEFINE b == txn[r].arg
<1>1. /\ txn[r].op = "discard" /\ txn[r].stage = "writing" /\ txn[r].left = {}
      /\ item' = [i \in Item |-> IF i \in txn[r].plan THEN "skipped" ELSE item[i]]
      /\ batch' = [batch EXCEPT ![b] = "discarded"] /\ Committed(r)
      /\ UNCHANGED <<vacant, status, docs, owner, profiled, sourced, files, bounds>>
  BY DEF CommitDiscard, Committing, AtCommit
<1>2. b \in Batch /\ Pending(b) \subseteq txn[r].plan /\ Unsettled(txn[r].plan)
      /\ \A i \in txn[r].plan : BatchOf[i] = b
  BY <1>1 DEF IntakeInv, Standing, DiscardStanding
<1>3. /\ item' \in [Item -> {"absent", "pending", "created", "skipped"}]
      /\ \A i \in Item : item'[i] # item[i] =>
              i \in txn[r].plan /\ item[i] = "pending" /\ item'[i] = "skipped"
      /\ \A i \in txn[r].plan : item'[i] = "skipped"
  BY <1>1, <1>2, SkipPlanned
<1>4. RowsTyped' /\ \A a \in Batch : batch'[a] # batch[a] => a = b
  BY <1>1, <1>2, <1>3 DEF IntakeInv, Typed, RowsTyped
<1>5. EraseLast(r) = {Staged(i) : i \in txn[r].plan}
  BY <1>1 DEF EraseLast
<1>6. HooksAgree(r) /\ AccountsFor(r)
  BY <1>1, <1>2, <1>3, <1>5 DEF HooksAgree, AccountsFor, Unsettled
<1>7. Alone(r)
  BY <1>1, <1>6, CommittedTxn
<1>8. UnderLocks(r)
  BY <1>1, <1>2, <1>3, <1>4, <1>7, HeldInWriting DEF UnderLocks, ItemMoves, Alone
<1>9. BornOfItems' /\ OwnersAreReal' /\ TombstonesAreBare'
  BY <1>1, <1>3 DEF IntakeInv, BornOfItems, OwnersAreReal, TombstonesAreBare, DocsOf
<1>10. OneCopyPerCv' /\ IntakeMakesNoTwins'
  BY <1>1, <1>3 DEF IntakeInv, OneCopyPerCv, IntakeMakesNoTwins
<1>11. ClosedBatchIsDone'
  BY <1>1, <1>2, <1>3, <1>4 DEF IntakeInv, ClosedBatchIsDone, Pending
<1> QED
  BY <1>1, <1>4, <1>6, <1>8, <1>9, <1>10, <1>11, CommitStep

\* The commit of a retention run.
LEMMA CommitRetainStep ==
  ASSUME IntakeInv, NEW r \in Actor, CommitRetain(r)
  PROVE  IntakeInv'
<1>1. /\ txn[r].op = "retain" /\ txn[r].stage = "writing" /\ txn[r].left = {}
      /\ item' = [i \in Item |-> IF i \in txn[r].plan THEN "skipped" ELSE item[i]]
      /\ Committed(r)
      /\ UNCHANGED <<batch, vacant, status, docs, owner, profiled, sourced, files, bounds>>
  BY DEF CommitRetain, Committing, AtCommit
<1>2. Unsettled(txn[r].plan)
      /\ \A i \in txn[r].plan : item[i] = "pending" => Staged(i) \notin files
  BY <1>1 DEF IntakeInv, Standing, RetainStanding
<1>3. /\ item' \in [Item -> {"absent", "pending", "created", "skipped"}]
      /\ \A i \in Item : item'[i] # item[i] =>
              i \in txn[r].plan /\ item[i] = "pending" /\ item'[i] = "skipped"
  BY <1>1, <1>2, SkipPlanned
<1>4. RowsTyped'
  BY <1>1, <1>3 DEF IntakeInv, Typed, RowsTyped
<1>5. EraseLast(r) = {}
  BY <1>1 DEF EraseLast
<1>6. HooksAgree(r) /\ AccountsFor(r)
  BY <1>1, <1>2, <1>3, <1>5 DEF HooksAgree, AccountsFor
<1>7. Alone(r)
  BY <1>1, <1>6, CommittedTxn
<1>8. UnderLocks(r)
  BY <1>1, <1>2, <1>3, <1>7, HeldInWriting DEF UnderLocks, ItemMoves, Alone
<1>9. BornOfItems' /\ OwnersAreReal' /\ TombstonesAreBare'
  BY <1>1, <1>3 DEF IntakeInv, BornOfItems, OwnersAreReal, TombstonesAreBare, DocsOf
<1>10. OneCopyPerCv' /\ IntakeMakesNoTwins'
  BY <1>1, <1>3 DEF IntakeInv, OneCopyPerCv, IntakeMakesNoTwins
<1>11. ClosedBatchIsDone'
  BY <1>1, <1>2, <1>3 DEF IntakeInv, ClosedBatchIsDone, Pending
<1> QED
  BY <1>1, <1>4, <1>6, <1>8, <1>9, <1>10, <1>11, CommitStep

\* The commit of an accept: item, candidate, document and source at once.
LEMMA CommitAcceptStep ==
  ASSUME IntakeInv, NEW r \in Actor, CommitAccept(r)
  PROVE  IntakeInv'
<1> DEFINE i == txn[r].arg
           c == txn[r].owner
<1>1. /\ txn[r].op = "accept" /\ txn[r].stage = "writing" /\ txn[r].left = {}
      /\ Settle(r, i, "created")
      /\ status' = [status EXCEPT ![c] = "active"]
      /\ docs' = docs \cup {i} /\ owner' = [owner EXCEPT ![i] = c]
      /\ sourced' = sourced \cup {<<c, i>>} /\ Committed(r)
      /\ UNCHANGED <<vacant, profiled, files, bounds>>
  BY DEF CommitAccept, Committing, AtCommit
<1>2. /\ i \in Item /\ item[i] = "pending" /\ c \in Candidate
      /\ c = i => NoTwinOf(i)
      /\ c # i => status[c] # "absent"
      /\ Copies(i) = {} /\ ~Frozen(c) /\ (txn[r].closes => LastPending(i))
  BY <1>1 DEF IntakeInv, Standing, AcceptStanding
<1>3. status[i] = "absent" /\ owner[i] = Nobody /\ i \notin docs /\ i \in Document /\ i \in Candidate
  <2>1. status[i] = "absent" /\ owner[i] = Nobody /\ i \in Document /\ i \in Candidate
    BY <1>2 DEF IntakeInv, BornOfItems, Document, Candidate
  <2> QED
    BY <2>1, IntakeAssumption DEF IntakeInv, OwnersAreReal, Nobody
<1>4. /\ item' \in [Item -> {"absent", "pending", "created", "skipped"}]
      /\ batch' \in [Batch -> {"open", "completed", "discarded"}]
      /\ item'[i] = "created" /\ \A j \in Item : j # i => item'[j] = item[j]
      /\ \A b \in Batch : batch'[b] # batch[b] => b = BatchOf[i]
      /\ ClosedBatchIsDone'
  BY <1>1, <1>2, SettleClosesDone
<1>5. /\ status' \in [Candidate -> {"absent", "active", "inactive", "requested", "deleted"}]
      /\ owner' \in [Document -> Candidate \cup {Nobody}]
      /\ status'[c] = "active" /\ \A p \in Candidate : p # c => status'[p] = status[p]
      /\ owner'[i] = c /\ \A d \in Document : d # i => owner'[d] = owner[d]
  BY <1>1, <1>2, <1>3 DEF IntakeInv, Typed
<1>6. RowsTyped'
  BY <1>1, <1>2, <1>3, <1>4, <1>5 DEF IntakeInv, Typed, RowsTyped
<1>7. EraseLast(r) = {Staged(i)}
  BY <1>1 DEF EraseLast
<1>8. HooksAgree(r) /\ AccountsFor(r)
  BY <1>1, <1>2, <1>4, <1>7 DEF HooksAgree, AccountsFor
<1>9. Alone(r)
  BY <1>1, <1>8, CommittedTxn
<1>10. UnderLocks(r)
  <2>1. \A j \in Item : item'[j] # item[j] => ItemMoves(r, j)
    BY <1>1, <1>2, <1>4, HeldInWriting DEF ItemMoves
  <2>2. \A p \in Candidate : status'[p] # status[p] => StatusMoves(r, p)
    BY <1>1, <1>2, <1>3, <1>5, HeldInWriting DEF StatusMoves, Here
  <2>3. \A d \in docs' \ docs : DocAdded(r, d)
    BY <1>1, <1>2, <1>3, <1>5, HeldInWriting DEF DocAdded
  <2>4. \A b \in Batch : batch'[b] # batch[b] => Keeps(r, BatchRow(b))
    BY <1>1, <1>4, HeldInWriting
  <2> QED
    BY <1>1, <1>3, <1>5, <1>9, <2>1, <2>2, <2>3, <2>4 DEF UnderLocks, Alone
<1>11. BornOfItems'
  <2> SUFFICES ASSUME NEW j \in Item, item'[j] # "created"
               PROVE  status'[j] = "absent" /\ owner'[j] = Nobody
    BY DEF BornOfItems
  <2>1. j # i /\ status[j] = "absent" /\ owner[j] = Nobody
    BY <1>4 DEF IntakeInv, BornOfItems
  <2>2. j # c
    BY <1>2, <2>1
  <2> QED
    BY <1>5, <2>1, <2>2 DEF Document, Candidate
<1>12. OwnersAreReal'
  <2>1. \A d \in docs' : owner'[d] \in Candidate
    BY <1>1, <1>2, <1>3, <1>5 DEF IntakeInv, Typed, OwnersAreReal
  <2>2. \A d \in Document : owner'[d] # Nobody => status'[owner'[d]] # "absent"
    BY <1>2, <1>5 DEF IntakeInv, Typed, OwnersAreReal
  <2> QED
    BY <1>1, <2>1, <2>2 DEF IntakeInv, OwnersAreReal
<1>13. TombstonesAreBare'
  <2> SUFFICES ASSUME NEW p \in Candidate, status'[p] = "deleted"
               PROVE  DocsOf(p)' = {} /\ \A s \in sourced' : s[1] # p
    BY DEF TombstonesAreBare
  <2>1. p # c /\ status[p] = "deleted"
    BY <1>5
  <2>2. DocsOf(p) = {} /\ \A s \in sourced : s[1] # p
    BY <2>1 DEF IntakeInv, TombstonesAreBare
  <2>3. DocsOf(p)' = {}
    BY <1>1, <1>5, <2>1, <2>2 DEF DocsOf, IntakeInv, Typed
  <2> QED
    BY <1>1, <2>1, <2>2, <2>3
<1>14. OneCopyPerCv'
  BY <1>1, <1>2, <1>4 DEF IntakeInv, OneCopyPerCv, Copies
<1>15. IntakeMakesNoTwins'
  <2> SUFFICES ASSUME NEW j \in Item, NEW p \in Candidate, Here(j)', Here(p)', Ids[j] \cap Ids[p] # {}
               PROVE  p = j
    BY DEF IntakeMakesNoTwins, Here
  <2>1. \A q \in Candidate : q # c => (Here(q)' <=> Here(q))
    BY <1>5 DEF Here
  <2>2. j \in Candidate
    BY DEF Candidate
  <2>3. CASE c = i
    BY <1>2, <2>1, <2>2, <2>3 DEF IntakeInv, IntakeMakesNoTwins, NoTwinOf, Here
  <2>4. CASE c # i
    <3>1. Here(c)
      BY <1>2, <2>4 DEF Here, Frozen
    <3> QED
      BY <2>1, <2>2, <3>1 DEF IntakeInv, IntakeMakesNoTwins, Here
  <2> QED
    BY <2>3, <2>4
<1> QED
  BY <1>1, <1>4, <1>6, <1>8, <1>10, <1>11, <1>12, <1>13, <1>14, <1>15, CommitStep

\* The commit of a direct upload.
LEMMA CommitDirectStep ==
  ASSUME IntakeInv, NEW r \in Actor, CommitDirect(r)
  PROVE  IntakeInv'
<1> DEFINE d == txn[r].arg
           c == txn[r].owner
<1>1. /\ txn[r].op = "direct" /\ txn[r].stage = "writing" /\ txn[r].left = {}
      /\ docs' = docs \cup {d} /\ owner' = [owner EXCEPT ![d] = c] /\ Committed(r)
      /\ UNCHANGED <<batch, vacant, item, status, profiled, sourced, files, bounds>>
  BY DEF CommitDirect, Committing, AtCommit
<1>2. /\ d \in Direct /\ c \in Candidate /\ owner[d] = Nobody /\ status[c] # "absent"
      /\ Copies(d) = {} /\ ~Frozen(c)
  BY <1>1 DEF IntakeInv, Standing, DirectStanding
<1>3. d \in Document /\ d \notin docs /\ d \notin Item
  BY <1>2, IntakeAssumption DEF IntakeInv, OwnersAreReal, Document, Nobody
<1>4. /\ owner' \in [Document -> Candidate \cup {Nobody}]
      /\ owner'[d] = c /\ \A e \in Document : e # d => owner'[e] = owner[e]
  BY <1>1, <1>2, <1>3 DEF IntakeInv, Typed
<1>5. RowsTyped'
  BY <1>1, <1>3, <1>4 DEF IntakeInv, Typed, RowsTyped
<1>6. EraseLast(r) = {}
  BY <1>1 DEF EraseLast
<1>7. HooksAgree(r) /\ AccountsFor(r)
  BY <1>1, <1>6 DEF HooksAgree, AccountsFor
<1>8. Alone(r)
  BY <1>1, <1>7, CommittedTxn
<1>9. UnderLocks(r)
  BY <1>1, <1>2, <1>3, <1>4, <1>8, HeldInWriting DEF UnderLocks, DocAdded, Alone
<1>10. BornOfItems'
  BY <1>1, <1>3, <1>4 DEF IntakeInv, BornOfItems, Document
<1>11. OwnersAreReal'
  BY <1>1, <1>2, <1>3, <1>4 DEF IntakeInv, Typed, OwnersAreReal
<1>12. TombstonesAreBare'
  BY <1>1, <1>2, <1>4 DEF IntakeInv, Typed, TombstonesAreBare, DocsOf, Frozen
<1>13. OneCopyPerCv' /\ IntakeMakesNoTwins' /\ ClosedBatchIsDone'
  BY <1>1, <1>2 DEF IntakeInv, OneCopyPerCv, Copies, IntakeMakesNoTwins, ClosedBatchIsDone, Pending
<1> QED
  BY <1>1, <1>5, <1>7, <1>9, <1>10, <1>11, <1>12, <1>13, CommitStep

\* The commit of a profile.
LEMMA CommitProfileStep ==
  ASSUME IntakeInv, NEW r \in Actor, CommitProfile(r)
  PROVE  IntakeInv'
<1> DEFINE d == txn[r].arg
<1>1. /\ txn[r].op = "profile" /\ txn[r].stage = "writing" /\ txn[r].left = {}
      /\ profiled' = profiled \cup {d} /\ Committed(r)
      /\ UNCHANGED <<batch, vacant, item, status, docs, owner, sourced, files, bounds>>
  BY DEF CommitProfile, Committing, AtCommit
<1>2. d \in Document /\ d \in docs
  BY <1>1 DEF IntakeInv, Standing, ProfileStanding
<1>3. RowsTyped'
  BY <1>1, <1>2 DEF IntakeInv, Typed, RowsTyped
<1>4. EraseLast(r) = {}
  BY <1>1 DEF EraseLast
<1>5. HooksAgree(r) /\ AccountsFor(r)
  BY <1>1, <1>4 DEF HooksAgree, AccountsFor
<1>6. Alone(r)
  BY <1>1, <1>5, CommittedTxn
<1>7. UnderLocks(r)
  BY <1>1, <1>6 DEF UnderLocks, Alone
<1>8. BornOfItems' /\ OwnersAreReal' /\ TombstonesAreBare'
  BY <1>1, <1>2 DEF IntakeInv, BornOfItems, OwnersAreReal, TombstonesAreBare, DocsOf
<1>9. OneCopyPerCv' /\ IntakeMakesNoTwins' /\ ClosedBatchIsDone'
  BY <1>1 DEF IntakeInv, OneCopyPerCv, IntakeMakesNoTwins, ClosedBatchIsDone, Pending
<1> QED
  BY <1>1, <1>3, <1>5, <1>7, <1>8, <1>9, CommitStep

\* The commit of a deletion request or a cancellation.
LEMMA CommitDecisionStep ==
  ASSUME IntakeInv, NEW r \in Actor, CommitDecision(r)
  PROVE  IntakeInv'
<1> DEFINE c == txn[r].arg
<1>1. /\ txn[r].op \in {"request", "cancel"} /\ txn[r].stage = "writing" /\ txn[r].left = {}
      /\ Committed(r)
      /\ UNCHANGED <<batch, vacant, item, docs, owner, profiled, sourced, files, bounds>>
  BY DEF CommitDecision, Committing, AtCommit
<1>2. PICK new \in {"active", "inactive", "requested"} : status' = [status EXCEPT ![c] = new]
  BY DEF CommitDecision
<1>3. c \in Candidate /\ Here(c)
  BY <1>1 DEF IntakeInv, Standing, DecisionStanding
<1>4. /\ status' \in [Candidate -> {"absent", "active", "inactive", "requested", "deleted"}]
      /\ status'[c] = new /\ \A p \in Candidate : p # c => status'[p] = status[p]
  BY <1>2, <1>3 DEF IntakeInv, Typed
<1>5. RowsTyped'
  BY <1>1, <1>4 DEF IntakeInv, Typed, RowsTyped
<1>6. EraseLast(r) = {}
  BY <1>1 DEF EraseLast
<1>7. HooksAgree(r) /\ AccountsFor(r)
  BY <1>1, <1>6 DEF HooksAgree, AccountsFor
<1>8. Alone(r)
  BY <1>1, <1>7, CommittedTxn
<1>9. \A p \in Candidate : Here(p)' <=> Here(p)
  BY <1>3, <1>4 DEF Here
<1>10. UnderLocks(r)
  BY <1>1, <1>3, <1>4, <1>8, HeldInWriting DEF UnderLocks, StatusMoves, Here, Alone
<1>11. BornOfItems' /\ OwnersAreReal' /\ TombstonesAreBare'
  BY <1>1, <1>3, <1>4
  DEF IntakeInv, BornOfItems, OwnersAreReal, TombstonesAreBare, DocsOf, Here, Typed, Candidate
<1>12. OneCopyPerCv' /\ ClosedBatchIsDone'
  BY <1>1 DEF IntakeInv, OneCopyPerCv, ClosedBatchIsDone, Pending
<1>13. IntakeMakesNoTwins'
  BY <1>9 DEF IntakeInv, IntakeMakesNoTwins, Here, Candidate
<1> QED
  BY <1>1, <1>5, <1>7, <1>10, <1>11, <1>12, <1>13, CommitStep

\* The commit of a purge: a tombstone is left.
LEMMA CommitPurgeStep ==
  ASSUME IntakeInv, NEW r \in Actor, CommitPurge(r)
  PROVE  IntakeInv'
<1> DEFINE c == txn[r].arg
<1>1. /\ txn[r].op = "purge" /\ txn[r].stage = "writing" /\ txn[r].left = {}
      /\ status' = [status EXCEPT ![c] = "deleted"]
      /\ docs' = docs \ DocsOf(c) /\ profiled' = profiled \ DocsOf(c)
      /\ sourced' = {s \in sourced : s[1] # c} /\ Committed(r)
      /\ UNCHANGED <<batch, vacant, item, owner, files, bounds>>
  BY DEF CommitPurge, Committing, AtCommit
<1>2. c \in Candidate /\ status[c] = "requested" /\ \A d \in DocsOf(c) : Cv(d) \notin files
  BY <1>1 DEF IntakeInv, Standing, PurgeStanding
<1>3. /\ status' \in [Candidate -> {"absent", "active", "inactive", "requested", "deleted"}]
      /\ status'[c] = "deleted" /\ \A p \in Candidate : p # c => status'[p] = status[p]
  BY <1>1, <1>2 DEF IntakeInv, Typed
<1>4. RowsTyped'
  BY <1>1, <1>3 DEF IntakeInv, Typed, RowsTyped
<1>5. EraseLast(r) = {}
  BY <1>1 DEF EraseLast
<1>6. HooksAgree(r) /\ AccountsFor(r)
  BY <1>1, <1>2, <1>5 DEF HooksAgree, AccountsFor
<1>7. Alone(r)
  BY <1>1, <1>6, CommittedTxn
<1>8. UnderLocks(r)
  <2>1. \A p \in Candidate : status'[p] # status[p] => StatusMoves(r, p)
    BY <1>1, <1>2, <1>3, HeldInWriting DEF StatusMoves, Here
  <2>2. \A d \in docs \ docs' : Keeps(r, PersonRow(owner[d]))
    BY <1>1, HeldInWriting DEF DocsOf
  <2> QED
    BY <1>1, <1>7, <2>1, <2>2 DEF UnderLocks, Alone
<1>9. BornOfItems'
  BY <1>1, <1>2, <1>3 DEF IntakeInv, BornOfItems, Candidate
<1>10. OwnersAreReal'
  BY <1>1, <1>3 DEF IntakeInv, Typed, OwnersAreReal
<1>11. TombstonesAreBare'
  <2> SUFFICES ASSUME NEW p \in Candidate, status'[p] = "deleted"
               PROVE  DocsOf(p)' = {} /\ \A s \in sourced' : s[1] # p
    BY DEF TombstonesAreBare
  <2>1. CASE p = c
    BY <1>1, <2>1 DEF DocsOf
  <2>2. CASE p # c
    BY <1>1, <1>3, <2>2 DEF DocsOf, IntakeInv, TombstonesAreBare
  <2> QED
    BY <2>1, <2>2
<1>12. OneCopyPerCv' /\ ClosedBatchIsDone'
  BY <1>1 DEF IntakeInv, OneCopyPerCv, ClosedBatchIsDone, Pending
<1>13. IntakeMakesNoTwins'
  BY <1>3 DEF IntakeInv, IntakeMakesNoTwins, Candidate
<1> QED
  BY <1>1, <1>4, <1>6, <1>8, <1>9, <1>10, <1>11, <1>12, <1>13, CommitStep

-----------------------------------------------------------------------------
(* The invariant. *)

\* At the start nothing is on file but the candidates known before.
LEMMA IntakeInit == Init => IntakeInv
<1> SUFFICES ASSUME Init PROVE IntakeInv
  OBVIOUS
<1>1. txn \in [Actor -> Txn] /\ \A r \in Actor : txn[r] = Idle
  BY IdleTyped DEF Init
<1>2. Typed
  <2>1. docs = {} /\ profiled = {} /\ sourced = {} /\ files = {} /\ vacant \subseteq Batch
        /\ faults = 0 /\ losses = 0
    BY DEF Init
  <2>2. batch \in [Batch -> {"open", "completed", "discarded"}]
        /\ item \in [Item -> {"absent", "pending", "created", "skipped"}]
    BY DEF Init
  <2>3. status \in [Candidate -> {"absent", "active", "inactive", "requested", "deleted"}]
        /\ owner \in [Document -> Candidate \cup {Nobody}]
    BY DEF Init
  <2> QED
    BY <1>1, <2>1, <2>2, <2>3 DEF Typed
<1>3. Apart /\ OneUploader
  BY <1>1 DEF Apart, OneUploader, Idle
<1>4. \A r \in Actor : LocksHeld(txn[r]) /\ Standing(txn[r])
  BY <1>1 DEF LocksHeld, Standing, Idle
<1>5. BornOfItems
  BY IntakeAssumption DEF Init, BornOfItems, Document, Candidate
<1>6. OwnersAreReal /\ TombstonesAreBare /\ OneCopyPerCv /\ ClosedBatchIsDone
  BY DEF Init, OwnersAreReal, TombstonesAreBare, OneCopyPerCv, ClosedBatchIsDone, DocsOf
<1>7. IntakeMakesNoTwins
  BY <1>5 DEF Init, IntakeMakesNoTwins, BornOfItems
<1>8. StoredCvs /\ StagedCvs
  BY DEF Init, StoredCvs, StagedCvs
<1> QED
  BY <1>2, <1>3, <1>4, <1>5, <1>6, <1>7, <1>8 DEF IntakeInv

\* Requests may begin at any time.
LEMMA StartsKeep ==
  ASSUME IntakeInv, NEW r \in Actor, Start(r)
  PROVE  IntakeInv'
BY StartUploadStep, StartAcceptStep, StartSkipStep, StartDiscardStep, StartDirectStep,
   StartProfileStep, StartDeletionStep, StartRetainStep DEF Start

\* The steps before a commit.
LEMMA StepsKeep ==
  ASSUME IntakeInv, NEW r \in Actor, Step(r)
  PROVE  IntakeInv'
BY LockStep, VictimStep, UploadStep, AcceptStep, SkipStep, DiscardStep, DiscardLockedStep,
   StoreCvStep, SaveProfileStep, DecideStep, PurgeStep, RetainStep, LockedStep, EraseStep DEF Step

\* The commits.
LEMMA CommitsKeep ==
  ASSUME IntakeInv, NEW r \in Actor, Commit(r)
  PROVE  IntakeInv'
BY CommitUploadStep, CommitReuseStep, CommitAcceptStep, CommitSkipStep, CommitDiscardStep,
   CommitDirectStep, CommitProfileStep, CommitDecisionStep, CommitPurgeStep, CommitRetainStep,
   HooksDoneStep DEF Commit

\* Rollbacks, crashes and failing hooks.
LEMMA MishapsKeep ==
  ASSUME IntakeInv, NEW r \in Actor, Mishap(r)
  PROVE  IntakeInv'
BY RollbackStep, LossStep DEF Mishap

\* Stuttering changes nothing.
LEMMA StutterKeeps ==
  ASSUME IntakeInv, UNCHANGED vars
  PROVE  IntakeInv'
<1>1. /\ batch' = batch /\ vacant' = vacant /\ item' = item /\ status' = status /\ docs' = docs
      /\ owner' = owner /\ profiled' = profiled /\ sourced' = sourced
      /\ files' = files /\ txn' = txn /\ faults' = faults /\ losses' = losses
  BY DEF vars, rows, bounds
<1>2. Typed' /\ Apart' /\ OneUploader' /\ BornOfItems' /\ OwnersAreReal'
  BY <1>1 DEF IntakeInv, Typed, Apart, OneUploader, BornOfItems, OwnersAreReal
<1>3. TombstonesAreBare' /\ OneCopyPerCv'
  BY <1>1 DEF IntakeInv, TombstonesAreBare, OneCopyPerCv, DocsOf
<1>4. IntakeMakesNoTwins' /\ ClosedBatchIsDone'
  BY <1>1 DEF IntakeInv, IntakeMakesNoTwins, ClosedBatchIsDone, Pending
<1>5. StoredCvs' /\ StagedCvs'
  BY <1>1 DEF IntakeInv, StoredCvs, StagedCvs
<1>6. ASSUME NEW r \in Actor PROVE LocksHeld(txn[r])'
  <2>1. LocksHeld(txn[r]) /\ txn'[r] = txn[r]
    BY <1>1 DEF IntakeInv
  <2> QED
    BY <1>1, <2>1 DEF LocksHeld
<1>7. ASSUME NEW r \in Actor PROVE Standing(txn[r])'
  <2> DEFINE t == txn[r]
  <2>1. Standing(t) /\ txn'[r] = t
    BY <1>1 DEF IntakeInv
  <2>2. HookStanding(t) => HookStanding(t)'
    BY <1>1, <2>1 DEF HookStanding
  <2>3. UploadStanding(t) => UploadStanding(t)'
    BY <1>1, <2>1 DEF UploadStanding, Copies, NoPendingCopy, LastPending, Pending
  <2>4. AcceptStanding(t) => AcceptStanding(t)'
    BY <1>1, <2>1 DEF AcceptStanding, Copies, NoTwinOf, Here, Frozen, LastPending, Pending
  <2>5. SkipStanding(t) => SkipStanding(t)'
    BY <1>1, <2>1 DEF SkipStanding, LastPending, Pending
  <2>6. DiscardStanding(t) => DiscardStanding(t)'
    BY <1>1, <2>1 DEF DiscardStanding, Unsettled, Pending
  <2>7. DirectStanding(t) => DirectStanding(t)'
    BY <1>1, <2>1 DEF DirectStanding, Copies, Frozen
  <2>8. ProfileStanding(t) => ProfileStanding(t)'
    BY <1>1, <2>1 DEF ProfileStanding
  <2>9. DecisionStanding(t) => DecisionStanding(t)'
    BY <1>1, <2>1 DEF DecisionStanding, Here
  <2>10. PurgeStanding(t) => PurgeStanding(t)'
    BY <1>1, <2>1 DEF PurgeStanding, DocsOf
  <2>11. RetainStanding(t) => RetainStanding(t)'
    BY <1>1, <2>1 DEF RetainStanding, Unsettled
  <2> QED
    BY <2>1, <2>2, <2>3, <2>4, <2>5, <2>6, <2>7, <2>8, <2>9, <2>10, <2>11 DEF Standing
<1> QED
  BY <1>2, <1>3, <1>4, <1>5, <1>6, <1>7 DEF IntakeInv

(* IntakeInv holds in every reachable state. *)
THEOREM IntakeInvariant == Spec => []IntakeInv
<1>1. Init => IntakeInv
  BY IntakeInit
<1>2. IntakeInv /\ [Next]_vars => IntakeInv'
  <2> SUFFICES ASSUME IntakeInv, [Next]_vars PROVE IntakeInv'
    OBVIOUS
  <2>1. CASE UNCHANGED vars
    BY <2>1, StutterKeeps
  <2>2. CASE Next
    BY <2>2, StartsKeep, StepsKeep, CommitsKeep, MishapsKeep DEF Next
  <2> QED
    BY <2>1, <2>2
<1> QED
  BY <1>1, <1>2, PTL DEF Spec

-----------------------------------------------------------------------------
(* What the invariant gives. *)

\* IntakeInv includes the type invariant.
LEMMA InvTypeOK == IntakeInv => TypeOK
<1> SUFFICES ASSUME IntakeInv PROVE TypeOK
  OBVIOUS
<1>1. \A r \in Actor : txn[r].op \in Op \cup {"none"} /\ txn[r].closes \in BOOLEAN
  BY DEF IntakeInv, Typed, Txn
<1>2. \A r, q \in Actor : txn[r].held \cap txn[q].held # {} => r = q
  BY DEF IntakeInv, Apart
<1> QED
  BY <1>1, <1>2 DEF IntakeInv, Typed, OwnersAreReal, TypeOK, File

\* A file that nobody answers for would belong to no row and to no transaction.
LEMMA InvNoOrphans == IntakeInv => NoOrphanFiles
<1> SUFFICES ASSUME IntakeInv, losses = 0, NEW f \in files
             PROVE  f \in {Staged(i) : i \in {j \in Item : item[j] = "pending"}}
                          \cup {Cv(d) : d \in docs}
                          \cup UNION {Fresh(r) \cup txn[r].left : r \in Actor}
  BY DEF NoOrphanFiles
<1>1. CASE \E d \in Document : f = Cv(d)
  <2>1. PICK d \in Document : f = Cv(d)
    BY <1>1
  <2>2. d \in docs \/ \E r \in Actor : /\ txn[r].stage = "writing" /\ txn[r].arg = d
                                       /\ txn[r].op \in {"accept", "direct"}
    BY <2>1 DEF IntakeInv, StoredCvs
  <2>3. ASSUME NEW r \in Actor, txn[r].stage = "writing", txn[r].arg = d,
               txn[r].op \in {"accept", "direct"}
        PROVE  f \in Fresh(r)
    BY <2>1, <2>3 DEF Fresh
  <2> QED
    BY <2>1, <2>2, <2>3
<1>2. CASE \E i \in Item : f = Staged(i)
  <2>1. PICK i \in Item : f = Staged(i)
    BY <1>2
  <2>2. \/ item[i] = "pending"
        \/ \E r \in Actor : /\ txn[r].stage = "writing" /\ txn[r].arg = i
                            /\ txn[r].op = "upload" /\ txn[r].plan = {}
        \/ \E r \in Actor : txn[r].stage = "hooks" /\ f \in txn[r].left
    BY <2>1 DEF IntakeInv, StagedCvs
  <2>3. ASSUME NEW r \in Actor, txn[r].stage = "writing", txn[r].arg = i,
               txn[r].op = "upload", txn[r].plan = {}
        PROVE  f \in Fresh(r)
    BY <2>1, <2>3 DEF Fresh
  <2> QED
    BY <2>1, <2>2, <2>3
<1> QED
  BY <1>1, <1>2 DEF IntakeInv, Typed, File

\* A tombstone has no documents, and without a loss no bytes.
LEMMA InvPurged == IntakeInv => PurgedLeavesNothing
<1> SUFFICES ASSUME IntakeInv, NEW c \in Candidate, status[c] = "deleted"
             PROVE  /\ DocsOf(c) = {}
                    /\ \A s \in sourced : s[1] # c
                    /\ \A d \in Document : owner[d] = c /\ Cv(d) \in files => losses > 0
  BY DEF PurgedLeavesNothing
<1>1. DocsOf(c) = {} /\ \A s \in sourced : s[1] # c
  BY DEF IntakeInv, TombstonesAreBare
<1>2. ASSUME NEW d \in Document, owner[d] = c, Cv(d) \in files, losses = 0
      PROVE  FALSE
  <2>1. d \notin docs
    BY <1>1, <1>2 DEF DocsOf
  <2>2. PICK r \in Actor : /\ txn[r].stage = "writing" /\ txn[r].arg = d
                           /\ txn[r].op \in {"accept", "direct"}
    BY <1>2, <2>1 DEF IntakeInv, StoredCvs
  <2>3. owner[d] = Nobody
    BY <2>2 DEF IntakeInv, Standing, AcceptStanding, DirectStanding, BornOfItems
  <2> QED
    BY <1>2, <2>3, IntakeAssumption DEF Nobody
<1> QED
  BY <1>1, <1>2 DEF IntakeInv, Typed

(* Every row, file and transaction keeps its type, and no two transactions    *)
(* hold a lock on the same row.                                               *)
THEOREM IntakeTypes == Spec => []TypeOK
BY IntakeInvariant, InvTypeOK, PTL

(* However uploads, accepts and direct uploads interleave and fail, the same  *)
(* bytes are stored once and wait for review once.                            *)
THEOREM IntakeCopies == Spec => []OneCopyPerCv
<1>1. IntakeInv => OneCopyPerCv
  BY DEF IntakeInv
<1> QED
  BY <1>1, IntakeInvariant, PTL

(* No order of accepts, purges and cancellations leaves two candidates who    *)
(* share an identity key, unless both were on file before.                    *)
THEOREM IntakeTwins == Spec => []IntakeMakesNoTwins
<1>1. IntakeInv => IntakeMakesNoTwins
  BY DEF IntakeInv
<1> QED
  BY <1>1, IntakeInvariant, PTL

(* Nothing awaits review in a batch that was completed or discarded, whoever  *)
(* uploads, settles or cleans up beside it.                                   *)
THEOREM IntakeClosed == Spec => []ClosedBatchIsDone
<1>1. IntakeInv => ClosedBatchIsDone
  BY DEF IntakeInv
<1> QED
  BY <1>1, IntakeInvariant, PTL

(* While no process has died and no erasure has failed, storage holds no file *)
(* that nobody answers for: rollbacks clean up after themselves.              *)
THEOREM IntakeStorage == Spec => []NoOrphanFiles
BY IntakeInvariant, InvNoOrphans, PTL

(* A deleted candidate has no documents and no provenance, and no bytes       *)
(* unless something was lost.                                                 *)
THEOREM IntakePurge == Spec => []PurgedLeavesNothing
BY IntakeInvariant, InvPurged, PTL

-----------------------------------------------------------------------------
(* Who waits for whom. *)

\* The organization first, then the item or the document, its batch, and a
\* candidate last.
Rank(row) == IF row[1] = "organization" THEN 1
             ELSE IF row[1] \in {"item", "document"} THEN 2
             ELSE IF row[1] = "batch" THEN 3 ELSE 4

\* Retention locks items one after the other.
Before(t, a, b) == Rank(a) < Rank(b) \/ (t.op = "retain" /\ a[1] = "item" /\ b[1] = "item")

InOrder(t) ==
  t.op \notin {"discard", "purge"} =>
    /\ \A a \in t.held : \A k \in DOMAIN t.todo : Before(t, a, t.todo[k])
    /\ \A j, k \in DOMAIN t.todo : j < k => Before(t, t.todo[j], t.todo[k])
    /\ t.op = "retain" => \A a \in Wanted(t) : a = Organization \/ a[1] = "item"
    /\ t.op = "accept" /\ t.stage = "deciding" => \A a \in Wanted(t) : Rank(a) < 4

Ordered == \A r \in Actor : InOrder(txn[r])

\* The place of every kind of row in the lock order.
LEMMA Ranks ==
  /\ Rank(Organization) = 1
  /\ \A i : Rank(ItemRow(i)) = 2 /\ ItemRow(i)[1] = "item"
  /\ \A d : Rank(CvRow(d)) = 2
  /\ \A b : Rank(BatchRow(b)) = 3
  /\ \A c : Rank(PersonRow(c)) = 4
  /\ \A row : Rank(row) \in 1 .. 4
BY DEF Rank, Organization, ItemRow, CvRow, BatchRow, PersonRow

\* A step of one transaction disturbs the order of no other.
LEMMA OneMovesInOrder ==
  ASSUME Ordered, NEW r \in Actor, \A q \in Actor : q # r => txn'[q] = txn[q], InOrder(txn'[r])
  PROVE  Ordered'
BY DEF Ordered, InOrder

\* Whoever locks nothing more is in order.
LEMMA DoneInOrder ==
  ASSUME NEW t, t.todo = <<>>, t.stage # "deciding",
         t.op = "retain" => \A a \in t.held : a = Organization \/ a[1] = "item"
  PROVE  InOrder(t)
BY DEF InOrder, Wanted

\* A list of one row is in order.
LEMMA OneInOrder ==
  ASSUME NEW t \in Txn, t.held = {}, NEW a, t.todo = <<a>>,
         t.op \notin {"accept"}, t.op = "retain" => a = Organization
  PROVE  InOrder(t)
BY DEF InOrder, Wanted

\* A list of two rows is in order if the rows are.
LEMMA TwoInOrder ==
  ASSUME NEW t \in Txn, t.held = {}, NEW a, NEW b, t.todo = <<a, b>>, Rank(a) < Rank(b),
         t.op \notin {"accept", "retain"}
  PROVE  InOrder(t)
<1>1. DOMAIN t.todo = {1, 2} /\ t.todo[1] = a /\ t.todo[2] = b
  OBVIOUS
<1> QED
  BY <1>1 DEF InOrder, Before

\* A list of three rows is in order if the rows are.
LEMMA ThreeInOrder ==
  ASSUME NEW t \in Txn, t.held = {}, NEW a, NEW b, NEW c, t.todo = <<a, b, c>>,
         Rank(a) < Rank(b), Rank(b) < Rank(c), Rank(c) < 4, t.op # "retain"
  PROVE  InOrder(t)
<1>1. DOMAIN t.todo = {1, 2, 3} /\ t.todo[1] = a /\ t.todo[2] = b /\ t.todo[3] = c
  OBVIOUS
<1>2. Rank(a) \in 1 .. 4 /\ Rank(b) \in 1 .. 4 /\ Rank(c) \in 1 .. 4
  BY Ranks
<1> QED
  BY <1>1, <1>2 DEF InOrder, Before, Wanted

\* The services name their rows in order.
LEMMA StartInOrder ==
  ASSUME IntakeInv, IntakeInv', Ordered, NEW r \in Actor, Start(r)
  PROVE  Ordered'
<1> DEFINE t == txn'[r]
<1>1. txn \in [Actor -> Txn] /\ t \in Txn
  BY DEF IntakeInv, Typed
<1>2. ASSUME NEW op, NEW arg, NEW locks, Begin(r, op, arg, "deciding", locks)
      PROVE  /\ \A q \in Actor : q # r => txn'[q] = txn[q]
             /\ t.op = op /\ t.todo = locks /\ t.held = {}
  BY <1>1, <1>2 DEF Begin, Idle
<1>3. ASSUME NEW i \in Item, StartUpload(r, i) PROVE Ordered'
  <2>1. /\ \A q \in Actor : q # r => txn'[q] = txn[q]
        /\ t.op = "upload" /\ t.todo = <<Organization, BatchRow(BatchOf[i])>> /\ t.held = {}
    BY <1>2, <1>3 DEF StartUpload, UploadLocks
  <2>2. InOrder(t)
    BY <1>1, <2>1, Ranks, TwoInOrder
  <2> QED
    BY <2>1, <2>2, OneMovesInOrder
<1>4. ASSUME NEW i \in Item, StartAccept(r, i) PROVE Ordered'
  <2>1. /\ \A q \in Actor : q # r => txn'[q] = txn[q]
        /\ t.op = "accept" /\ t.held = {}
        /\ t.todo = <<Organization, ItemRow(i), BatchRow(BatchOf[i])>>
    BY <1>2, <1>4 DEF StartAccept, AcceptLocks
  <2>2. InOrder(t)
    BY <1>1, <2>1, Ranks, ThreeInOrder
  <2> QED
    BY <2>1, <2>2, OneMovesInOrder
<1>5. ASSUME NEW i \in Item, StartSkip(r, i) PROVE Ordered'
  <2>1. /\ \A q \in Actor : q # r => txn'[q] = txn[q]
        /\ t.op = "skip" /\ t.todo = <<ItemRow(i), BatchRow(BatchOf[i])>> /\ t.held = {}
    BY <1>2, <1>5 DEF StartSkip, SkipLocks
  <2>2. InOrder(t)
    BY <1>1, <2>1, Ranks, TwoInOrder
  <2> QED
    BY <2>1, <2>2, OneMovesInOrder
<1>6. ASSUME NEW b \in Batch, StartDiscard(r, b) PROVE Ordered'
  <2>1. (\A q \in Actor : q # r => txn'[q] = txn[q]) /\ t.op = "discard"
    BY <1>2, <1>6 DEF StartDiscard
  <2> QED
    BY <2>1, OneMovesInOrder DEF InOrder
<1>7. ASSUME NEW d \in Direct, NEW c \in Candidate, StartDirect(r, d, c) PROVE Ordered'
  <2>1. /\ \A q \in Actor : q # r => txn'[q] = txn[q]
        /\ t.op = "direct" /\ t.todo = <<Organization, PersonRow(c)>> /\ t.held = {}
    BY <1>1, <1>7 DEF StartDirect, DirectLocks, Idle
  <2>2. InOrder(t)
    BY <1>1, <2>1, Ranks, TwoInOrder
  <2> QED
    BY <2>1, <2>2, OneMovesInOrder
<1>8. ASSUME NEW d \in Document, StartProfile(r, d) PROVE Ordered'
  <2>1. /\ \A q \in Actor : q # r => txn'[q] = txn[q]
        /\ t.op = "profile" /\ t.todo = <<CvRow(d), PersonRow(owner[d])>> /\ t.held = {}
    BY <1>2, <1>8 DEF StartProfile, ProfileLocks
  <2>2. InOrder(t)
    BY <1>1, <2>1, Ranks, TwoInOrder
  <2> QED
    BY <2>1, <2>2, OneMovesInOrder
<1>9. ASSUME NEW op \in {"request", "cancel", "purge"}, NEW c \in Candidate,
             StartDeletion(r, op, c)
      PROVE  Ordered'
  <2>1. /\ \A q \in Actor : q # r => txn'[q] = txn[q]
        /\ t.op = op /\ t.todo = <<PersonRow(c)>> /\ t.held = {}
    BY <1>2, <1>9 DEF StartDeletion
  <2>2. InOrder(t)
    BY <1>1, <2>1, OneInOrder
  <2> QED
    BY <2>1, <2>2, OneMovesInOrder
<1>10. ASSUME StartRetain(r) PROVE Ordered'
  <2>1. /\ \A q \in Actor : q # r => txn'[q] = txn[q]
        /\ t.op = "retain" /\ t.todo = <<Organization>> /\ t.held = {}
    BY <1>2, <1>10 DEF StartRetain
  <2>2. InOrder(t)
    BY <1>1, <2>1, OneInOrder
  <2> QED
    BY <2>1, <2>2, OneMovesInOrder
<1> QED
  BY <1>3, <1>4, <1>5, <1>6, <1>7, <1>8, <1>9, <1>10 DEF Start

\* The next row to lock is above all that are held.
LEMMA LockInOrder ==
  ASSUME IntakeInv, Ordered, NEW r \in Actor, Lock(r)
  PROVE  Ordered'
<1> DEFINE t == txn[r]
<1>1. txn \in [Actor -> Txn] /\ t \in Txn /\ t.todo # <<>> /\ InOrder(t)
  BY DEF IntakeInv, Typed, Lock, Ordered
<1>2. PICK s \in Seq(Row) : s = t.todo
  BY <1>1 DEF Txn
<1>3. txn' = [txn EXCEPT ![r].held = @ \cup {Head(s)}, ![r].todo = Tail(s)]
  BY <1>2 DEF Lock
<1>4. /\ txn'[r].held = t.held \cup {Head(s)} /\ txn'[r].todo = Tail(s)
      /\ txn'[r].op = t.op /\ txn'[r].stage = t.stage
      /\ \A q \in Actor : q # r => txn'[q] = txn[q]
  BY <1>1, <1>3 DEF Txn
<1>5. /\ Head(s) = s[1] /\ 1 \in DOMAIN s
      /\ \A k \in DOMAIN Tail(s) : k + 1 \in DOMAIN s /\ 1 < k + 1 /\ Tail(s)[k] = s[k + 1]
      /\ \A j, k \in DOMAIN Tail(s) : j < k => j + 1 < k + 1
  <2>1. s # <<>> /\ Len(s) \in Nat \ {0} /\ Len(Tail(s)) = Len(s) - 1
        /\ Head(s) = s[1] /\ \A j \in 1 .. Len(s) - 1 : Tail(s)[j] = s[j + 1]
    BY <1>1, <1>2
  <2>2. DOMAIN s = 1 .. Len(s) /\ DOMAIN Tail(s) = 1 .. Len(s) - 1
    BY <2>1
  <2> QED
    BY <2>1, <2>2
<1>6. Wanted(txn'[r]) \subseteq Wanted(t)
  BY <1>2, <1>4, <1>5 DEF Wanted
<1>7. ASSUME t.op \notin {"discard", "purge"}
      PROVE  InOrder(txn'[r])
  <2>1. \A a \in txn'[r].held : \A k \in DOMAIN Tail(s) : Before(t, a, Tail(s)[k])
    BY <1>1, <1>2, <1>4, <1>5, <1>7 DEF InOrder
  <2>2. \A j, k \in DOMAIN Tail(s) : j < k => Before(t, Tail(s)[j], Tail(s)[k])
    BY <1>1, <1>2, <1>5, <1>7 DEF InOrder
  <2>3. \A a, b : Before(t, a, b) => Before(txn'[r], a, b)
    BY <1>4 DEF Before
  <2> QED
    BY <1>1, <1>4, <1>6, <1>7, <2>1, <2>2, <2>3 DEF InOrder
<1>8. InOrder(txn'[r])
  BY <1>4, <1>7 DEF InOrder
<1> QED
  BY <1>4, <1>8, OneMovesInOrder

\* A transaction that locks nothing more is in order.
LEMMA EndsInOrder ==
  ASSUME IntakeInv', Ordered, NEW r \in Actor, \A q \in Actor : q # r => txn'[q] = txn[q],
         txn'[r].stage \in {"idle", "writing", "hooks"},
         txn'[r].op = "retain" /\ txn'[r].stage = "writing" =>
           txn[r].op = "retain" /\ txn'[r].held = txn[r].held
  PROVE  Ordered'
<1>1. /\ txn'[r].todo = <<>>
      /\ txn'[r].stage # "writing" => txn'[r].held = {}
  BY DEF IntakeInv, LocksHeld
<1>2. ASSUME txn'[r].op = "retain", NEW a \in txn'[r].held
      PROVE  a = Organization \/ a[1] = "item"
  BY <1>1, <1>2 DEF Ordered, InOrder, Wanted
<1>3. InOrder(txn'[r])
  BY <1>1, <1>2, DoneInOrder
<1> QED
  BY <1>3, OneMovesInOrder

\* A transaction that ends is in order.
LEMMA EndInOrder ==
  ASSUME IntakeInv, IntakeInv', Ordered, NEW r \in Actor, End(r)
  PROVE  Ordered'
<1>1. txn'[r].stage = "idle" /\ \A q \in Actor : q # r => txn'[q] = txn[q]
  BY EndStands DEF Alone, Idle
<1> QED
  BY <1>1, EndsInOrder

\* A step from one stage to the next keeps the order.
LEMMA StageInOrder ==
  ASSUME IntakeInv, IntakeInv', Ordered, NEW r \in Actor,
         txn[r].op \in {"discard", "purge"} \/ txn[r].stage = "writing" \/ txn'[r].stage = "writing",
         \A q \in Actor : q # r => txn'[q] = txn[q], txn'[r].op = txn[r].op,
         txn'[r].stage = txn[r].stage \/ txn'[r].stage = "writing" \/ txn'[r].op \in {"discard", "purge"},
         txn'[r].held = txn[r].held \/ txn'[r].op \in {"discard", "purge"}
  PROVE  Ordered'
<1>1. CASE txn[r].op \in {"discard", "purge"}
  BY <1>1, OneMovesInOrder DEF InOrder
<1>2. CASE txn[r].op \notin {"discard", "purge"}
  BY <1>2, EndsInOrder
<1> QED
  BY <1>1, <1>2

\* An accept locks the candidate it reuses last.
LEMMA AcceptInOrder ==
  ASSUME IntakeInv, IntakeInv', Ordered, NEW r \in Actor, Accept(r)
  PROVE  Ordered'
<1> DEFINE t == txn[r]
<1>1. /\ txn \in [Actor -> Txn] /\ t \in Txn /\ InOrder(t)
      /\ t.op = "accept" /\ t.stage = "deciding" /\ t.todo = <<>>
  BY DEF IntakeInv, Typed, Ordered, Accept, Ready
<1>2. CASE Refuse(r)
  BY <1>2, EndInOrder DEF Refuse
<1>3. ASSUME txn' = [txn EXCEPT ![r].stage = "storing", ![r].owner = t.arg]
      PROVE  Ordered'
  <2>1. /\ txn'[r].op = "accept" /\ txn'[r].stage = "storing" /\ txn'[r].todo = <<>>
        /\ \A q \in Actor : q # r => txn'[q] = txn[q]
    BY <1>1, <1>3 DEF Txn
  <2> QED
    BY <2>1, DoneInOrder, OneMovesInOrder
<1>4. ASSUME NEW c, txn' = [txn EXCEPT ![r].stage = "storing", ![r].owner = c,
                                       ![r].todo = <<PersonRow(c)>>]
      PROVE  Ordered'
  <2>1. /\ txn'[r].op = "accept" /\ txn'[r].stage = "storing" /\ txn'[r].todo = <<PersonRow(c)>>
        /\ txn'[r].held = t.held
        /\ \A q \in Actor : q # r => txn'[q] = txn[q]
    BY <1>1, <1>4 DEF Txn
  <2>2. \A a \in t.held : Rank(a) < 4
    BY <1>1 DEF InOrder, Wanted
  <2>3. InOrder(txn'[r])
    BY <2>1, <2>2, Ranks DEF InOrder, Before
  <2> QED
    BY <2>1, <2>3, OneMovesInOrder
<1> QED
  BY <1>2, <1>3, <1>4 DEF Accept

\* A retention run locks the organization and then items.
LEMMA RetainInOrder ==
  ASSUME IntakeInv, IntakeInv', Ordered, NEW r \in Actor, Retain(r)
  PROVE  Ordered'
<1> DEFINE t == txn[r]
<1>1. /\ txn \in [Actor -> Txn] /\ t \in Txn /\ InOrder(t) /\ t.op = "retain"
  BY DEF IntakeInv, Typed, Ordered, Retain, Ready
<1>2. PICK aged \in SUBSET {i \in Item : item[i] = "pending"} :
        \E order \in InIdOrder(aged) :
          txn' = [txn EXCEPT ![r].stage = "storing", ![r].plan = aged,
                             ![r].todo = [k \in DOMAIN order |-> ItemRow(order[k])]]
  BY DEF Retain
<1> PICK order \in InIdOrder(aged) :
      txn' = [txn EXCEPT ![r].stage = "storing", ![r].plan = aged,
                         ![r].todo = [k \in DOMAIN order |-> ItemRow(order[k])]]
  BY <1>2
<1>3. /\ txn'[r].op = "retain" /\ txn'[r].stage = "storing" /\ txn'[r].held = t.held
      /\ \A q \in Actor : q # r => txn'[q] = txn[q]
  BY <1>1, <1>2 DEF Txn
<1>4. \A a \in t.held : a = Organization \/ a[1] = "item"
  BY <1>1 DEF InOrder, Wanted
<1>5. \A k \in DOMAIN txn'[r].todo : Rank(txn'[r].todo[k]) = 2 /\ txn'[r].todo[k][1] = "item"
  <2>1. txn'[r].todo = [k \in DOMAIN order |-> ItemRow(order[k])]
    BY <1>1 DEF Txn
  <2> QED
    BY <2>1, Ranks
<1>6. InOrder(txn'[r])
  <2>1. \A a \in t.held : Rank(a) < 2 \/ a[1] = "item"
    BY <1>4, Ranks
  <2>2. \A a \in Wanted(txn'[r]) : a = Organization \/ a[1] = "item"
    BY <1>3, <1>4, <1>5 DEF Wanted
  <2> QED
    BY <1>3, <1>5, <2>1, <2>2 DEF InOrder, Before
<1> QED
  BY <1>3, <1>6, OneMovesInOrder

\* The steps before a commit keep the order.
LEMMA StepInOrder ==
  ASSUME IntakeInv, IntakeInv', Ordered, NEW r \in Actor, Step(r)
  PROVE  Ordered'
<1>1. txn \in [Actor -> Txn] /\ txn[r] \in Txn
  BY DEF IntakeInv, Typed
<1>2. CASE End(r)
  BY <1>2, EndInOrder
<1>3. ASSUME Upload(r) PROVE Ordered'
  <2>1. CASE txn' = [txn EXCEPT ![r].stage = "writing"]
    BY <1>1, <1>3, <2>1, StageInOrder DEF Txn
  <2>2. ASSUME NEW d, txn' = [txn EXCEPT ![r].stage = "writing", ![r].plan = {d},
                                         ![r].owner = owner[d],
                                         ![r].closes = LastPending(txn[r].arg)]
        PROVE  Ordered'
    BY <1>1, <1>3, <2>2, StageInOrder DEF Txn
  <2> QED
    BY <1>2, <1>3, <2>1, <2>2 DEF Upload, Refuse
<1>4. ASSUME Skip(r) \/ Store(r) PROVE Ordered'
  <2>1. ASSUME NEW closes, txn' = [txn EXCEPT ![r].stage = "writing", ![r].closes = closes]
        PROVE  Ordered'
    BY <1>1, <2>1, StageInOrder DEF Txn
  <2> QED
    BY <1>2, <1>4, <2>1 DEF Skip, Store, Refuse
<1>5. ASSUME SaveProfile(r) \/ Decide(r) PROVE Ordered'
  <2>1. CASE txn' = [txn EXCEPT ![r].stage = "writing"]
    BY <1>1, <2>1, StageInOrder DEF Txn
  <2> QED
    BY <1>2, <1>5, <2>1 DEF SaveProfile, Decide, Refuse
<1>6. ASSUME Discard(r) \/ Purge(r) PROVE Ordered'
  <2>1. txn[r].op \in {"discard", "purge"}
    BY <1>6 DEF Discard, Purge, Ready
  <2>2. ASSUME NEW plan, NEW todo, txn' = [txn EXCEPT ![r].stage = "storing", ![r].plan = plan,
                                                      ![r].todo = todo]
        PROVE  Ordered'
    BY <1>1, <2>1, <2>2, StageInOrder DEF Txn
  <2> QED
    BY <1>2, <1>6, <2>2 DEF Discard, Purge, Refuse
<1>7. ASSUME DiscardLocked(r) PROVE Ordered'
  BY <1>1, <1>7, StageInOrder DEF DiscardLocked, Txn
<1>8. ASSUME Locked(r) PROVE Ordered'
  BY <1>1, <1>8, StageInOrder DEF Locked, Txn
<1>9. ASSUME Erase(r) PROVE Ordered'
  <2>1. PICK f : txn' = [txn EXCEPT ![r].left = @ \ {f}]
    BY <1>9 DEF Erase
  <2>2. /\ txn'[r].op = txn[r].op /\ txn'[r].held = txn[r].held /\ txn'[r].stage = txn[r].stage
        /\ \A q \in Actor : q # r => txn'[q] = txn[q]
    BY <1>1, <2>1 DEF Txn
  <2>3. txn[r].stage \in {"writing", "hooks"}
    BY <1>9 DEF Erase
  <2> QED
    BY <2>2, <2>3, EndsInOrder
<1>10. ASSUME Victim(r) PROVE Ordered'
  BY <1>2, <1>10 DEF Victim, Refuse
<1> QED
  BY <1>3, <1>4, <1>5, <1>6, <1>7, <1>8, <1>9, <1>10, LockInOrder, AcceptInOrder, RetainInOrder
     DEF Step

\* Commits release all locks.
LEMMA CommitInOrder ==
  ASSUME IntakeInv, IntakeInv', Ordered, NEW r \in Actor, Commit(r)
  PROVE  Ordered'
<1>1. txn \in [Actor -> Txn] /\ txn[r] \in Txn
  BY DEF IntakeInv, Typed
<1>2. CASE End(r)
  BY <1>2, EndInOrder
<1>3. CASE Committed(r)
  <2>1. PICK left : left = EraseLast(r)
    OBVIOUS
  <2>2. txn' = [txn EXCEPT ![r] = IF left = {} THEN Idle
                                  ELSE [@ EXCEPT !.stage = "hooks", !.held = {}, !.left = left]]
    BY <1>3, <2>1 DEF Committed
  <2>3. txn'[r].stage \in {"idle", "hooks"} /\ \A q \in Actor : q # r => txn'[q] = txn[q]
    BY <1>1, <2>2 DEF Idle, Txn
  <2> QED
    BY <2>3, EndsInOrder
<1> QED
  BY <1>2, <1>3 DEF Commit, CommitUpload, CommitReuse, CommitAccept, CommitSkip, CommitDiscard,
     CommitDirect, CommitProfile, CommitDecision, CommitPurge, CommitRetain, HooksDone, Refuse

\* The lock order is kept by every step.
LEMMA OrderedKeeps ==
  ASSUME IntakeInv, IntakeInv', Ordered, [Next]_vars
  PROVE  Ordered'
<1>1. CASE UNCHANGED vars
  BY <1>1 DEF vars, Ordered
<1>2. ASSUME NEW r \in Actor, Mishap(r) PROVE Ordered'
  BY <1>2, EndInOrder DEF Mishap, Rollback, Crash, HookFails
<1> QED
  BY <1>1, <1>2, StartInOrder, StepInOrder, CommitInOrder DEF Next

\* A row that somebody holds ranks below the row he waits for, or both are
\* items of one retention run.
LEMMA WaitsUpwards ==
  ASSUME IntakeInv, Ordered, NEW q \in Actor, txn[q].op \notin {"discard", "purge"},
         txn[q].todo # <<>>, NEW a \in txn[q].held
  PROVE  \/ Rank(a) < Rank(Head(txn[q].todo))
         \/ /\ txn[q].op = "retain" /\ Organization \in txn[q].held
            /\ a[1] = "item" /\ Head(txn[q].todo)[1] = "item"
<1> DEFINE t == txn[q]
<1>1. t \in Txn /\ InOrder(t) /\ LocksHeld(t)
  BY DEF IntakeInv, Typed, Ordered
<1>2. PICK s \in Seq(Row) : s = t.todo
  BY <1>1 DEF Txn
<1>3. Head(t.todo) = t.todo[1] /\ 1 \in DOMAIN t.todo
  BY <1>2
<1>4. Before(t, a, t.todo[1])
  BY <1>1, <1>3 DEF InOrder
<1>5. ASSUME t.op = "retain", a[1] = "item"
      PROVE  Organization \in t.held
  <2>1. Organization \in Wanted(t)
    <3>1. t.stage \in {"deciding", "storing"}
      BY <1>1, <1>2 DEF LocksHeld, Txn
    <3> QED
      BY <1>1, <1>5, <3>1 DEF LocksHeld, Takes, Wanted
  <2>2. \A k \in DOMAIN t.todo : t.todo[k] # Organization
    <3>1. ASSUME NEW k \in DOMAIN t.todo, t.todo[k] = Organization PROVE FALSE
      <4>1. Before(t, a, Organization)
        BY <1>1, <1>5, <3>1 DEF InOrder
      <4> QED
        BY <4>1, Ranks DEF Before, Organization
    <3> QED
      BY <3>1
  <2> QED
    BY <2>1, <2>2 DEF Wanted
<1> QED
  BY <1>3, <1>4, <1>5 DEF Before

\* r waits for a row it is about to lock, and q locked it.
WaitsToLock(r, q) ==
  r # q /\ txn[r].todo # <<>> /\ Head(txn[r].todo) \in txn[q].held

\* Who is in order waits at no commit, and in a set of them that wait for one
\* another nobody is at his commit.
LEMMA WaitsAreForLocks ==
  ASSUME IntakeInv, NEW S \in SUBSET Actor, Deadlocked(S), \A r \in S : ~OutOfOrder(r),
         NEW r \in S, NEW q \in S, WaitsFor(r, q)
  PROVE  WaitsToLock(r, q)
<1>1. ~(AtCommit(r) /\ ShareRows(r) \cap txn[q].held # {})
  BY DEF OutOfOrder, HeldUp, WaitsFor
<1>2. ASSUME AtCommit(q) PROVE FALSE
  <2>1. PICK p \in S : WaitsFor(q, p)
    BY DEF Deadlocked
  <2>2. txn[q].todo = <<>>
    BY <1>2 DEF IntakeInv, LocksHeld, AtCommit
  <2>3. ShareRows(q) \cap txn[p].held # {} /\ p \in Actor \ {q}
    BY <2>1, <2>2 DEF WaitsFor
  <2> QED
    BY <1>2, <2>3 DEF OutOfOrder, HeldUp
<1> QED
  BY <1>1, <1>2 DEF WaitsFor, WaitsToLock

\* In a set of waiting transactions, the one that waits for the highest row
\* would wait for a holder that waits for a higher one.
LEMMA NobodyWaitsHighest ==
  ASSUME IntakeInv, Ordered, NEW S \in SUBSET Actor, Deadlocked(S),
         \A r \in S : ~OutOfOrder(r),
         NEW r \in S,
         \A q \in S : Rank(Head(txn[q].todo)) <= Rank(Head(txn[r].todo))
  PROVE  FALSE
<1> DEFINE Waited(p) == Head(txn[p].todo)
<1> \A q \in S : txn[q].op \notin {"discard", "purge"}
  BY DEF OutOfOrder
<1>1. PICK q \in S : WaitsToLock(r, q)
  BY WaitsAreForLocks DEF Deadlocked
<1>2. PICK p \in S : WaitsToLock(q, p)
  BY WaitsAreForLocks DEF Deadlocked
<1>3. PICK o \in S : WaitsToLock(p, o)
  BY WaitsAreForLocks DEF Deadlocked
<1>4. Rank(Waited(q)) \in 1 .. 4 /\ Rank(Waited(r)) \in 1 .. 4 /\ Rank(Waited(p)) \in 1 .. 4
  BY Ranks
<1>5. /\ txn[q].op = "retain" /\ Organization \in txn[q].held
      /\ Waited(r)[1] = "item" /\ Waited(q)[1] = "item"
  BY <1>1, <1>2, <1>4, WaitsUpwards DEF WaitsToLock
<1>6. Rank(Waited(r)) = Rank(Waited(q))
  BY <1>5 DEF Rank
<1>7. Organization \in txn[p].held
  BY <1>2, <1>3, <1>4, <1>6, WaitsUpwards DEF WaitsToLock
<1> QED
  BY <1>2, <1>5, <1>7 DEF WaitsToLock, IntakeInv, Apart

\* So whoever keeps the order is in no deadlock.
LEMMA OrderedIsSafe == IntakeInv /\ Ordered => DeadlockNeedsOutOfOrder
<1> SUFFICES ASSUME IntakeInv, Ordered, NEW S \in SUBSET Actor, Deadlocked(S),
                    \A r \in S : ~OutOfOrder(r)
             PROVE  FALSE
  BY DEF DeadlockNeedsOutOfOrder
<1> DEFINE Height(r) == Rank(Head(txn[r].todo))
<1>1. \A r \in S : Height(r) \in 1 .. 4
  BY Ranks
<1>2. S # {}
  BY DEF Deadlocked
<1>3. \E r \in S : \A q \in S : Height(q) <= Height(r)
  <2>1. CASE \E r \in S : Height(r) = 4
    BY <1>1, <2>1
  <2>2. CASE (\A r \in S : Height(r) # 4) /\ \E r \in S : Height(r) = 3
    BY <1>1, <2>2
  <2>3. CASE (\A r \in S : Height(r) \notin {3, 4}) /\ \E r \in S : Height(r) = 2
    BY <1>1, <2>3
  <2>4. CASE \A r \in S : Height(r) = 1
    BY <1>2, <2>4
  <2> QED
    BY <1>1, <2>1, <2>2, <2>3, <2>4
<1> QED
  BY <1>3, NobodyWaitsHighest

(* Uploads, reviews, profile saves, deletion requests and retention runs all  *)
(* lock the organization, then the item or the document, then the batch, then *)
(* the candidate: no set of them can wait for one another, however large,     *)
(* before one of them is at a commit that shares a row another has locked.    *)
THEOREM IntakeDeadlocks == Spec => []DeadlockNeedsOutOfOrder
<1>1. Init => Ordered
  BY DEF Init, Ordered, InOrder, Idle
<1>2. IntakeInv /\ IntakeInv' /\ Ordered /\ [Next]_vars => Ordered'
  BY OrderedKeeps
<1>3. IntakeInv /\ Ordered => DeadlockNeedsOutOfOrder
  BY OrderedIsSafe
<1> QED
  BY <1>1, <1>2, <1>3, IntakeInvariant, PTL DEF Spec
=============================================================================
