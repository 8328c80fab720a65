------------------------ MODULE ReviewPipeline_proofs ------------------------
(***************************************************************************)
(* Theorems about ReviewPipeline, for every set of actors, runs and facts, *)
(* every choice of what suits and clashes, and every bound.                *)
(*                                                                         *)
(* ReviewInv strengthens the properties with what a request knows between  *)
(* its check and its write (Standing).  It knows it because it holds the   *)
(* rows it checked (LocksHeld), no two transactions hold the same row      *)
(* (Apart), and a step leaves alone whatever another transaction has       *)
(* locked (Spares).  What nobody locks, a shortlist reads: Sound says what *)
(* its result is worth nevertheless.                                       *)
(***************************************************************************)
EXTENDS ReviewPipeline, FiniteSetTheorems, SequenceTheorems, WellFoundedInduction, TLAPS

-----------------------------------------------------------------------------
(* Types. *)

Row == {"organization", "entry", "candidate", "requirements", "vacancy", "profile", "sources"}
       \X Nat
Ops == {"none", "shortlist", "assess", "decide", "generate", "edit", "approve", "use",
        "confirm", "correct", "source", "update", "request", "cancel", "delete vacancy",
        "purge", "retain run", "retain chain"}
Stages == {"idle", "candidates", "skills", "profiles", "ranking", "asking", "deciding",
           "collecting", "writing"}
Txn(seen) == [op : Ops, run : {0} \cup Run, arg : Nat, stage : Stages,
              todo : Seq(Row), held : SUBSET Row, seen : {seen}]

TypedInputs ==
  /\ requirement \in 1..MaxRequirement /\ vacancyDeleted \in BOOLEAN
  /\ status \in {"active", "requested", "deleted"} /\ facts \in Fact
  /\ versions \in 0..MaxProfile /\ confirmed \subseteq 1..versions
  /\ permitted \in BOOLEAN /\ changes \in 0..MaxChange

TypedHistory ==
  /\ run \in [Run -> MatchRun]
  /\ assessments \in [Run -> Seq(1..MaxProfile)] /\ decisions \in [Run -> Seq(Nat \ {0})]
  /\ drafts \in [Run -> SUBSET Draft] /\ approved \in [Run -> SUBSET Nat]
  /\ used \in [Run -> Seq(Nat)]

TypedTxn == /\ txn = [a \in Actor |-> txn[a]]
            /\ \A a \in Actor : txn[a] \in Txn(txn[a].seen)

-----------------------------------------------------------------------------
(* Locks. *)

\* No row is held by two transactions.
Apart == \A a, b \in Actor : a # b => txn[a].held \cap txn[b].held = {}

\* Rows that t holds or is still going to lock.
Wanted(t) == t.held \cup {t.todo[k] : k \in DOMAIN t.todo}

LocksHeld(t) ==
  /\ t.op \in {"none", "shortlist"} \/ t.stage = "asking" => t.held = {} /\ t.todo = <<>>
  /\ t.op = "assess" /\ t.stage \in {"deciding", "writing"} =>
       {EntryRow(t.run), CandidateRow, VacancyRow} \subseteq Wanted(t)
  /\ t.op \in {"decide", "generate"} /\ t.stage = "writing" => EntryRow(t.run) \in t.held
  /\ t.op \in DraftOp => {EntryRow(t.run), CandidateRow, SourceRows} \subseteq Wanted(t)
  /\ t.op \in {"assess"} \cup DraftOp /\ t.stage = "writing" => t.todo = <<>>
  /\ t.op \in {"confirm", "correct"} => CandidateRow \in Wanted(t)
  /\ t.op = "source" => SourceRows \in Wanted(t)
  /\ t.op \in {"update", "request", "cancel"} => CandidateRow \in t.held
  /\ t.op = "delete vacancy" => VacancyRow \in t.held
  /\ t.op \in {"retain run", "retain chain"} /\ t.stage = "collecting" =>
       t.held = {Organization} /\ t.todo = <<>>
  /\ t.op = "purge" => /\ {CandidateRow, SourceRows} \subseteq Wanted(t)
                       /\ CandidateRow \in t.held
                       /\ t.stage = "writing" =>
                            \A r \in DOMAIN t.seen : EntryRow(r) \in Wanted(t)

-----------------------------------------------------------------------------
(* Lock order: organization, entry, candidate, requirements, vacancy, profile, *)
(* sources.                                                                    *)

Place(row) == IF row[1] = "organization" THEN 1
              ELSE IF row[1] = "entry" THEN 2
              ELSE IF row[1] = "candidate" THEN 3
              ELSE IF row[1] = "requirements" THEN 4
              ELSE IF row[1] = "vacancy" THEN 5
              ELSE IF row[1] = "profile" THEN 6 ELSE 7

Correcting == {"confirm", "correct", "source", "purge"}

InOrder(t) == t.op \notin Correcting =>
  /\ \A row \in t.held, k \in DOMAIN t.todo : Place(row) < Place(t.todo[k])
  /\ \A j, k \in DOMAIN t.todo : j < k => Place(t.todo[j]) < Place(t.todo[k])
-----------------------------------------------------------------------------
(* What a transaction knows. *)

\* What a shortlist saved or is about to save: the verdict of the rules on what
\* it read, ranked by a profile that is no older than the one it read.
Sound(s) ==
  /\ s.input = NoInput => ~s.entry /\ s.ranked = 0
  /\ s.input # NoInput /\ status # "deleted" =>
       /\ s.entry <=> Eligible(s.requirement, s.input.profile, s.input.facts)
       /\ s.entry => s.input.profile <= s.ranked /\ s.ranked <= CurrentProfile
       /\ ~s.entry => s.ranked = 0

ShortlistStands(t) ==
  /\ t.stage \in {"candidates", "skills", "profiles", "ranking", "writing"}
  /\ t.seen \in [exists : {TRUE}, requirement : 1..MaxRequirement, input : Input,
                 ranked : 0..MaxProfile, entry : BOOLEAN]
  /\ t.stage # "writing" => ~t.seen.entry /\ t.seen.ranked = 0
  /\ t.stage = "candidates" <=> t.stage # "writing" /\ t.seen.input = NoInput
  /\ t.stage = "ranking" /\ status # "deleted" => t.seen.input.profile <= CurrentProfile
  /\ t.stage = "writing" => Sound(t.seen)

AssessStands(r, p) ==
  /\ HasEntry(r) /\ status = "active" /\ CurrentProfile = p
  /\ ~vacancyDeleted /\ run[r].input = CurrentInput

DecideStands(r, v) == HasEntry(r) /\ v # 0 /\ v = Len(assessments[r])

GenerateStands(r, d) == HasEntry(r) /\ d # 0 /\ d = Len(decisions[r])

\* Retention may delete the draft, but then it is missed at the write.
DraftOpStands(op, r, v) == v \in DraftNumbers(r) =>
  /\ HasEntry(r) /\ v = LatestDraft(r)
  /\ DraftRow(r, v).decision = Len(decisions[r])
  /\ Backing(r, v) = Len(assessments[r])
  /\ assessments[r][Backing(r, v)] = CurrentProfile
  /\ status = "active" /\ run[r].input = CurrentInput
  /\ op # "edit" => permitted

Standing(t) ==
  /\ t.op = "none" => t = Idle
  /\ t.op \in {"assess", "decide", "generate", "retain run", "retain chain"} \cup DraftOp
       => t.run \in Run
  /\ t.op = "shortlist" => ShortlistStands(t)
  /\ t.op = "assess" => t.arg \in 1..MaxProfile
  /\ t.op = "assess" /\ t.stage = "writing" => AssessStands(t.run, t.arg)
  /\ t.op = "decide" => t.stage = "writing" /\ DecideStands(t.run, t.arg)
  /\ t.op = "generate" /\ t.stage = "writing" => GenerateStands(t.run, t.arg)
  /\ t.op \in DraftOp /\ t.stage = "writing" => DraftOpStands(t.op, t.run, t.arg)
  /\ t.op \in {"update", "request"} => status = "active"
  /\ t.op = "cancel" => status = "requested"
  /\ t.op = "purge" /\ t.stage = "writing" =>
       /\ DOMAIN t.seen \subseteq Run
       /\ \A r \in Run \ DOMAIN t.seen : Rows(r) = Nothing
  /\ t.op = "retain chain" /\ t.stage = "writing" => Len(t.seen.used) \in Nat
  /\ t.op = "retain run" => /\ run[t.run] # None
                            /\ t.stage = "writing" /\ HasEntry(t.run)
                                 => EntryRow(t.run) \in Wanted(t)

-----------------------------------------------------------------------------
(* What the rows say of one another. *)

\* The links of the chain of r, as TypeOK states them.
Linked(r) ==
  /\ \A k \in DOMAIN decisions[r] : decisions[r][k] \in DOMAIN assessments[r]
  /\ \A d \in drafts[r] : /\ d.decision \in DOMAIN decisions[r]
                          /\ d.parent \in {0} \cup DraftNumbers(r)
                          /\ \A e \in drafts[r] : d.version = e.version => d = e
  /\ approved[r] \subseteq DraftNumbers(r)
  /\ \A k \in DOMAIN used[r] : used[r][k] \in approved[r]

\* There is a newest draft.
Bounded(r) == \E n \in Nat : \A v \in DraftNumbers(r) : v <= n

RowsNeedEntry(r) == ~HasEntry(r) => Rows(r) = Nothing

SoundRuns == \A r \in Run : run[r].exists => Sound(run[r])

ReviewInv ==
  /\ TypedInputs /\ TypedHistory /\ TypedTxn /\ Apart
  /\ \A a \in Actor : LocksHeld(txn[a]) /\ InOrder(txn[a]) /\ Standing(txn[a])
  /\ \A r \in Run : Linked(r)
  /\ \A r \in Run : Bounded(r)
  /\ \A r \in Run : RowsNeedEntry(r)
  /\ SoundRuns /\ PurgedLeavesNoReview

-----------------------------------------------------------------------------
(* Rows and newest numbers. *)

\* The rows that requests lock.
LEMMA RowsTyped ==
  /\ Organization \in Row /\ CandidateRow \in Row /\ VacancyRow \in Row /\ SourceRows \in Row
  /\ \A r \in Run : EntryRow(r) \in Row
  /\ \A p \in Nat : ProfileRow(p) \in Row /\ RequirementsRow(p) \in Row
BY ReviewAssumption DEF Row, Organization, CandidateRow, VacancyRow, SourceRows, EntryRow, ProfileRow,
                        RequirementsRow

\* Different kinds of rows, and different entries, are different rows.
LEMMA RowsDiffer ==
  /\ CandidateRow # SourceRows /\ CandidateRow # VacancyRow /\ SourceRows # VacancyRow
  /\ \A r, s : EntryRow(r) = EntryRow(s) => r = s
  /\ \A r : EntryRow(r) \notin {CandidateRow, SourceRows, VacancyRow}
BY DEF CandidateRow, VacancyRow, SourceRows, EntryRow

\* The place of every kind of row in the lock order.
LEMMA Places ==
  /\ Place(Organization) = 1 /\ Place(CandidateRow) = 3 /\ Place(VacancyRow) = 5
  /\ Place(SourceRows) = 7
  /\ \A r : Place(EntryRow(r)) = 2
  /\ \A p : Place(ProfileRow(p)) = 6 /\ Place(RequirementsRow(p)) = 4
  /\ \A row : Place(row) \in 1..7
BY DEF Place, Organization, CandidateRow, VacancyRow, SourceRows, EntryRow, ProfileRow,
       RequirementsRow

\* A bounded set of numbers has a greatest one.
LEMMA MaxExists ==
  ASSUME NEW D \in SUBSET Nat, D # {}, NEW m \in Nat, \A v \in D : v <= m
  PROVE  \E x \in D : \A y \in D : y <= x
<1> DEFINE Above == {n \in Nat : \A v \in D : v <= n}
<1>1. Above \subseteq Nat /\ Above # {}
  OBVIOUS
<1>2. PICK n \in Above : \A k \in Above : ~ (<<k, n>> \in OpToRel(<, Nat))
  BY <1>1, NatLessThanWellFounded, WFMin
<1>3. \A k \in Above : ~(k < n)
  BY <1>2, <1>1 DEF OpToRel
<1>4. n \in D
  <2> SUFFICES ASSUME n \notin D PROVE FALSE
    OBVIOUS
  <2>1. PICK v \in D : TRUE
    OBVIOUS
  <2>2. n # 0 /\ \A w \in D : w <= n - 1
    BY <2>1
  <2>3. n - 1 \in Above
    BY <2>2
  <2> QED
    BY <1>3, <2>3
<1> QED
  BY <1>4

\* The current profile is the newest confirmed one.
LEMMA CurrentIsNewest ==
  ASSUME TypedInputs
  PROVE  /\ CurrentProfile \in 0..MaxProfile
         /\ confirmed # {} => CurrentProfile \in confirmed
         /\ confirmed = {} => CurrentProfile = 0
         /\ \A q \in confirmed : q <= CurrentProfile
<1>1. CASE confirmed = {}
  BY <1>1, ReviewAssumption DEF CurrentProfile
<1>2. CASE confirmed # {}
  <2>1. /\ confirmed \in SUBSET Nat /\ MaxProfile \in Nat
        /\ \A q \in confirmed : q \in 1..MaxProfile /\ q <= MaxProfile
    BY ReviewAssumption DEF TypedInputs
  <2>2. \E p \in confirmed : \A q \in confirmed : q <= p
    BY <1>2, <2>1, MaxExists
  <2>3. /\ CurrentProfile \in confirmed /\ \A q \in confirmed : q <= CurrentProfile
    BY <1>2, <2>2 DEF CurrentProfile
  <2> QED
    BY <1>2, <2>1, <2>3
<1> QED
  BY <1>1, <1>2

\* The current profile is a version number, 0 if there is none.
LEMMA CurrentIsNumber == TypedInputs => CurrentProfile \in Nat
BY CurrentIsNewest, ReviewAssumption

\* The latest draft is the newest one that is left.
LEMMA LatestIsNewest ==
  ASSUME TypedHistory, NEW r \in Run, Bounded(r)
  PROVE  /\ LatestDraft(r) \in Nat
         /\ drafts[r] # {} => LatestDraft(r) \in DraftNumbers(r)
         /\ drafts[r] = {} => LatestDraft(r) = 0
         /\ \A v \in DraftNumbers(r) : v <= LatestDraft(r)
<1>1. CASE drafts[r] = {}
  BY <1>1 DEF LatestDraft, DraftNumbers
<1>2. CASE drafts[r] # {}
  <2>1. DraftNumbers(r) \in SUBSET Nat /\ DraftNumbers(r) # {}
    BY <1>2 DEF TypedHistory, DraftNumbers, Draft
  <2>2. \E v \in DraftNumbers(r) : \A w \in DraftNumbers(r) : w <= v
    BY <2>1, MaxExists DEF Bounded
  <2>3. LatestDraft(r) \in DraftNumbers(r) /\ \A w \in DraftNumbers(r) : w <= LatestDraft(r)
    BY <1>2, <2>2 DEF LatestDraft
  <2> QED
    BY <1>2, <2>1, <2>3
<1> QED
  BY <1>1, <1>2

\* The row of a draft's number.
LEMMA RowOfDraft ==
  ASSUME NEW r \in Run, Linked(r), NEW d \in drafts[r]
  PROVE  DraftRow(r, d.version) = d
BY DEF Linked, DraftRow

\* A draft number names a draft of the entry.
LEMMA RowOfNumber ==
  ASSUME NEW r \in Run, NEW v \in DraftNumbers(r)
  PROVE  DraftRow(r, v) \in drafts[r] /\ DraftRow(r, v).version = v
BY DEF DraftNumbers, DraftRow

-----------------------------------------------------------------------------
(* What a step leaves alone. *)

\* For every transaction: saved runs stay saved, entries that are gone stay
\* gone, and the current profile gets no older while there is a candidate.  For
\* one that holds some rows: these, and what is written under their locks.
Spares(rows) ==
  /\ \A r \in Run : run[r] # None => run'[r] # None /\ (HasEntry(r)' => HasEntry(r))
  /\ status' # "deleted" => status # "deleted" /\ CurrentProfile <= CurrentProfile'
  /\ SourceRows \in rows => permitted' = permitted
  /\ VacancyRow \in rows => vacancyDeleted' = vacancyDeleted
  /\ CandidateRow \in rows =>
       /\ status' = status /\ facts' = facts /\ confirmed' = confirmed
       /\ \A r \in Run : Rows(r) = Nothing => Rows(r)' = Nothing
  /\ \A r \in Run : EntryRow(r) \in rows =>
       /\ HasEntry(r) => /\ run'[r] = run[r] /\ assessments'[r] = assessments[r]
                         /\ decisions'[r] = decisions[r]
       /\ drafts'[r] \subseteq drafts[r]

\* Only a's transaction changes, and it locks no row of another.
Alone(a) == /\ txn' = [b \in Actor |-> txn'[b]]
            /\ txn'[a] \in Txn(txn'[a].seen)
            /\ \A b \in Actor : b # a => txn'[b] = txn[b]
ApartFrom(a) == \A b \in Actor : b # a => txn'[a].held \cap txn[b].held = {}

\* A verdict stays right while the profile gets no older.
LEMMA SoundStays ==
  ASSUME TypedInputs, TypedInputs', status' # "deleted" => status # "deleted" /\ CurrentProfile <= CurrentProfile',
         NEW s \in [exists : {TRUE}, requirement : 1..MaxRequirement, input : Input,
                    ranked : 0..MaxProfile, entry : BOOLEAN], Sound(s)
  PROVE  Sound(s)'
<1>1. CurrentProfile \in Nat
  BY CurrentIsNumber
<1>2. CurrentProfile' \in Nat
  <2>1. (TypedInputs => CurrentProfile \in Nat)'
    BY CurrentIsNumber, PTL
  <2> QED
    BY <2>1
<1>3. s.ranked \in Nat
  BY ReviewAssumption
<1> QED
  BY <1>1, <1>2, <1>3 DEF Sound, Eligible

\* What a shortlist read stays good for its purpose: profiles only get newer.
LEMMA ShortlistStays ==
  ASSUME TypedInputs, TypedInputs', NEW t, ShortlistStands(t), Spares(t.held)
  PROVE  ShortlistStands(t)'
<1>1. CurrentProfile \in Nat
  BY CurrentIsNumber
<1>2. CurrentProfile' \in Nat
  <2>1. (TypedInputs => CurrentProfile \in Nat)'
    BY CurrentIsNumber, PTL
  <2> QED
    BY <2>1
<1>3. t.stage = "writing" => Sound(t.seen)'
  BY SoundStays DEF ShortlistStands, Spares
<1>4. ASSUME t.stage = "ranking", status' # "deleted"
      PROVE  t.seen.input.profile <= CurrentProfile'
  <2>1. t.seen.input \in Input /\ t.seen.input # NoInput
    BY <1>4 DEF ShortlistStands
  <2>2. t.seen.input \in [counted : {TRUE}, facts : Fact, skills : 0..MaxProfile,
                          profile : 0..MaxProfile]
    BY <2>1 DEF Input
  <2>3. t.seen.input.profile \in Nat
    <3>1. PICK i \in [counted : {TRUE}, facts : Fact, skills : 0..MaxProfile,
                      profile : 0..MaxProfile] : i = t.seen.input
      BY <2>2
    <3>2. i.profile \in 0..MaxProfile
      BY <3>1
    <3> QED
      BY <3>1, <3>2, ReviewAssumption
  <2> QED
    BY <1>1, <1>2, <1>4, <2>3 DEF ShortlistStands, Spares
<1> QED
  BY <1>3, <1>4 DEF ShortlistStands

\* The inputs of a shortlist are those of status, facts and confirmed profiles.
LEMMA CurrentInputStays ==
  ASSUME status' = status, facts' = facts, confirmed' = confirmed
  PROVE  CurrentProfile' = CurrentProfile /\ CurrentInput' = CurrentInput
<1>1. CurrentProfile' = CurrentProfile
  BY DEF CurrentProfile
<1> QED
  BY <1>1 DEF CurrentInput

\* Under the locks on entry, candidate and vacancy the checks of an assessment
\* stand.
LEMMA AssessStays ==
  ASSUME NEW rows, NEW r \in Run, NEW p, AssessStands(r, p), Spares(rows),
         {EntryRow(r), CandidateRow, VacancyRow} \subseteq rows
  PROVE  AssessStands(r, p)'
<1>1. status' = status /\ CurrentProfile' = CurrentProfile /\ CurrentInput' = CurrentInput
  BY CurrentInputStays DEF Spares
<1>2. run'[r] = run[r] /\ vacancyDeleted' = vacancyDeleted
  BY DEF AssessStands, Spares
<1> QED
  BY <1>1, <1>2 DEF AssessStands, HasEntry

\* Under the lock on the entry the numbers on it stand.
LEMMA DecideStays ==
  ASSUME NEW rows, NEW r \in Run, Spares(rows), EntryRow(r) \in rows
  PROVE  /\ \A v : DecideStands(r, v) => DecideStands(r, v)'
         /\ \A d : GenerateStands(r, d) => GenerateStands(r, d)'
BY DEF DecideStands, GenerateStands, HasEntry, Spares

\* The draft with the highest number is the latest.
LEMMA NewestIsLatest ==
  ASSUME TypedHistory, NEW r \in Run, NEW v \in DraftNumbers(r),
         \A w \in DraftNumbers(r) : w <= v
  PROVE  LatestDraft(r) = v
<1>1. DraftNumbers(r) \subseteq Nat /\ drafts[r] # {}
  BY DEF TypedHistory, DraftNumbers, Draft
<1> DEFINE Tops == {x \in DraftNumbers(r) : \A w \in DraftNumbers(r) : w <= x}
<1>2. \A x \in Tops : x = v
  BY <1>1
<1>3. v \in Tops
  OBVIOUS
<1>4. LatestDraft(r) = CHOOSE x \in DraftNumbers(r) : \A w \in DraftNumbers(r) : w <= x
  BY <1>1 DEF LatestDraft
<1> QED
  BY <1>2, <1>3, <1>4

LatestIsTop == \A r \in Run : \A v \in DraftNumbers(r) :
  (\A w \in DraftNumbers(r) : w <= v) => LatestDraft(r) = v

\* An entry with drafts has a latest one.
LEMMA LatestIsTopAlways == TypedHistory => LatestIsTop
BY NewestIsLatest DEF LatestIsTop

\* Deleting other drafts leaves the latest the latest.
LEMMA LatestStays ==
  ASSUME TypedHistory, TypedHistory', NEW r \in Run, Bounded(r), drafts'[r] \subseteq drafts[r],
         LatestDraft(r) \in DraftNumbers(r)'
  PROVE  LatestDraft(r)' = LatestDraft(r)
<1>1. DraftNumbers(r)' \subseteq DraftNumbers(r)
  BY DEF DraftNumbers
<1>2. \A w \in DraftNumbers(r)' : w <= LatestDraft(r)
  BY <1>1, LatestIsNewest
<1>3. (TypedHistory => LatestIsTop)'
  BY LatestIsTopAlways, PTL
<1> QED
  BY <1>2, <1>3 DEF LatestIsTop

\* Drafts may go, but then the last of those left was the last before.
LEMMA DraftOpStays ==
  ASSUME TypedHistory, TypedHistory', NEW rows, NEW r \in Run, Bounded(r), Linked(r), Bounded(r)', Linked(r)',
         NEW op, NEW v, DraftOpStands(op, r, v), Spares(rows),
         {EntryRow(r), CandidateRow, SourceRows} \subseteq rows
  PROVE  DraftOpStands(op, r, v)'
<1> SUFFICES ASSUME v \in DraftNumbers(r)' PROVE DraftOpStands(op, r, v)'
  BY DEF DraftOpStands
<1>1. PICK d \in drafts'[r] : d.version = v
  BY DEF DraftNumbers
<1>2. drafts'[r] \subseteq drafts[r] /\ d \in drafts[r]
  BY <1>1 DEF Spares
<1>3. v \in DraftNumbers(r)
  BY <1>1, <1>2 DEF DraftNumbers
<1>4. HasEntry(r)
  BY <1>3 DEF DraftOpStands
<1>5. /\ run'[r] = run[r] /\ assessments'[r] = assessments[r] /\ decisions'[r] = decisions[r]
  BY <1>4 DEF Spares
<1>6. status' = status /\ CurrentProfile' = CurrentProfile /\ CurrentInput' = CurrentInput
      /\ permitted' = permitted
  BY CurrentInputStays DEF Spares
<1>7. DraftRow(r, v) = d
  BY <1>1, <1>2, RowOfDraft
<1>8. DraftRow(r, v)' = d
  BY <1>1 DEF Linked, DraftRow
<1>9. v = LatestDraft(r)'
  BY <1>2, <1>3, LatestStays DEF DraftOpStands
<1> QED
  BY <1>3, <1>4, <1>5, <1>6, <1>7, <1>8, <1>9 DEF DraftOpStands, Backing, HasEntry

\* What a transaction knows survives a step that spares the rows it holds.
LEMMA StandsStill ==
  ASSUME TypedInputs, TypedInputs', TypedHistory, TypedHistory',
         \A r \in Run : Bounded(r) /\ Linked(r), \A r \in Run : Bounded(r)' /\ Linked(r)',
         NEW t, t \in Txn(t.seen), LocksHeld(t), Standing(t), Spares(t.held)
  PROVE  Standing(t)'
<1>1. t.op = "shortlist" => ShortlistStands(t)'
  BY ShortlistStays DEF Standing
<1>2. ASSUME t.op \in {"assess"} \cup DraftOp, t.stage = "writing"
      PROVE  Wanted(t) = t.held
  <2>1. t.todo = <<>>
    BY <1>2 DEF LocksHeld
  <2> QED
    BY <2>1 DEF Wanted
<1>3. ASSUME t.op = "assess", t.stage = "writing"
      PROVE  AssessStands(t.run, t.arg)'
  BY <1>2, <1>3, AssessStays DEF Standing, LocksHeld
<1>4. ASSUME t.op = "decide"
      PROVE  DecideStands(t.run, t.arg)'
  BY <1>4, DecideStays DEF Standing, LocksHeld
<1>5. ASSUME t.op = "generate", t.stage = "writing"
      PROVE  GenerateStands(t.run, t.arg)'
  BY <1>5, DecideStays DEF Standing, LocksHeld
<1>6. ASSUME t.op \in DraftOp, t.stage = "writing"
      PROVE  DraftOpStands(t.op, t.run, t.arg)'
  BY <1>2, <1>6, DraftOpStays DEF Standing, LocksHeld
<1>7. ASSUME t.op = "purge", t.stage = "writing"
      PROVE  \A r \in Run \ DOMAIN t.seen : Rows(r)' = Nothing
  BY <1>7 DEF Standing, LocksHeld, Spares
<1>8. t.op = "retain run" => run'[t.run] # None /\ (HasEntry(t.run)' => HasEntry(t.run))
  BY DEF Standing, Spares
<1>9. t.op \in {"update", "request", "cancel"} => status' = status
  BY DEF LocksHeld, Spares
<1>10. Len(t.seen.used)' = Len(t.seen.used)
  OBVIOUS
<1> QED
  BY <1>1, <1>3, <1>4, <1>5, <1>6, <1>7, <1>8, <1>9, <1>10 DEF Standing

\* A transaction whose locked rows are spared still knows what it knew.
LEMMA OthersStand ==
  ASSUME ReviewInv, TypedInputs', TypedHistory', \A r \in Run : Bounded(r)' /\ Linked(r)',
         NEW b \in Actor, txn'[b] = txn[b], Spares(txn[b].held)
  PROVE  LocksHeld(txn[b])' /\ InOrder(txn[b])' /\ Standing(txn[b])'
<1>1. PICK t : t = txn[b]
  OBVIOUS
<1>2. t \in Txn(t.seen) /\ LocksHeld(t) /\ InOrder(t) /\ Standing(t) /\ Spares(t.held)
  BY <1>1 DEF ReviewInv, TypedTxn
<1>3. Standing(t)'
  BY <1>2, StandsStill DEF ReviewInv
<1>4. LocksHeld(t)' /\ InOrder(t)'
  BY <1>2 DEF LocksHeld, InOrder
<1>5. txn'[b] = t
  BY <1>1
<1> QED
  BY <1>3, <1>4, <1>5

-----------------------------------------------------------------------------
(* Three kinds of step: a transaction goes on, ends with a write, or somebody *)
(* changes an input under a lock of his own.                                  *)

Quiet == UNCHANGED <<inputs, history, changes>>

RowsStand ==
  /\ TypedInputs' /\ TypedHistory' /\ SoundRuns' /\ PurgedLeavesNoReview'
  /\ \A r \in Run : Bounded(r)' /\ Linked(r)' /\ RowsNeedEntry(r)'

\* One transaction locking free rows does not touch what others hold.
LEMMA StillApart ==
  ASSUME ReviewInv, NEW a \in Actor, Alone(a), ApartFrom(a)
  PROVE  Apart' /\ TypedTxn'
<1>1. Apart'
  BY DEF ReviewInv, Apart, Alone, ApartFrom
<1>2. TypedTxn'
  BY DEF ReviewInv, TypedTxn, Alone
<1> QED
  BY <1>1, <1>2

\* What a step of one transaction has to show.
LEMMA TxnStep ==
  ASSUME ReviewInv, NEW a \in Actor, Alone(a), ApartFrom(a), RowsStand,
         \A b \in Actor : b # a => Spares(txn[b].held),
         LocksHeld(txn[a])', InOrder(txn[a])', Standing(txn[a])'
  PROVE  ReviewInv'
<1>1. ASSUME NEW b \in Actor, b # a
      PROVE  LocksHeld(txn[b])' /\ InOrder(txn[b])' /\ Standing(txn[b])'
  BY <1>1, OthersStand DEF Alone, RowsStand
<1>2. \A b \in Actor : LocksHeld(txn[b])' /\ InOrder(txn[b])' /\ Standing(txn[b])'
  BY <1>1
<1> QED
  BY <1>2, StillApart DEF ReviewInv, RowsStand

\* What a step of the rest of the application has to show.
LEMMA OutsideStep ==
  ASSUME ReviewInv, txn' = txn, RowsStand, \A b \in Actor : Spares(txn[b].held)
  PROVE  ReviewInv'
<1>1. ASSUME NEW b \in Actor
      PROVE  LocksHeld(txn[b])' /\ InOrder(txn[b])' /\ Standing(txn[b])'
  BY <1>1, OthersStand DEF RowsStand
<1>2. Apart' /\ TypedTxn'
  BY DEF ReviewInv, Apart, TypedTxn
<1> QED
  BY <1>1, <1>2 DEF ReviewInv, RowsStand

\* A step that changes no row spares all locked rows.
LEMMA QuietSpares ==
  ASSUME ReviewInv, Quiet
  PROVE  RowsStand /\ \A rows : Spares(rows)
<1>1. /\ requirement' = requirement /\ vacancyDeleted' = vacancyDeleted /\ status' = status
      /\ facts' = facts /\ versions' = versions /\ confirmed' = confirmed
      /\ permitted' = permitted /\ changes' = changes
  BY DEF Quiet, inputs
<1>2. /\ run' = run /\ assessments' = assessments /\ decisions' = decisions
      /\ drafts' = drafts /\ approved' = approved /\ used' = used
  BY DEF Quiet, history
<1>3. CurrentProfile' = CurrentProfile /\ CurrentProfile \in Nat
  BY <1>1, CurrentInputStays, CurrentIsNumber DEF ReviewInv
<1>4. TypedInputs' /\ TypedHistory'
  BY <1>1, <1>2 DEF ReviewInv, TypedInputs, TypedHistory
<1>5. SoundRuns'
  BY <1>1, <1>2, <1>3 DEF ReviewInv, SoundRuns, Sound
<1>6. PurgedLeavesNoReview'
  BY <1>1, <1>2 DEF ReviewInv, PurgedLeavesNoReview, Rows
<1>7. \A r \in Run : Bounded(r)' /\ Linked(r)'
  BY <1>2 DEF ReviewInv, Bounded, Linked, DraftNumbers
<1>8. \A r \in Run : RowsNeedEntry(r)'
  BY <1>2 DEF ReviewInv, RowsNeedEntry, HasEntry, Rows
<1>9. \A rows : Spares(rows)
  BY <1>1, <1>2, <1>3 DEF Spares, HasEntry, Rows
<1> QED
  BY <1>4, <1>5, <1>6, <1>7, <1>8, <1>9 DEF RowsStand

\* A step of one transaction that changes no row.
LEMMA QuietStep ==
  ASSUME ReviewInv, NEW a \in Actor, Quiet, Alone(a), ApartFrom(a),
         LocksHeld(txn[a])', InOrder(txn[a])', Standing(txn[a])'
  PROVE  ReviewInv'
BY QuietSpares, TxnStep

-----------------------------------------------------------------------------
(* Steps of one transaction that write nothing. *)

\* Replacing one transaction leaves the others.
LEMMA SetAlone ==
  ASSUME TypedTxn, NEW a \in Actor, NEW t, t \in Txn(t.seen), txn' = [txn EXCEPT ![a] = t]
  PROVE  Alone(a) /\ txn'[a] = t
<1>1. txn'[a] = t /\ \A b \in Actor : b # a => txn'[b] = txn[b]
  BY DEF TypedTxn
<1>2. txn' = [b \in Actor |-> txn'[b]]
  BY DEF TypedTxn
<1> QED
  BY <1>1, <1>2 DEF Alone

\* A step that replaces one transaction and changes no row.
LEMMA SetStep ==
  ASSUME ReviewInv, NEW a \in Actor, NEW t, t \in Txn(t.seen), txn' = [txn EXCEPT ![a] = t],
         Quiet, \A b \in Actor : b # a => t.held \cap txn[b].held = {},
         LocksHeld(t), InOrder(t), Standing(t)
  PROVE  ReviewInv'
<1>1. Alone(a) /\ txn'[a] = t
  BY SetAlone DEF ReviewInv
<1>2. ApartFrom(a)
  BY <1>1 DEF ApartFrom
<1>3. LocksHeld(t)' /\ InOrder(t)'
  BY DEF LocksHeld, InOrder
<1>4. Standing(t)'
  BY QuietSpares, StandsStill DEF ReviewInv, RowsStand
<1>5. LocksHeld(txn[a])' /\ InOrder(txn[a])' /\ Standing(txn[a])'
  BY <1>1, <1>3, <1>4
<1> QED
  BY <1>1, <1>2, <1>5, QuietStep

\* Being idle is a state of a transaction.
LEMMA IdleTyped == Idle \in Txn(Idle.seen)
<1>1. <<>> \in Seq(Row)
  OBVIOUS
<1> QED
  BY <1>1 DEF Idle, Txn, Ops, Stages

\* An idle request holds nothing and knows nothing.
LEMMA IdleStands == LocksHeld(Idle) /\ InOrder(Idle) /\ Standing(Idle)
BY DEF LocksHeld, InOrder, Standing, Idle, DraftOp

\* A transaction that is over.
LEMMA EndAlone ==
  ASSUME TypedTxn, NEW a \in Actor, End(a)
  PROVE  Alone(a) /\ ApartFrom(a) /\ txn'[a] = Idle
<1>1. PICK t : t = Idle
  OBVIOUS
<1>2. t \in Txn(t.seen) /\ txn' = [txn EXCEPT ![a] = t] /\ t.held = {}
  BY <1>1, IdleTyped DEF End, Idle
<1>3. Alone(a) /\ txn'[a] = t
  BY <1>2, SetAlone
<1> QED
  BY <1>1, <1>2, <1>3 DEF ApartFrom

\* The same, after the step that made it idle.
LEMMA IdleStandsAfter ==
  ASSUME NEW a \in Actor, txn'[a] = Idle
  PROVE  LocksHeld(txn[a])' /\ InOrder(txn[a])' /\ Standing(txn[a])'
BY DEF LocksHeld, InOrder, Standing, Idle, DraftOp

\* A request that is refused leaves everything as it was.
LEMMA RefuseStep ==
  ASSUME ReviewInv, NEW a \in Actor, Refuse(a)
  PROVE  ReviewInv'
<1>1. End(a) /\ Quiet
  BY DEF Refuse, Quiet
<1>2. Alone(a) /\ ApartFrom(a) /\ txn'[a] = Idle
  BY <1>1, EndAlone DEF ReviewInv
<1> QED
  BY <1>1, <1>2, IdleStandsAfter, QuietStep

\* A transaction that goes on to its write with the locks it has.
LEMMA WritingStep ==
  ASSUME ReviewInv, NEW a \in Actor, Proceed(a, "writing", <<>>),
         txn[a].op \in {"shortlist", "assess"} \cup DraftOp,
         txn[a].stage # "asking", txn[a].todo = <<>>,
         txn[a].op = "shortlist" =>
           /\ txn[a].seen.input = NoInput /\ ~txn[a].seen.entry /\ txn[a].seen.ranked = 0,
         txn[a].op = "assess" =>
           /\ txn[a].stage = "deciding" /\ AssessStands(txn[a].run, txn[a].arg),
         txn[a].op \in DraftOp => DraftOpStands(txn[a].op, txn[a].run, txn[a].arg)
  PROVE  ReviewInv'
<1>1. PICK t : t = [txn[a] EXCEPT !.stage = "writing"]
  OBVIOUS
<1>2. txn[a] \in Txn(txn[a].seen) /\ <<>> \in Seq(Row)
  BY DEF ReviewInv, TypedTxn
<1>3. /\ t.op = txn[a].op /\ t.run = txn[a].run /\ t.arg = txn[a].arg /\ t.stage = "writing"
      /\ t.held = txn[a].held /\ t.todo = txn[a].todo /\ t.seen = txn[a].seen
  BY <1>1, <1>2 DEF Txn
<1>4. t \in Txn(t.seen)
  BY <1>1, <1>2, <1>3 DEF Txn, Stages
<1>5. txn' = [txn EXCEPT ![a] = t]
  BY <1>1, <1>2 DEF Proceed, ReviewInv, TypedTxn, Txn
<1>6. LocksHeld(txn[a]) /\ Standing(txn[a])
  BY DEF ReviewInv
<1>7. LocksHeld(t)
  BY <1>3, <1>6 DEF LocksHeld, Wanted, DraftOp
<1>8. InOrder(t)
  BY <1>3 DEF InOrder
<1>9. t.op = "shortlist" => ShortlistStands(t)
  BY <1>3, <1>6 DEF Standing, ShortlistStands, Sound
<1>10. Standing(t)
  BY <1>3, <1>6, <1>9 DEF Standing, DraftOp
<1>11. \A b \in Actor : b # a => t.held \cap txn[b].held = {}
  BY <1>3 DEF ReviewInv, Apart
<1>12. Quiet
  BY DEF Proceed, Quiet
<1> QED
  BY <1>4, <1>5, <1>7, <1>8, <1>10, <1>11, <1>12, SetStep

\* A transaction that begins, or begins again after the AI service answered.
Begun(a, op, r, arg, stage, locks, t) ==
  /\ t \in Txn(t.seen) /\ txn' = [txn EXCEPT ![a] = t] /\ Quiet
  /\ \A b \in Actor : b # a => t.held \cap txn[b].held = {}
  /\ t.op = op /\ t.run = r /\ t.arg = arg /\ t.stage = stage
  /\ locks = <<>> => t.todo = <<>> /\ t.held = {}
  /\ locks # <<>> => t.todo = Tail(locks) /\ t.held = {Head(locks)}

\* What a request that begins looks like.
LEMMA BeginStep ==
  ASSUME TypedTxn, NEW a \in Actor, NEW op, NEW r, NEW arg, NEW stage, NEW locks,
         Begin(a, op, r, arg, stage, locks), op \in Ops, r \in {0} \cup Run, arg \in Nat,
         stage \in Stages, locks \in Seq(Row)
  PROVE  \E t : Begun(a, op, r, arg, stage, locks, t)
<1>1. PICK rest : rest = IF locks = <<>> THEN <<>> ELSE Tail(locks)
  OBVIOUS
<1>2. PICK first : first = IF locks = <<>> THEN {} ELSE {Head(locks)}
  OBVIOUS
<1>3. rest \in Seq(Row) /\ first \in SUBSET Row
  BY <1>1, <1>2
<1>4. PICK t : t = [Idle EXCEPT !.op = op, !.run = r, !.arg = arg, !.stage = stage,
                                !.todo = rest, !.held = first]
  OBVIOUS
<1>5. /\ t.op = op /\ t.run = r /\ t.arg = arg /\ t.stage = stage /\ t.todo = rest
      /\ t.held = first
  BY <1>4 DEF Idle
<1>6. t \in Txn(t.seen)
  BY <1>3, <1>4, <1>5 DEF Idle, Txn
<1>7. txn' = [txn EXCEPT ![a] = t]
  BY <1>1, <1>2, <1>4 DEF Begin
<1>8. Quiet
  BY DEF Begin, Quiet
<1>9. \A b \in Actor : b # a => t.held \cap txn[b].held = {}
  BY <1>2, <1>5 DEF Begin, Free
<1> QED
  BY <1>1, <1>2, <1>5, <1>6, <1>7, <1>8, <1>9 DEF Begun

\* A request that begins is right if what it starts from is.
LEMMA BegunStep ==
  ASSUME ReviewInv, NEW a \in Actor, NEW op, NEW r, NEW arg, NEW stage, NEW locks, NEW t,
         Begun(a, op, r, arg, stage, locks, t), LocksHeld(t), InOrder(t), Standing(t)
  PROVE  ReviewInv'
BY SetStep DEF Begun

\* The next lock, in the order of the transaction's list.
LEMMA RestIsWanted ==
  ASSUME NEW s \in Seq(Row), s # <<>>
  PROVE  /\ Head(s) \in Row /\ Tail(s) \in Seq(Row)
         /\ \A k \in DOMAIN s : s[k] = Head(s) \/ \E j \in DOMAIN Tail(s) : s[k] = Tail(s)[j]
         /\ \A j \in DOMAIN Tail(s) : j + 1 \in DOMAIN s /\ Tail(s)[j] = s[j + 1]
         /\ 1 \in DOMAIN s /\ Head(s) = s[1]
<1>1. Len(s) \in Nat \ {0} /\ Len(Tail(s)) = Len(s) - 1
      /\ Head(s) = s[1] /\ \A j \in 1 .. Len(s) - 1 : Tail(s)[j] = s[j + 1]
  OBVIOUS
<1>2. DOMAIN s = 1 .. Len(s) /\ DOMAIN Tail(s) = 1 .. Len(s) - 1
  BY <1>1
<1>3. ASSUME NEW k \in DOMAIN s, k # 1
      PROVE  k - 1 \in DOMAIN Tail(s) /\ s[k] = Tail(s)[k - 1]
  <2>1. k \in 1 .. Len(s) /\ k - 1 \in 1 .. Len(s) - 1 /\ (k - 1) + 1 = k
    BY <1>1, <1>2, <1>3
  <2> QED
    BY <1>1, <1>2, <2>1
<1>4. \A k \in DOMAIN s : s[k] = Head(s) \/ \E j \in DOMAIN Tail(s) : s[k] = Tail(s)[j]
  BY <1>1, <1>3
<1>5. ASSUME NEW j \in DOMAIN Tail(s)
      PROVE  j + 1 \in DOMAIN s /\ Tail(s)[j] = s[j + 1]
  BY <1>1, <1>2
<1>6. 1 \in DOMAIN s /\ Head(s) = s[1]
  BY <1>1, <1>2
<1>7. Head(s) \in Row /\ Tail(s) \in Seq(Row)
  OBVIOUS
<1> QED
  BY <1>4, <1>5, <1>6, <1>7

\* Locking a free row adds it to what is held.
LEMMA LockStep ==
  ASSUME ReviewInv, NEW a \in Actor, Lock(a)
  PROVE  ReviewInv'
<1>1. txn[a] \in Txn(txn[a].seen) /\ LocksHeld(txn[a]) /\ InOrder(txn[a]) /\ Standing(txn[a])
  BY DEF ReviewInv, TypedTxn
<1>2. PICK s \in Seq(Row) : s = txn[a].todo
  BY <1>1 DEF Txn
<1>3. s # <<>>
  BY <1>2 DEF Lock
<1>4. Head(s) \in Row /\ Tail(s) \in Seq(Row)
  BY <1>3, RestIsWanted
<1>5. PICK t : t = [txn[a] EXCEPT !.held = @ \cup {Head(s)}, !.todo = Tail(s)]
  OBVIOUS
<1>6. /\ t.op = txn[a].op /\ t.run = txn[a].run /\ t.arg = txn[a].arg
      /\ t.stage = txn[a].stage /\ t.held = txn[a].held \cup {Head(s)} /\ t.todo = Tail(s)
      /\ t.seen = txn[a].seen
  BY <1>1, <1>5 DEF Txn
<1>7. t \in Txn(t.seen)
  BY <1>1, <1>4, <1>5, <1>6 DEF Txn
<1>8. txn' = [txn EXCEPT ![a] = t]
  BY <1>1, <1>2, <1>5 DEF Lock, ReviewInv, TypedTxn, Txn
<1>9. \A b \in Actor : b # a => t.held \cap txn[b].held = {}
  BY <1>2, <1>6 DEF ReviewInv, Apart, Lock
<1>10. Wanted(txn[a]) \subseteq Wanted(t)
  BY <1>2, <1>3, <1>6, RestIsWanted DEF Wanted
<1>11. LocksHeld(t)
  BY <1>1, <1>2, <1>3, <1>6, <1>10 DEF LocksHeld
<1>12. InOrder(t)
  <2>1. ASSUME t.op \notin Correcting, NEW row \in t.held, NEW k \in DOMAIN t.todo
        PROVE  Place(row) < Place(t.todo[k])
    <3>1. k + 1 \in DOMAIN s /\ Tail(s)[k] = s[k + 1] /\ 1 \in DOMAIN s /\ Head(s) = s[1]
          /\ 1 < k + 1
      BY <1>3, <1>6, <2>1, RestIsWanted
    <3> QED
      BY <1>1, <1>2, <1>6, <2>1, <3>1 DEF InOrder
  <2>2. ASSUME t.op \notin Correcting, NEW j \in DOMAIN t.todo, NEW k \in DOMAIN t.todo, j < k
        PROVE  Place(t.todo[j]) < Place(t.todo[k])
    <3>1. k + 1 \in DOMAIN s /\ Tail(s)[k] = s[k + 1] /\ j + 1 \in DOMAIN s
          /\ Tail(s)[j] = s[j + 1] /\ j + 1 < k + 1
      BY <1>3, <1>6, <2>2, RestIsWanted
    <3> QED
      BY <1>1, <1>2, <1>6, <2>2, <3>1 DEF InOrder
  <2> QED
    BY <2>1, <2>2 DEF InOrder
<1>13. Standing(t)
  <2>1. t.op # "none"
    BY <1>1, <1>2, <1>3, <1>6 DEF LocksHeld
  <2>2. t.op # "shortlist"
    BY <1>1, <1>2, <1>3, <1>6 DEF LocksHeld
  <2> QED
    BY <1>1, <1>6, <1>10, <2>1, <2>2 DEF Standing
<1>14. Quiet
  BY DEF Lock, Quiet
<1> QED
  BY <1>7, <1>8, <1>9, <1>11, <1>12, <1>13, <1>14, SetStep

\* The first lock is held, the others come next.
LEMMA BegunLocks ==
  ASSUME NEW a, NEW op, NEW r, NEW arg, NEW stage, NEW locks, NEW t,
         Begun(a, op, r, arg, stage, locks, t)
  PROVE  /\ \A w : locks = <<w>> => t.held = {w} /\ t.todo = <<>>
         /\ \A w, x : locks = <<w, x>> => t.held = {w} /\ t.todo = <<x>>
         /\ \A w, x, y : locks = <<w, x, y>> => t.held = {w} /\ t.todo = <<x, y>>
         /\ \A w, x, y, z, u : locks = <<w, x, y, z, u>> =>
                                t.held = {w} /\ t.todo = <<x, y, z, u>>
<1>1. ASSUME NEW w, locks = <<w>>
      PROVE  t.held = {w} /\ t.todo = <<>>
  BY <1>1 DEF Begun
<1>2. ASSUME NEW w, NEW x, locks = <<w, x>>
      PROVE  t.held = {w} /\ t.todo = <<x>>
  BY <1>2 DEF Begun
<1>3. ASSUME NEW w, NEW x, NEW y, locks = <<w, x, y>>
      PROVE  t.held = {w} /\ t.todo = <<x, y>>
  BY <1>3 DEF Begun
<1>4. ASSUME NEW w, NEW x, NEW y, NEW z, NEW u, locks = <<w, x, y, z, u>>
      PROVE  t.held = {w} /\ t.todo = <<x, y, z, u>>
  BY <1>4 DEF Begun
<1> QED
  BY <1>1, <1>2, <1>3, <1>4

\* The lock lists of the services are sequences of rows.
LEMMA LocksTyped ==
  /\ \A r \in Run : DecideLocks(r) \in Seq(Row) /\ DraftLocks(r) \in Seq(Row)
  /\ \A p \in Nat : ProfileLocks(p) \in Seq(Row) /\ CorrectLocks(p) \in Seq(Row)
  /\ SourceLocks \in Seq(Row) /\ <<Organization>> \in Seq(Row) /\ <<>> \in Seq(Row)
  /\ <<CandidateRow>> \in Seq(Row) /\ <<VacancyRow>> \in Seq(Row)
BY RowsTyped DEF DecideLocks, DraftLocks, ProfileLocks, CorrectLocks, SourceLocks

\* So is that of an assessment: a run with an entry names its requirements.
LEMMA AssessLocksTyped ==
  ASSUME TypedHistory, NEW r \in Run, HasEntry(r), NEW p \in Nat
  PROVE  run[r].requirement \in Nat /\ AssessLocks(r, p) \in Seq(Row)
<1>1. None.exists = FALSE /\ Gone.exists = FALSE
  BY DEF None, Gone
<1>2. run[r].requirement \in 1..MaxRequirement
  BY <1>1 DEF TypedHistory, MatchRun, HasEntry
<1>3. run[r].requirement \in Nat
  BY <1>2, ReviewAssumption
<1> QED
  BY <1>3, RowsTyped DEF AssessLocks

\* assess_shortlist_entry loads the entry and asks the AI service.
LEMMA StartAssessStep ==
  ASSUME ReviewInv, NEW a \in Actor, StartAssess(a)
  PROVE  ReviewInv'
<1>1. PICK r \in Run : /\ Eligible(run[r].requirement, CurrentProfile, facts)
                       /\ Start(a, "assess", r, CurrentProfile, "asking", <<>>)
  BY DEF StartAssess
<1>2. CurrentProfile \in 1..MaxProfile /\ CurrentProfile \in Nat
  BY <1>1, CurrentIsNewest, ReviewAssumption DEF Eligible, ReviewInv
<1>3. PICK p : p = CurrentProfile
  OBVIOUS
<1>4. Begin(a, "assess", r, p, "asking", <<>>) /\ p \in Nat
  BY <1>1, <1>2, <1>3 DEF Start
<1>5. PICK t : Begun(a, "assess", r, p, "asking", <<>>, t)
  BY <1>4, BeginStep, LocksTyped DEF ReviewInv, Ops, Stages
<1>6. /\ t.op = "assess" /\ t.run = r /\ t.arg = p /\ t.stage = "asking" /\ t.held = {}
      /\ t.todo = <<>>
  BY <1>5 DEF Begun
<1>7. LocksHeld(t) /\ InOrder(t)
  BY <1>6 DEF LocksHeld, InOrder, DraftOp
<1>8. Standing(t)
  BY <1>2, <1>3, <1>6 DEF Standing, DraftOp
<1> QED
  BY <1>5, <1>7, <1>8, BegunStep

\* The AI service answers and the transaction of assess_shortlist_entry begins.
LEMMA HearAssessmentStep ==
  ASSUME ReviewInv, NEW a \in Actor, HearAssessment(a)
  PROVE  ReviewInv'
<1>1. /\ txn[a].op = "assess" /\ txn[a] \in Txn(txn[a].seen) /\ Standing(txn[a])
  BY DEF ReviewInv, TypedTxn, HearAssessment, Ready
<1>2. PICK r \in Run : r = txn[a].run
  BY <1>1 DEF Standing
<1>3. PICK p \in Nat : p = txn[a].arg
  BY <1>1 DEF Txn
<1>4. p \in 1..MaxProfile
  BY <1>1, <1>3 DEF Standing
<1>5. CASE Refuse(a)
  BY <1>5, RefuseStep
<1>6. CASE HasEntry(r) /\ Begin(a, "assess", r, p, "deciding", AssessLocks(r, p))
  <2>1. PICK q \in Nat : q = run[r].requirement
    BY <1>6, AssessLocksTyped DEF ReviewInv
  <2>2. PICK locks \in Seq(Row) : locks = AssessLocks(r, p)
    BY <1>6, AssessLocksTyped DEF ReviewInv
  <2>3. PICK t : Begun(a, "assess", r, p, "deciding", locks, t)
    BY <1>6, <2>2, BeginStep DEF ReviewInv, Ops, Stages
  <2>4. t.op = "assess" /\ t.run = r /\ t.arg = p /\ t.stage = "deciding"
    BY <2>3 DEF Begun
  <2>5. /\ t.held = {EntryRow(r)}
        /\ t.todo = <<CandidateRow, RequirementsRow(q), VacancyRow, ProfileRow(p)>>
    BY <2>1, <2>2, <2>3, BegunLocks DEF AssessLocks
  <2>6. LocksHeld(t)
    <3>1. {EntryRow(r), CandidateRow, VacancyRow} \subseteq Wanted(t)
      BY <2>5 DEF Wanted
    <3> QED
      BY <2>4, <3>1 DEF LocksHeld, DraftOp
  <2>7. InOrder(t)
    BY <2>4, <2>5, Places DEF InOrder
  <2>8. Standing(t)
    BY <1>4, <2>4 DEF Standing, DraftOp
  <2> QED
    BY <2>3, <2>6, <2>7, <2>8, BegunStep
<1> QED
  BY <1>2, <1>3, <1>5, <1>6 DEF HearAssessment

\* record_review_decision checks under the lock on the entry.
LEMMA CheckDecideStep ==
  ASSUME ReviewInv, NEW a \in Actor, CheckDecide(a)
  PROVE  ReviewInv'
<1>1. PICK r \in Run : \E v \in DOMAIN assessments[r] :
        /\ Room /\ HasEntry(r) /\ Decidable(r, v)
        /\ Start(a, "decide", r, v, "writing", DecideLocks(r))
  BY DEF CheckDecide
<1>2. PICK v \in DOMAIN assessments[r] :
        /\ Room /\ HasEntry(r) /\ Decidable(r, v)
        /\ Start(a, "decide", r, v, "writing", DecideLocks(r))
  BY <1>1
<1>3. v \in Nat
  BY DEF ReviewInv, TypedHistory
<1>4. PICK locks \in Seq(Row) : locks = DecideLocks(r)
  BY LocksTyped
<1>5. Begin(a, "decide", r, v, "writing", locks)
  BY <1>2, <1>4 DEF Start
<1>6. PICK t : Begun(a, "decide", r, v, "writing", locks, t)
  BY <1>3, <1>5, BeginStep DEF ReviewInv, Ops, Stages
<1>7. t.op = "decide" /\ t.run = r /\ t.arg = v /\ t.stage = "writing"
  BY <1>6 DEF Begun
<1>8. t.held = {EntryRow(r)} /\ t.todo = <<>>
  BY <1>4, <1>6, BegunLocks DEF DecideLocks
<1>9. LocksHeld(t) /\ InOrder(t)
  BY <1>7, <1>8 DEF LocksHeld, InOrder, DraftOp
<1>10. Standing(t)
  BY <1>2, <1>7 DEF Standing, DraftOp, DecideStands, Decidable
<1> QED
  BY <1>6, <1>9, <1>10, BegunStep

\* generate_outreach_draft checks and asks the AI service.
LEMMA StartDraftStep ==
  ASSUME ReviewInv, NEW a \in Actor, StartDraft(a)
  PROVE  ReviewInv'
<1>1. PICK r \in Run : \E d \in DOMAIN decisions[r] :
        /\ HasEntry(r) /\ DraftRoom(r) /\ Draftable(r, d)
        /\ Start(a, "generate", r, d, "asking", <<>>)
  BY DEF StartDraft
<1>2. PICK d \in DOMAIN decisions[r] : Start(a, "generate", r, d, "asking", <<>>)
  BY <1>1
<1>3. d \in Nat
  BY DEF ReviewInv, TypedHistory
<1>4. PICK t : Begun(a, "generate", r, d, "asking", <<>>, t)
  BY <1>2, <1>3, BeginStep, LocksTyped DEF ReviewInv, Ops, Stages, Start
<1>5. /\ t.op = "generate" /\ t.run = r /\ t.arg = d /\ t.stage = "asking" /\ t.held = {}
      /\ t.todo = <<>>
  BY <1>4 DEF Begun
<1>6. LocksHeld(t) /\ InOrder(t) /\ Standing(t)
  BY <1>5 DEF LocksHeld, InOrder, Standing, DraftOp
<1> QED
  BY <1>4, <1>6, BegunStep

\* The AI service answers and the entry is locked.
LEMMA HearDraftStep ==
  ASSUME ReviewInv, NEW a \in Actor, HearDraft(a)
  PROVE  ReviewInv'
<1>1. /\ txn[a].op = "generate" /\ txn[a] \in Txn(txn[a].seen) /\ Standing(txn[a])
  BY DEF ReviewInv, TypedTxn, HearDraft, Ready
<1>2. PICK r \in Run : r = txn[a].run
  BY <1>1 DEF Standing
<1>3. PICK d \in Nat : d = txn[a].arg
  BY <1>1 DEF Txn
<1>4. CASE Refuse(a)
  BY <1>4, RefuseStep
<1>5. CASE /\ HasEntry(r) /\ DraftRoom(r) /\ Draftable(r, d)
           /\ Begin(a, "generate", r, d, "writing", DecideLocks(r))
  <2>1. PICK locks \in Seq(Row) : locks = DecideLocks(r)
    BY LocksTyped
  <2>2. PICK t : Begun(a, "generate", r, d, "writing", locks, t)
    BY <1>5, <2>1, BeginStep DEF ReviewInv, Ops, Stages
  <2>3. t.op = "generate" /\ t.run = r /\ t.arg = d /\ t.stage = "writing"
    BY <2>2 DEF Begun
  <2>4. t.held = {EntryRow(r)} /\ t.todo = <<>>
    BY <2>1, <2>2, BegunLocks DEF DecideLocks
  <2>5. LocksHeld(t) /\ InOrder(t)
    BY <2>3, <2>4 DEF LocksHeld, InOrder, DraftOp
  <2>6. Standing(t)
    BY <1>5, <2>3 DEF Standing, DraftOp, GenerateStands, Draftable
  <2> QED
    BY <2>2, <2>5, <2>6, BegunStep
<1> QED
  BY <1>2, <1>3, <1>4, <1>5 DEF HearDraft

\* Editing, approving or using a draft begins.
LEMMA StartDraftOpStep ==
  ASSUME ReviewInv, NEW a \in Actor, StartDraftOp(a)
  PROVE  ReviewInv'
<1>1. PICK op \in DraftOp, r \in Run : \E v \in DraftNumbers(r) :
        Start(a, op, r, v, "deciding", DraftLocks(r))
  BY DEF StartDraftOp
<1>2. PICK v \in DraftNumbers(r) : Start(a, op, r, v, "deciding", DraftLocks(r))
  BY <1>1
<1>3. v \in Nat
  BY DEF ReviewInv, TypedHistory, DraftNumbers, Draft
<1>4. PICK locks \in Seq(Row) : locks = DraftLocks(r)
  BY LocksTyped
<1>5. PICK t : Begun(a, op, r, v, "deciding", locks, t)
  BY <1>2, <1>3, <1>4, BeginStep DEF ReviewInv, Ops, Stages, Start, DraftOp
<1>6. t.op = op /\ t.run = r /\ t.arg = v /\ t.stage = "deciding"
  BY <1>5 DEF Begun
<1>7. t.held = {EntryRow(r)} /\ t.todo = <<CandidateRow, SourceRows>>
  BY <1>4, <1>5, BegunLocks DEF DraftLocks
<1>8. LocksHeld(t)
  <2>1. Wanted(t) = {EntryRow(r), CandidateRow, SourceRows}
    BY <1>7 DEF Wanted
  <2> QED
    BY <1>6, <2>1 DEF LocksHeld, DraftOp
<1>9. InOrder(t)
  BY <1>6, <1>7, Places DEF InOrder
<1>10. Standing(t)
  BY <1>6 DEF Standing, DraftOp
<1> QED
  BY <1>5, <1>8, <1>9, <1>10, BegunStep

\* A transaction that will lock the candidate or the sources begins: these keep
\* no order.
LEMMA StartCorrecting ==
  ASSUME ReviewInv, NEW a \in Actor, NEW op \in {"confirm", "correct", "source"}, NEW p \in Nat,
         NEW locks \in Seq(Row), Start(a, op, 0, p, "writing", locks), locks # <<>>,
         op # "source" => \E k \in DOMAIN locks : locks[k] = CandidateRow,
         op = "source" => \E k \in DOMAIN locks : locks[k] = SourceRows
  PROVE  ReviewInv'
<1>1. PICK t : Begun(a, op, 0, p, "writing", locks, t)
  BY BeginStep DEF ReviewInv, Ops, Stages, Start
<1>2. t.op = op /\ t.run = 0 /\ t.arg = p /\ t.stage = "writing"
  BY <1>1 DEF Begun
<1>3. {locks[k] : k \in DOMAIN locks} \subseteq Wanted(t)
  <2>1. t.todo = Tail(locks) /\ t.held = {Head(locks)}
    BY <1>1 DEF Begun
  <2>2. \A k \in DOMAIN locks : locks[k] = Head(locks)
                               \/ \E j \in DOMAIN Tail(locks) : locks[k] = Tail(locks)[j]
    BY RestIsWanted
  <2> QED
    BY <2>1, <2>2 DEF Wanted
<1>4. LocksHeld(t) /\ InOrder(t)
  BY <1>2, <1>3 DEF LocksHeld, InOrder, DraftOp, Correcting
<1>5. Standing(t)
  BY <1>2 DEF Standing, DraftOp
<1> QED
  BY <1>1, <1>4, <1>5, BegunStep

\* confirm_candidate_profile, create_corrected_profile_version and
\* update_candidate_source begin.
LEMMA StartCorrectingStep ==
  ASSUME ReviewInv, NEW a \in Actor, StartConfirm(a) \/ StartCorrect(a) \/ StartSource(a)
  PROVE  ReviewInv'
<1>1. versions \in Nat
  BY ReviewAssumption DEF ReviewInv, TypedInputs
<1>2. CASE StartConfirm(a)
  <2>1. PICK p \in 1..versions : Start(a, "confirm", 0, p, "writing", ProfileLocks(p))
    BY <1>2 DEF StartConfirm
  <2>2. p \in Nat
    BY <1>1, <2>1
  <2>3. PICK locks \in Seq(Row) : locks = ProfileLocks(p)
    BY <2>2, LocksTyped
  <2>4. 2 \in DOMAIN locks /\ locks[2] = CandidateRow /\ locks # <<>>
    BY <2>3 DEF ProfileLocks
  <2> QED
    BY <2>1, <2>2, <2>3, <2>4, StartCorrecting
<1>3. CASE StartCorrect(a)
  <2>1. PICK p \in 1..versions : Start(a, "correct", 0, p, "writing", CorrectLocks(p))
    BY <1>3 DEF StartCorrect
  <2>2. p \in Nat
    BY <1>1, <2>1
  <2>3. PICK locks \in Seq(Row) : locks = CorrectLocks(p)
    BY <2>2, LocksTyped
  <2>4. 2 \in DOMAIN locks /\ locks[2] = CandidateRow /\ locks # <<>>
    BY <2>3 DEF CorrectLocks
  <2> QED
    BY <2>1, <2>2, <2>3, <2>4, StartCorrecting
<1>4. CASE StartSource(a)
  <2>1. PICK locks \in Seq(Row) : locks = SourceLocks
    BY LocksTyped
  <2>2. 1 \in DOMAIN locks /\ locks[1] = SourceRows /\ locks # <<>>
    BY <2>1 DEF SourceLocks
  <2> QED
    BY <1>4, <2>1, <2>2, StartCorrecting DEF StartSource
<1> QED
  BY <1>2, <1>3, <1>4

\* Who has nothing left to lock is in order.
LEMMA LastInOrder ==
  ASSUME NEW t, t.todo = <<>>
  PROVE  InOrder(t)
BY DEF InOrder

\* A transaction of one lock begins: what it checks first stands from then on.
LEMMA StartSingle ==
  ASSUME ReviewInv, NEW a \in Actor,
         NEW op \in {"update", "request", "cancel", "delete vacancy"},
         NEW locks \in Seq(Row), Start(a, op, 0, 0, "writing", locks),
         locks # <<>>, Tail(locks) = <<>>,
         op # "delete vacancy" => Head(locks) = CandidateRow,
         op = "delete vacancy" => Head(locks) = VacancyRow,
         op \in {"update", "request"} => status = "active",
         op = "cancel" => status = "requested"
  PROVE  ReviewInv'
<1>1. PICK t : Begun(a, op, 0, 0, "writing", locks, t)
  BY BeginStep DEF ReviewInv, Ops, Stages, Start
<1>2. t.op = op /\ t.run = 0 /\ t.arg = 0 /\ t.stage = "writing"
  BY <1>1 DEF Begun
<1>3. t.held = {Head(locks)} /\ t.todo = <<>>
  BY <1>1 DEF Begun
<1>4. LocksHeld(t)
  BY <1>2, <1>3 DEF LocksHeld, DraftOp
<1>5. InOrder(t)
  BY <1>3, LastInOrder
<1>6. Standing(t)
  BY <1>2 DEF Standing, DraftOp
<1> QED
  BY <1>1, <1>4, <1>5, <1>6, BegunStep

\* Edits of the candidate, deletion requests, cancellations and the deletion of
\* the vacancy begin.
LEMMA StartChangeStep ==
  ASSUME ReviewInv, NEW a \in Actor, StartChange(a) \/ StartCancel(a)
  PROVE  ReviewInv'
<1>1. PICK first \in Seq(Row) : first = <<CandidateRow>>
  BY LocksTyped
<1>2. PICK other \in Seq(Row) : other = <<VacancyRow>>
  BY LocksTyped
<1>3. /\ first # <<>> /\ Tail(first) = <<>> /\ Head(first) = CandidateRow
      /\ other # <<>> /\ Tail(other) = <<>> /\ Head(other) = VacancyRow
  BY <1>1, <1>2
<1>4. CASE status = "requested" /\ Start(a, "cancel", 0, 0, "writing", first)
  BY <1>3, <1>4, StartSingle
<1>5. CASE status = "active" /\ Start(a, "update", 0, 0, "writing", first)
  BY <1>3, <1>5, StartSingle
<1>6. CASE status = "active" /\ Start(a, "request", 0, 0, "writing", first)
  BY <1>3, <1>6, StartSingle
<1>7. CASE Start(a, "delete vacancy", 0, 0, "writing", other)
  BY <1>3, <1>7, StartSingle
<1> QED
  BY <1>1, <1>2, <1>4, <1>5, <1>6, <1>7 DEF StartChange, StartCancel, Editable

-----------------------------------------------------------------------------
(* Deletions. *)

\* The elements of two sequences put together.
LEMMA Concat ==
  ASSUME NEW s \in Seq(Row), NEW u \in Seq(Row)
  PROVE  /\ s \o u \in Seq(Row) /\ Len(s \o u) = Len(s) + Len(u)
         /\ \A i \in 1 .. Len(s) : (s \o u)[i] = s[i]
         /\ \A i \in 1 .. Len(u) : (s \o u)[Len(s) + i] = u[i]
OBVIOUS

\* The first row of a list and the last one added to it.
LEMMA Ends ==
  ASSUME NEW u \in Seq(Row), NEW z \in Seq(Row), Len(u) # 0, Len(z) = 1
  PROVE  /\ u \o z \in Seq(Row) /\ u \o z # <<>> /\ Head(u \o z) = u[1]
         /\ \E k \in DOMAIN Tail(u \o z) : Tail(u \o z)[k] = z[1]
<1>1. PICK s : s = u \o z
  OBVIOUS
<1>2. 1 \in 1..Len(u) /\ 1 \in 1..Len(z) /\ Len(u) \in Nat
  OBVIOUS
<1>3. s \in Seq(Row) /\ Len(s) = Len(u) + 1 /\ s[1] = u[1] /\ s[Len(u) + 1] = z[1]
  BY <1>1, <1>2, Concat
<1>4. s # <<>> /\ Head(s) = s[1]
  BY <1>2, <1>3
<1>5. Len(u) \in DOMAIN Tail(s) /\ Tail(s)[Len(u)] = s[Len(u) + 1]
  BY <1>2, <1>3
<1> QED
  BY <1>1, <1>3, <1>4, <1>5

\* A list of one row.
LEMMA Single ==
  ASSUME NEW row \in Row
  PROVE  <<row>> \in Seq(Row) /\ Len(<<row>>) = 1 /\ <<row>>[1] = row
OBVIOUS

\* The rows of a candidate's profiles are a list of rows.
LEMMA ProfilesTyped ==
  ASSUME NEW n \in Nat
  PROVE  [p \in 1..n |-> ProfileRow(p)] \in Seq(Row)
<1>1. [p \in 1..n |-> ProfileRow(p)] \in [1..n -> Row]
  BY RowsTyped
<1>2. \A f \in [1..n -> Row] : f \in Seq(Row)
  OBVIOUS
<1> QED
  BY <1>1, <1>2

\* A purge locks the candidate first and the sources last.
LEMMA PurgeLocksTyped ==
  ASSUME NEW n \in Nat
  PROVE  \A locks : locks = <<CandidateRow>> \o [p \in 1..n |-> ProfileRow(p)] \o <<SourceRows>> =>
           /\ locks \in Seq(Row) /\ locks # <<>> /\ Head(locks) = CandidateRow
           /\ \E k \in DOMAIN Tail(locks) : Tail(locks)[k] = SourceRows
<1>1. CandidateRow \in Row /\ SourceRows \in Row
  BY RowsTyped
<1>2. PICK x \in Seq(Row) : x = <<CandidateRow>>
  BY <1>1, Single
<1>3. PICK z \in Seq(Row) : z = <<SourceRows>>
  BY <1>1, Single
<1>4. PICK y \in Seq(Row) : y = [p \in 1..n |-> ProfileRow(p)]
  BY ProfilesTyped
<1>5. Len(x) = 1 /\ x[1] = CandidateRow /\ Len(z) = 1 /\ z[1] = SourceRows
  BY <1>1, <1>2, <1>3, Single
<1>6. PICK u : u = x \o y
  OBVIOUS
<1>7. u \in Seq(Row) /\ Len(u) # 0 /\ u[1] = x[1]
  <2>1. 1 \in 1..Len(x) /\ Len(y) \in Nat
    BY <1>5
  <2> QED
    BY <1>5, <1>6, <2>1, Concat
<1>8. /\ u \o z \in Seq(Row) /\ u \o z # <<>> /\ Head(u \o z) = CandidateRow
      /\ \E k \in DOMAIN Tail(u \o z) : Tail(u \o z)[k] = SourceRows
  BY <1>5, <1>6, <1>7, Ends
<1>9. u \o z = <<CandidateRow>> \o [p \in 1..n |-> ProfileRow(p)] \o <<SourceRows>>
  BY <1>2, <1>3, <1>4, <1>6
<1> QED
  BY <1>8, <1>9

\* delete_candidate checks the candidate under its lock.
LEMMA CheckPurgeStep ==
  ASSUME ReviewInv, NEW a \in Actor, CheckPurge(a)
  PROVE  ReviewInv'
<1>1. versions \in Nat
  BY ReviewAssumption DEF ReviewInv, TypedInputs
<1>2. PICK locks : locks = <<CandidateRow>> \o [p \in 1..versions |-> ProfileRow(p)] \o <<SourceRows>>
  OBVIOUS
<1>3. /\ locks \in Seq(Row) /\ locks # <<>> /\ Head(locks) = CandidateRow
      /\ \E k \in DOMAIN Tail(locks) : Tail(locks)[k] = SourceRows
  BY <1>1, <1>2, PurgeLocksTyped
<1>4. PICK t : Begun(a, "purge", 0, 0, "collecting", locks, t)
  BY <1>2, <1>3, BeginStep DEF ReviewInv, Ops, Stages, Start, CheckPurge
<1>5. /\ t.op = "purge" /\ t.run = 0 /\ t.stage = "collecting"
      /\ t.held = {CandidateRow} /\ t.todo = Tail(locks)
  BY <1>3, <1>4 DEF Begun
<1>6. {CandidateRow, SourceRows} \subseteq Wanted(t)
  BY <1>3, <1>5 DEF Wanted
<1>7. LocksHeld(t) /\ InOrder(t)
  BY <1>5, <1>6 DEF LocksHeld, InOrder, DraftOp, Correcting
<1>8. Standing(t)
  BY <1>5 DEF Standing, DraftOp
<1> QED
  BY <1>4, <1>7, <1>8, BegunStep

\* The entries of the candidate can be counted.
LEMMA EntriesFinite == Cardinality(Entries) \in Nat
<1>1. IsFiniteSet(Run) /\ Entries \subseteq Run
  BY ReviewAssumption DEF Entries
<1> QED
  BY <1>1, FS_Subset, FS_CardinalityType

\* delete_candidate collects what hangs on the candidate's entries.
LEMMA CollectPurgeStep ==
  ASSUME ReviewInv, NEW a \in Actor, CollectPurge(a)
  PROVE  ReviewInv'
<1>1. /\ txn[a] \in Txn(txn[a].seen) /\ LocksHeld(txn[a]) /\ Standing(txn[a])
      /\ txn[a].op = "purge" /\ txn[a].todo = <<>>
  BY DEF ReviewInv, TypedTxn, CollectPurge, Ready
<1>2. PICK seen : seen = [r \in Entries |-> Rows(r)]
  OBVIOUS
<1>3. PICK order \in InIdOrder(Entries) :
        txn' = [txn EXCEPT ![a].stage = "writing", ![a].seen = [r \in Entries |-> Rows(r)],
                           ![a].todo = [k \in DOMAIN order |-> EntryRow(order[k])]]
  BY DEF CollectPurge
<1>4. PICK todo : todo = [k \in DOMAIN order |-> EntryRow(order[k])]
  OBVIOUS
<1>5. DOMAIN order = 1..Cardinality(Entries) /\ (\A k \in DOMAIN order : order[k] \in Entries)
      /\ \A r \in Entries : \E k \in DOMAIN order : order[k] = r
  BY DEF InIdOrder
<1>6. todo \in Seq(Row) /\ DOMAIN todo = DOMAIN order
      /\ \A k \in DOMAIN order : todo[k] = EntryRow(order[k])
  <2>1. todo \in [1..Cardinality(Entries) -> Row]
    BY <1>4, <1>5, RowsTyped DEF Entries
  <2>2. \A n \in Nat : \A f \in [1..n -> Row] : f \in Seq(Row)
    OBVIOUS
  <2> QED
    BY <1>4, <2>1, <2>2, EntriesFinite
<1>7. PICK t : t = [txn[a] EXCEPT !.stage = "writing", !.seen = seen, !.todo = todo]
  OBVIOUS
<1>8. /\ t.op = "purge" /\ t.run = txn[a].run /\ t.arg = txn[a].arg /\ t.stage = "writing"
      /\ t.held = txn[a].held /\ t.todo = todo /\ t.seen = seen
  BY <1>1, <1>7 DEF Txn
<1>9. t \in Txn(t.seen)
  BY <1>1, <1>6, <1>7, <1>8 DEF Txn, Stages
<1>10. txn' = [txn EXCEPT ![a] = t]
  BY <1>1, <1>2, <1>3, <1>4, <1>7 DEF ReviewInv, TypedTxn, Txn
<1>11. \A b \in Actor : b # a => t.held \cap txn[b].held = {}
  BY <1>8 DEF ReviewInv, Apart
<1>12. {CandidateRow, SourceRows} \subseteq t.held
  BY <1>1, <1>8 DEF LocksHeld, Wanted
<1>13. DOMAIN seen = Entries
  BY <1>2
<1>14. \A r \in DOMAIN t.seen : EntryRow(r) \in Wanted(t)
  BY <1>5, <1>6, <1>8, <1>13 DEF Wanted
<1>15. LocksHeld(t) /\ InOrder(t)
  BY <1>8, <1>12, <1>14 DEF LocksHeld, InOrder, DraftOp, Correcting, Wanted
<1>16. \A r \in Run \ DOMAIN t.seen : Rows(r) = Nothing
  BY <1>8, <1>13 DEF ReviewInv, RowsNeedEntry, Entries
<1>17. Standing(t)
  BY <1>8, <1>13, <1>16 DEF Standing, DraftOp, Entries
<1>18. Quiet
  BY DEF CollectPurge, Quiet
<1> QED
  BY <1>9, <1>10, <1>11, <1>15, <1>17, <1>18, SetStep

\* build_retention_plan chooses runs and chains under the organization lock.
LEMMA PlanRetentionStep ==
  ASSUME ReviewInv, NEW a \in Actor, PlanRetention(a)
  PROVE  ReviewInv'
<1>1. PICK locks \in Seq(Row) : locks = <<Organization>>
  BY LocksTyped
<1>2. PICK r \in Run :
        \/ Obsolete(r) /\ Start(a, "retain run", r, 0, "collecting", <<Organization>>)
        \/ /\ Abandoned(r) /\ ~Obsolete(r)
           /\ Start(a, "retain chain", r, 0, "collecting", <<Organization>>)
  BY DEF PlanRetention
<1>3. PICK op : /\ op \in {"retain run", "retain chain"}
                /\ op = "retain run" => Obsolete(r)
                /\ Start(a, op, r, 0, "collecting", <<Organization>>)
  BY <1>2
<1>4. PICK t : Begun(a, op, r, 0, "collecting", locks, t)
  BY <1>1, <1>3, BeginStep DEF ReviewInv, Ops, Stages, Start
<1>5. t.op = op /\ t.run = r /\ t.stage = "collecting"
  BY <1>4 DEF Begun
<1>6. t.held = {Organization} /\ t.todo = <<>>
  BY <1>1, <1>4, BegunLocks
<1>7. LocksHeld(t) /\ InOrder(t)
  <2>1. LocksHeld(t)
    BY <1>3, <1>5, <1>6 DEF LocksHeld, DraftOp
  <2>2. InOrder(t)
    BY <1>6 DEF InOrder
  <2> QED
    BY <2>1, <2>2
<1>8. op = "retain run" => run[r] # None
  <2>1. None.exists = FALSE
    BY DEF None
  <2> QED
    BY <1>3, <2>1 DEF Obsolete
<1>9. Standing(t)
  BY <1>3, <1>5, <1>8 DEF Standing, DraftOp
<1> QED
  BY <1>4, <1>7, <1>9, BegunStep

\* apply_retention_plan collects the rows it is going to delete.
LEMMA CollectRetentionStep ==
  ASSUME ReviewInv, NEW a \in Actor, CollectRetention(a)
  PROVE  ReviewInv'
<1>1. /\ txn[a] \in Txn(txn[a].seen) /\ LocksHeld(txn[a]) /\ Standing(txn[a])
      /\ txn[a].op \in {"retain run", "retain chain"} /\ txn[a].todo = <<>>
      /\ txn[a].stage = "collecting"
  BY DEF ReviewInv, TypedTxn, CollectRetention, Ready
<1>2. PICK r \in Run : r = txn[a].run
  BY <1>1 DEF Standing
<1>3. PICK seen : seen = Rows(r)
  OBVIOUS
<1>4. PICK todo : todo = IF txn[a].op = "retain run" /\ HasEntry(r) THEN <<EntryRow(r)>> ELSE <<>>
  OBVIOUS
<1>5. todo \in Seq(Row) /\ \A k \in DOMAIN todo : k = 1 /\ todo[k] = EntryRow(r)
  <2>1. CASE todo = <<EntryRow(r)>>
    BY <2>1, RowsTyped
  <2>2. CASE todo = <<>>
    BY <2>2
  <2> QED
    BY <1>4, <2>1, <2>2
<1>6. PICK t : t = [txn[a] EXCEPT !.stage = "writing", !.seen = seen, !.todo = todo]
  OBVIOUS
<1>7. /\ t.op = txn[a].op /\ t.run = r /\ t.arg = txn[a].arg /\ t.stage = "writing"
      /\ t.held = txn[a].held /\ t.todo = todo /\ t.seen = seen
  BY <1>1, <1>2, <1>6 DEF Txn
<1>8. t \in Txn(t.seen)
  BY <1>1, <1>5, <1>6, <1>7 DEF Txn, Stages
<1>9. txn' = [txn EXCEPT ![a].stage = "writing", ![a].seen = seen, ![a].todo = todo]
  BY <1>2, <1>3, <1>4 DEF CollectRetention
<1>10. txn' = [txn EXCEPT ![a] = t]
  BY <1>1, <1>6, <1>9 DEF ReviewInv, TypedTxn, Txn
<1>11. \A b \in Actor : b # a => t.held \cap txn[b].held = {}
  BY <1>7 DEF ReviewInv, Apart
<1>12. LocksHeld(t)
  BY <1>1, <1>7 DEF LocksHeld, DraftOp
<1>13. InOrder(t)
  <2>1. t.held = {Organization} /\ \A k \in DOMAIN t.todo : k = 1 /\ t.todo[k] = EntryRow(r)
    <3>1. t.held = {Organization}
      BY <1>1, <1>7 DEF LocksHeld
    <3> QED
      BY <1>5, <1>7, <3>1
  <2> QED
    BY <2>1, Places DEF InOrder
<1>14. ASSUME t.op = "retain run", HasEntry(r)
       PROVE  EntryRow(r) \in Wanted(t)
  <2>1. t.todo = <<EntryRow(r)>>
    BY <1>4, <1>7, <1>14
  <2> QED
    BY <2>1 DEF Wanted
<1>15. Standing(t)
  <2>1. Len(seen.used) \in Nat
    <3>1. used[r] \in Seq(Nat) /\ seen.used = used[r]
      BY <1>3 DEF ReviewInv, TypedHistory, Rows
    <3> QED
      BY <3>1
  <2> QED
    BY <1>1, <1>2, <1>7, <1>14, <2>1 DEF Standing, DraftOp
<1>16. Quiet
  BY DEF CollectRetention, Quiet
<1> QED
  BY <1>8, <1>10, <1>11, <1>12, <1>13, <1>15, <1>16, SetStep

-----------------------------------------------------------------------------
(* The checks under lock. *)

\* assess_shortlist_entry checks again under its locks.
LEMMA CheckAssessStep ==
  ASSUME ReviewInv, NEW a \in Actor, CheckAssess(a)
  PROVE  ReviewInv'
<1>1. txn[a].op = "assess" /\ txn[a].stage = "deciding" /\ txn[a].todo = <<>>
  BY DEF CheckAssess, Ready
<1>2. CASE Refuse(a)
  BY <1>2, RefuseStep
<1>3. CASE /\ HasEntry(txn[a].run) /\ status = "active" /\ CurrentProfile = txn[a].arg
           /\ ~Stale(txn[a].run) /\ Proceed(a, "writing", <<>>)
  <2>1. AssessStands(txn[a].run, txn[a].arg)
    BY <1>3 DEF AssessStands, Stale
  <2> QED
    BY <1>1, <1>3, <2>1, WritingStep DEF DraftOp
<1> QED
  BY <1>2, <1>3 DEF CheckAssess, Checked

\* A draft is checked under the locks on entry, candidate and sources.
LEMMA CheckDraftOpStep ==
  ASSUME ReviewInv, NEW a \in Actor, CheckDraftOp(a)
  PROVE  ReviewInv'
<1>1. txn[a].op \in DraftOp /\ txn[a].stage = "deciding" /\ txn[a].todo = <<>>
  BY DEF CheckDraftOp, Ready
<1>2. CASE Refuse(a)
  BY <1>2, RefuseStep
<1>3. CASE Allowed(txn[a].op, txn[a].run, txn[a].arg) /\ Proceed(a, "writing", <<>>)
  <2>1. DraftOpStands(txn[a].op, txn[a].run, txn[a].arg)
    BY <1>1, <1>3 DEF DraftOpStands, Allowed, CurrentDraft, Draftable, Decidable, Stale, Backing,
                      DraftOp
  <2> QED
    BY <1>1, <1>3, <2>1, WritingStep DEF DraftOp
<1> QED
  BY <1>2, <1>3 DEF CheckDraftOp, Checked

-----------------------------------------------------------------------------
(* The reads of a shortlist. *)

ShortlistRun == [exists : {TRUE}, requirement : 1..MaxRequirement, input : Input,
                 ranked : 0..MaxProfile, entry : BOOLEAN]

\* A shortlist holds no rows: what it saw is all that matters.
LEMMA SeesStep ==
  ASSUME ReviewInv, NEW a \in Actor, NEW t, t \in Txn(t.seen), txn' = [txn EXCEPT ![a] = t],
         Quiet, t.op = "shortlist", t.held = {}, t.todo = <<>>, ShortlistStands(t)
  PROVE  ReviewInv'
<1>1. LocksHeld(t) /\ InOrder(t) /\ Standing(t)
  BY DEF LocksHeld, InOrder, Standing, DraftOp
<1> QED
  BY <1>1, SetStep

\* A shortlist being made holds no lock.
LEMMA ShortlistFacts ==
  ASSUME ReviewInv, NEW a \in Actor, txn[a].op = "shortlist"
  PROVE  /\ txn[a] \in Txn(txn[a].seen) /\ txn[a].held = {} /\ txn[a].todo = <<>>
         /\ ShortlistStands(txn[a]) /\ txn[a].seen \in ShortlistRun
<1>1. /\ txn[a] \in Txn(txn[a].seen) /\ LocksHeld(txn[a]) /\ Standing(txn[a])
  BY DEF ReviewInv, TypedTxn
<1> QED
  BY <1>1 DEF LocksHeld, Standing, ShortlistStands, ShortlistRun

\* generate_shortlist begins.
LEMMA StartShortlistStep ==
  ASSUME ReviewInv, NEW a \in Actor, StartShortlist(a)
  PROVE  ReviewInv'
<1>1. PICK seen : seen = [exists |-> TRUE, requirement |-> requirement, input |-> NoInput,
                          ranked |-> 0, entry |-> FALSE]
  OBVIOUS
<1>2. PICK t : t = [Idle EXCEPT !.op = "shortlist", !.stage = "candidates", !.seen = seen]
  OBVIOUS
<1>3. /\ t.op = "shortlist" /\ t.run = 0 /\ t.arg = 0 /\ t.stage = "candidates"
      /\ t.held = {} /\ t.todo = <<>> /\ t.seen = seen
  BY <1>2 DEF Idle
<1>4. <<>> \in Seq(Row)
  OBVIOUS
<1>5. t \in Txn(t.seen)
  BY <1>2, <1>3, <1>4 DEF Idle, Txn, Ops, Stages
<1>6. txn' = [txn EXCEPT ![a] = t]
  BY <1>1, <1>2 DEF StartShortlist
<1>7. NoInput \in Input /\ requirement \in 1..MaxRequirement /\ 0 \in 0..MaxProfile
  BY ReviewAssumption DEF Input, ReviewInv, TypedInputs
<1>8. seen \in ShortlistRun /\ seen.input = NoInput /\ ~seen.entry /\ seen.ranked = 0
  BY <1>1, <1>7 DEF ShortlistRun
<1>9. ShortlistStands(t)
  BY <1>3, <1>8 DEF ShortlistStands, ShortlistRun
<1>10. Quiet
  BY DEF StartShortlist, Quiet
<1> QED
  BY <1>3, <1>5, <1>6, <1>9, <1>10, SeesStep

\* What one query of a shortlist adds to what it has read.
LEMMA SeeStep ==
  ASSUME ReviewInv, NEW a \in Actor, txn[a].op = "shortlist", txn[a].stage # "writing",
         NEW stage, stage \in {"skills", "profiles", "ranking"}, NEW value, value \in Input \ {NoInput},
         See(a, stage, "input", value),
         stage = "ranking" /\ status # "deleted" => value.profile <= CurrentProfile
  PROVE  ReviewInv'
<1>1. /\ txn[a] \in Txn(txn[a].seen) /\ txn[a].held = {} /\ txn[a].todo = <<>>
      /\ ShortlistStands(txn[a]) /\ txn[a].seen \in ShortlistRun
  BY ShortlistFacts
<1>2. PICK seen : seen = [txn[a].seen EXCEPT !.input = value]
  OBVIOUS
<1>3. PICK t : t = [txn[a] EXCEPT !.stage = stage, !.seen = seen]
  OBVIOUS
<1>4. /\ seen \in ShortlistRun /\ seen.input = value /\ seen.entry = txn[a].seen.entry
      /\ seen.ranked = txn[a].seen.ranked
  BY <1>1, <1>2 DEF ShortlistRun
<1>5. /\ t.op = "shortlist" /\ t.stage = stage /\ t.held = {} /\ t.todo = <<>> /\ t.seen = seen
  BY <1>1, <1>3 DEF Txn
<1>6. t \in Txn(t.seen)
  BY <1>1, <1>3, <1>5 DEF Txn, Stages
<1>7. txn' = [txn EXCEPT ![a].stage = stage, ![a].seen.input = value]
  BY DEF See
<1>8. txn' = [txn EXCEPT ![a] = t]
  BY <1>1, <1>2, <1>3, <1>7 DEF ReviewInv, TypedTxn, Txn
<1>9. ShortlistStands(t)
  BY <1>1, <1>4, <1>5 DEF ShortlistStands, ShortlistRun
<1>10. Quiet
  BY DEF See, Quiet
<1> QED
  BY <1>5, <1>6, <1>8, <1>9, <1>10, SeesStep

\* filter_candidates reads the candidates.
LEMMA ReadCandidatesStep ==
  ASSUME ReviewInv, NEW a \in Actor, ReadCandidates(a)
  PROVE  ReviewInv'
<1>1. /\ txn[a].op = "shortlist" /\ txn[a].stage = "candidates" /\ txn[a].todo = <<>>
  BY DEF ReadCandidates, Ready
<1>2. ShortlistStands(txn[a])
  BY <1>1, ShortlistFacts
<1>3. CASE Refuse(a)
  BY <1>3, RefuseStep
<1>4. CASE Proceed(a, "writing", <<>>)
  BY <1>1, <1>2, <1>4, WritingStep DEF ShortlistStands, DraftOp
<1>5. CASE See(a, "skills", "input", Signature(facts, 0, 0))
  <2>1. PICK value : value = Signature(facts, 0, 0)
    OBVIOUS
  <2>2. value \in Input \ {NoInput}
    BY <2>1, ReviewAssumption DEF Signature, Input, NoInput, ReviewInv, TypedInputs
  <2> QED
    BY <1>1, <1>5, <2>1, <2>2, SeeStep
<1> QED
  BY <1>3, <1>4, <1>5 DEF ReadCandidates

\* filter_candidates reads their skills.
LEMMA ReadSkillsStep ==
  ASSUME ReviewInv, NEW a \in Actor, ReadSkills(a)
  PROVE  ReviewInv'
<1>1. /\ txn[a].op = "shortlist" /\ txn[a].stage = "skills"
  BY DEF ReadSkills, Ready
<1>2. ShortlistStands(txn[a])
  BY <1>1, ShortlistFacts
<1>3. PICK i \in Input \ {NoInput} : i = txn[a].seen.input
  BY <1>1, <1>2 DEF ShortlistStands
<1>4. PICK value : value = [i EXCEPT !.skills = CurrentProfile]
  OBVIOUS
<1>5. CurrentProfile \in 0..MaxProfile
  BY CurrentIsNewest DEF ReviewInv
<1>6. value \in Input \ {NoInput}
  BY <1>4, <1>5 DEF Input, NoInput
<1>7. See(a, "profiles", "input", value)
  BY <1>3, <1>4 DEF ReadSkills
<1> QED
  BY <1>1, <1>6, <1>7, SeeStep

\* filter_candidates reads their profiles.
LEMMA ReadProfilesStep ==
  ASSUME ReviewInv, NEW a \in Actor, ReadProfiles(a)
  PROVE  ReviewInv'
<1>1. /\ txn[a].op = "shortlist" /\ txn[a].stage = "profiles"
  BY DEF ReadProfiles, Ready
<1>2. ShortlistStands(txn[a])
  BY <1>1, ShortlistFacts
<1>3. PICK i \in Input \ {NoInput} : i = txn[a].seen.input
  BY <1>1, <1>2 DEF ShortlistStands
<1>4. PICK value : value = [i EXCEPT !.profile = CurrentProfile]
  OBVIOUS
<1>5. CurrentProfile \in 0..MaxProfile /\ CurrentProfile \in Nat
  BY CurrentIsNewest, CurrentIsNumber DEF ReviewInv
<1>6. value \in Input \ {NoInput} /\ value.profile = CurrentProfile
  BY <1>3, <1>4, <1>5 DEF Input, NoInput
<1>7. See(a, "ranking", "input", value)
  BY <1>3, <1>4 DEF ReadProfiles
<1> QED
  BY <1>1, <1>5, <1>6, <1>7, SeeStep

\* score_candidate_relevance ranks by the profile that is current then.
LEMMA RankStep ==
  ASSUME ReviewInv, NEW a \in Actor, Rank(a)
  PROVE  ReviewInv'
<1>1. /\ txn[a].op = "shortlist" /\ txn[a].stage = "ranking"
  BY DEF Rank, Ready
<1>2. /\ txn[a] \in Txn(txn[a].seen) /\ txn[a].held = {} /\ txn[a].todo = <<>>
      /\ ShortlistStands(txn[a]) /\ txn[a].seen \in ShortlistRun
  BY <1>1, ShortlistFacts
<1>3. PICK old \in ShortlistRun : old = txn[a].seen
  BY <1>2
<1>4. PICK passed \in BOOLEAN : passed = Eligible(old.requirement, old.input.profile, old.input.facts)
  BY DEF Eligible
<1>5. PICK ranked : ranked = IF passed THEN CurrentProfile ELSE 0
  OBVIOUS
<1>6. CurrentProfile \in 0..MaxProfile /\ CurrentProfile \in Nat /\ ranked \in 0..MaxProfile
  BY <1>5, CurrentIsNewest, CurrentIsNumber, ReviewAssumption DEF ReviewInv
<1>7. PICK seen : seen = [old EXCEPT !.entry = passed, !.ranked = ranked]
  OBVIOUS
<1>8. /\ seen \in ShortlistRun /\ seen.input = old.input /\ seen.requirement = old.requirement
      /\ seen.entry = passed /\ seen.ranked = ranked
  BY <1>6, <1>7 DEF ShortlistRun
<1>9. PICK t : t = [txn[a] EXCEPT !.stage = "writing", !.seen = seen]
  OBVIOUS
<1>10. /\ t.op = "shortlist" /\ t.stage = "writing" /\ t.held = {} /\ t.todo = <<>>
       /\ t.seen = seen
  BY <1>1, <1>2, <1>9 DEF Txn
<1>11. t \in Txn(t.seen)
  BY <1>2, <1>9, <1>10 DEF Txn, Stages
<1>12. txn' = [txn EXCEPT ![a].stage = "writing", ![a].seen.entry = passed,
                          ![a].seen.ranked = ranked]
  BY <1>3, <1>4, <1>5 DEF Rank
<1>13. txn' = [txn EXCEPT ![a] = t]
  BY <1>2, <1>3, <1>7, <1>9, <1>12 DEF ReviewInv, TypedTxn, Txn, ShortlistRun
<1>14. Sound(seen)
  BY <1>1, <1>2, <1>3, <1>4, <1>5, <1>6, <1>8 DEF Sound, ShortlistStands
<1>15. ShortlistStands(t)
  BY <1>8, <1>10, <1>14 DEF ShortlistStands, ShortlistRun
<1>16. Quiet
  BY DEF Rank, Quiet
<1> QED
  BY <1>10, <1>11, <1>13, <1>15, <1>16, SeesStep

-----------------------------------------------------------------------------
(* Writes that end a transaction. *)

\* A transaction that writes and ends, sparing what others hold.
LEMMA WriteStep ==
  ASSUME ReviewInv, NEW a \in Actor, End(a), RowsStand,
         \A b \in Actor : b # a => Spares(txn[b].held)
  PROVE  ReviewInv'
<1>1. Alone(a) /\ ApartFrom(a) /\ txn'[a] = Idle
  BY EndAlone DEF ReviewInv
<1> QED
  BY <1>1, IdleStandsAfter, TxnStep

SameInputs == UNCHANGED <<inputs, changes>>

\* A step on the rows of entries leaves the inputs.
LEMMA InputsStay ==
  ASSUME ReviewInv, SameInputs
  PROVE  /\ TypedInputs' /\ CurrentProfile' = CurrentProfile /\ CurrentProfile \in Nat
         /\ requirement' = requirement /\ vacancyDeleted' = vacancyDeleted /\ status' = status
         /\ facts' = facts /\ versions' = versions /\ confirmed' = confirmed
         /\ permitted' = permitted
         /\ \A s : Sound(s) => Sound(s)'
<1>1. /\ requirement' = requirement /\ vacancyDeleted' = vacancyDeleted /\ status' = status
      /\ facts' = facts /\ versions' = versions /\ confirmed' = confirmed
      /\ permitted' = permitted /\ changes' = changes
  BY DEF SameInputs, inputs
<1>2. CurrentProfile' = CurrentProfile /\ CurrentProfile \in Nat
  BY <1>1, CurrentInputStays, CurrentIsNumber DEF ReviewInv
<1>3. TypedInputs'
  BY <1>1 DEF ReviewInv, TypedInputs
<1>4. \A s : Sound(s) => Sound(s)'
  BY <1>1, <1>2 DEF Sound
<1> QED
  BY <1>1, <1>2, <1>3, <1>4

\* A step that adds rows to the entry of r only, with the entry locked.
AddsTo(a, r) ==
  /\ SameInputs /\ run' = run /\ End(a)
  /\ EntryRow(r) \in txn[a].held /\ HasEntry(r)
  /\ Rows(r) # Nothing \/ (status = "active" /\ CandidateRow \in txn[a].held)
  /\ \A s \in Run \ {r} : /\ assessments'[s] = assessments[s] /\ decisions'[s] = decisions[s]
                          /\ drafts'[s] = drafts[s] /\ approved'[s] = approved[s]
                          /\ used'[s] = used[s]

\* A transaction that holds an entry adds a row to it.
LEMMA AddStep ==
  ASSUME ReviewInv, NEW a \in Actor, NEW r \in Run, AddsTo(a, r),
         TypedHistory', Bounded(r)', Linked(r)'
  PROVE  ReviewInv'
<1>1. /\ TypedInputs' /\ CurrentProfile' = CurrentProfile /\ CurrentProfile \in Nat
      /\ vacancyDeleted' = vacancyDeleted /\ status' = status /\ facts' = facts
      /\ versions' = versions /\ confirmed' = confirmed /\ permitted' = permitted
      /\ \A s : Sound(s) => Sound(s)'
  BY InputsStay DEF AddsTo
<1>2. \A s \in Run : HasEntry(s)' <=> HasEntry(s)
  BY DEF AddsTo, HasEntry
<1>3. SoundRuns'
  BY <1>1 DEF ReviewInv, SoundRuns, AddsTo
<1>4. PurgedLeavesNoReview'
  <2>1. ASSUME status' = "deleted", NEW s \in Run
        PROVE  Rows(s)' = Nothing
    <3>1. Rows(s) = Nothing
      BY <1>1, <2>1 DEF ReviewInv, PurgedLeavesNoReview
    <3>2. s # r
      BY <1>1, <2>1, <3>1 DEF AddsTo
    <3> QED
      BY <3>1, <3>2 DEF AddsTo, Rows
  <2> QED
    BY <1>1, <2>1 DEF ReviewInv, PurgedLeavesNoReview
<1>5. ASSUME NEW s \in Run \ {r}
      PROVE  Bounded(s)' /\ Linked(s)' /\ RowsNeedEntry(s)'
  <2>1. Rows(s)' = Rows(s)
    BY DEF AddsTo, Rows
  <2>2. Bounded(s)' /\ Linked(s)'
    BY DEF AddsTo, ReviewInv, Bounded, Linked, DraftNumbers
  <2> QED
    BY <1>2, <2>1, <2>2 DEF ReviewInv, RowsNeedEntry
<1>6. RowsNeedEntry(r)'
  BY <1>2 DEF AddsTo, RowsNeedEntry
<1>7. RowsStand
  BY <1>1, <1>3, <1>4, <1>5, <1>6 DEF RowsStand
<1>8. ASSUME NEW b \in Actor, b # a
      PROVE  Spares(txn[b].held)
  <2>1. EntryRow(r) \notin txn[b].held
    BY <1>8 DEF ReviewInv, Apart, AddsTo
  <2>2. ASSUME CandidateRow \in txn[b].held, NEW s \in Run, Rows(s) = Nothing
        PROVE  Rows(s)' = Nothing
    <3>1. CandidateRow \notin txn[a].held
      BY <1>8, <2>2 DEF ReviewInv, Apart
    <3>2. s # r
      BY <2>2, <3>1 DEF AddsTo
    <3> QED
      BY <2>2, <3>2 DEF AddsTo, Rows
  <2> QED
    BY <1>1, <1>2, <2>1, <2>2, RowsDiffer DEF Spares, AddsTo
<1> QED
  BY <1>7, <1>8, WriteStep DEF AddsTo

\* An assessment is saved.
LEMMA SaveAssessmentStep ==
  ASSUME ReviewInv, NEW a \in Actor, SaveAssessment(a)
  PROVE  ReviewInv'
<1>1. /\ txn[a].op = "assess" /\ txn[a].stage = "writing" /\ txn[a].todo = <<>>
      /\ LocksHeld(txn[a]) /\ Standing(txn[a])
  BY DEF ReviewInv, SaveAssessment, Ready
<1>2. PICK r \in Run : r = txn[a].run
  BY <1>1 DEF Standing
<1>3. PICK p \in 1..MaxProfile : p = txn[a].arg
  BY <1>1 DEF Standing
<1>4. AssessStands(r, p) /\ {EntryRow(r), CandidateRow} \subseteq txn[a].held
  BY <1>1, <1>2, <1>3 DEF Standing, LocksHeld, Wanted
<1>5. assessments' = [assessments EXCEPT ![r] = Append(@, p)]
  BY <1>2, <1>3 DEF SaveAssessment
<1>6. /\ run' = run /\ decisions' = decisions /\ drafts' = drafts /\ approved' = approved
      /\ used' = used /\ SameInputs /\ End(a)
  BY DEF SaveAssessment, SameInputs, history
<1>7. assessments[r] \in Seq(1..MaxProfile) /\ assessments'[r] = Append(assessments[r], p)
      /\ \A s \in Run \ {r} : assessments'[s] = assessments[s]
  BY <1>5 DEF ReviewInv, TypedHistory
<1>8. AddsTo(a, r)
  BY <1>4, <1>6, <1>7 DEF AddsTo, AssessStands
<1>9. TypedHistory'
  BY <1>5, <1>6, <1>7 DEF ReviewInv, TypedHistory
<1>10. Bounded(r)'
  BY <1>6 DEF ReviewInv, Bounded, DraftNumbers
<1>11. Linked(r)'
  <2>1. DOMAIN assessments[r] \subseteq DOMAIN assessments'[r]
    BY <1>7
  <2> QED
    BY <1>6, <2>1 DEF ReviewInv, Linked, DraftNumbers
<1> QED
  BY <1>8, <1>9, <1>10, <1>11, AddStep

\* A decision is saved.
LEMMA SaveDecisionStep ==
  ASSUME ReviewInv, NEW a \in Actor, SaveDecision(a)
  PROVE  ReviewInv'
<1>1. /\ txn[a].op = "decide" /\ txn[a].stage = "writing" /\ txn[a].todo = <<>>
      /\ LocksHeld(txn[a]) /\ Standing(txn[a])
  BY DEF ReviewInv, SaveDecision, Ready
<1>2. PICK r \in Run : r = txn[a].run
  BY <1>1 DEF Standing
<1>3. assessments[r] \in Seq(1..MaxProfile) /\ decisions[r] \in Seq(Nat \ {0})
  BY DEF ReviewInv, TypedHistory
<1>4. PICK v \in Nat \ {0} : v = txn[a].arg /\ v = Len(assessments[r])
  BY <1>1, <1>2, <1>3 DEF Standing, DecideStands
<1>5. HasEntry(r) /\ EntryRow(r) \in txn[a].held
  BY <1>1, <1>2 DEF Standing, DecideStands, LocksHeld
<1>6. decisions' = [decisions EXCEPT ![r] = Append(@, v)]
  BY <1>2, <1>4 DEF SaveDecision
<1>7. /\ run' = run /\ assessments' = assessments /\ drafts' = drafts /\ approved' = approved
      /\ used' = used /\ SameInputs /\ End(a)
  BY DEF SaveDecision, SameInputs, history
<1>8. decisions'[r] = Append(decisions[r], v) /\ \A s \in Run \ {r} : decisions'[s] = decisions[s]
  BY <1>6 DEF ReviewInv, TypedHistory
<1>9. Rows(r) # Nothing
  <2>1. assessments[r] # <<>>
    BY <1>4
  <2> QED
    BY <2>1 DEF Rows, Nothing
<1>10. AddsTo(a, r)
  BY <1>5, <1>7, <1>8, <1>9 DEF AddsTo
<1>11. TypedHistory'
  BY <1>3, <1>6, <1>7, <1>8 DEF ReviewInv, TypedHistory
<1>12. Bounded(r)'
  BY <1>7 DEF ReviewInv, Bounded, DraftNumbers
<1>13. Linked(r)'
  <2>1. DOMAIN decisions[r] \subseteq DOMAIN decisions'[r]
    BY <1>3, <1>8
  <2>2. \A k \in DOMAIN decisions'[r] : decisions'[r][k] \in DOMAIN assessments[r]
    <3>1. v \in DOMAIN assessments[r]
      BY <1>3, <1>4
    <3>2. \A k \in DOMAIN decisions'[r] : decisions'[r][k] = v
                 \/ (k \in DOMAIN decisions[r] /\ decisions'[r][k] = decisions[r][k])
      BY <1>3, <1>8
    <3> QED
      BY <3>1, <3>2 DEF ReviewInv, Linked
  <2> QED
    BY <1>7, <2>1, <2>2 DEF ReviewInv, Linked, DraftNumbers
<1> QED
  BY <1>10, <1>11, <1>12, <1>13, AddStep

\* A new draft gets the next number, so the chain stays linked.
LEMMA NewDraftLinked ==
  ASSUME ReviewInv, NEW r \in Run, NEW d, d \in DOMAIN decisions[r],
         NEW parent, parent \in {0} \cup DraftNumbers(r),
         AddDraft(r, d, parent), decisions' = decisions, assessments' = assessments,
         approved' = approved, used' = used
  PROVE  /\ drafts' \in [Run -> SUBSET Draft]
         /\ Bounded(r)' /\ Linked(r)'
         /\ \A s \in Run \ {r} : drafts'[s] = drafts[s]
<1>1. /\ drafts \in [Run -> SUBSET Draft] /\ decisions[r] \in Seq(Nat \ {0})
      /\ Bounded(r) /\ Linked(r)
  BY DEF ReviewInv, TypedHistory
<1>2. LatestDraft(r) \in Nat /\ \A v \in DraftNumbers(r) : v <= LatestDraft(r)
  BY <1>1, LatestIsNewest DEF ReviewInv
<1>3. PICK new : new = [version |-> LatestDraft(r) + 1, decision |-> d, parent |-> parent]
  OBVIOUS
<1>4. d \in Nat \ {0} /\ parent \in Nat
  BY <1>1 DEF DraftNumbers, Draft
<1>5. new \in Draft /\ new.version = LatestDraft(r) + 1 /\ new.decision = d /\ new.parent = parent
  BY <1>2, <1>3, <1>4 DEF Draft
<1>6. drafts' = [drafts EXCEPT ![r] = @ \cup {new}]
  BY <1>3 DEF AddDraft
<1>7. drafts'[r] = drafts[r] \cup {new} /\ \A s \in Run \ {r} : drafts'[s] = drafts[s]
  BY <1>1, <1>6
<1>8. drafts' \in [Run -> SUBSET Draft]
  BY <1>1, <1>5, <1>6
<1>9. DraftNumbers(r)' = DraftNumbers(r) \cup {LatestDraft(r) + 1}
  BY <1>5, <1>7 DEF DraftNumbers
<1>10. Bounded(r)'
  <2>1. LatestDraft(r) + 1 \in Nat /\ \A v \in DraftNumbers(r)' : v <= LatestDraft(r) + 1
    <3>1. DraftNumbers(r) \subseteq Nat
      BY <1>1 DEF DraftNumbers, Draft
    <3> QED
      BY <1>2, <1>9, <3>1
  <2> QED
    BY <2>1 DEF Bounded
<1>11. Linked(r)'
  <2>1. ASSUME NEW e \in drafts[r]
        PROVE  e.version # new.version
    <3>1. e.version \in DraftNumbers(r) /\ e.version \in Nat
      BY <1>1 DEF DraftNumbers, Draft
    <3> QED
      BY <1>2, <1>5, <3>1
  <2>2. \A x \in drafts'[r] : /\ x.decision \in DOMAIN decisions[r]
                              /\ x.parent \in {0} \cup DraftNumbers(r)'
                              /\ \A y \in drafts'[r] : x.version = y.version => x = y
    BY <1>1, <1>5, <1>7, <1>9, <2>1 DEF Linked
  <2>3. approved[r] \subseteq DraftNumbers(r)'
    BY <1>1, <1>9 DEF Linked
  <2> QED
    BY <1>1, <2>2, <2>3 DEF Linked
<1> QED
  BY <1>7, <1>8, <1>10, <1>11

\* A generated draft is saved.
LEMMA SaveDraftStep ==
  ASSUME ReviewInv, NEW a \in Actor, SaveDraft(a)
  PROVE  ReviewInv'
<1>1. /\ txn[a].op = "generate" /\ txn[a].stage = "writing" /\ txn[a].todo = <<>>
      /\ LocksHeld(txn[a]) /\ Standing(txn[a])
  BY DEF ReviewInv, SaveDraft, Ready
<1>2. PICK r \in Run : r = txn[a].run
  BY <1>1 DEF Standing
<1>3. decisions[r] \in Seq(Nat \ {0})
  BY DEF ReviewInv, TypedHistory
<1>4. PICK d : d = txn[a].arg
  OBVIOUS
<1>5. d \in DOMAIN decisions[r] /\ HasEntry(r) /\ EntryRow(r) \in txn[a].held
  BY <1>1, <1>2, <1>3, <1>4 DEF Standing, GenerateStands, LocksHeld
<1>6. /\ run' = run /\ assessments' = assessments /\ decisions' = decisions
      /\ approved' = approved /\ used' = used /\ SameInputs /\ End(a)
  BY DEF SaveDraft, SameInputs, history
<1>7. AddDraft(r, d, 0)
  BY <1>2, <1>4 DEF SaveDraft
<1>8. /\ drafts' \in [Run -> SUBSET Draft] /\ Bounded(r)' /\ Linked(r)'
      /\ \A s \in Run \ {r} : drafts'[s] = drafts[s]
  BY <1>5, <1>6, <1>7, NewDraftLinked
<1>9. Rows(r) # Nothing
  <2>1. decisions[r] # <<>>
    BY <1>3, <1>5
  <2> QED
    BY <2>1 DEF Rows, Nothing
<1>10. AddsTo(a, r)
  BY <1>5, <1>6, <1>8, <1>9 DEF AddsTo
<1>11. TypedHistory'
  BY <1>6, <1>8 DEF ReviewInv, TypedHistory
<1> QED
  BY <1>8, <1>10, <1>11, AddStep

\* What a draft operation writes about is still the newest draft.
LEMMA DraftOpFacts ==
  ASSUME ReviewInv, NEW a \in Actor, txn[a].op \in DraftOp, Ready(a, DraftOp, "writing"),
         DraftStands(a)
  PROVE  /\ txn[a].run \in Run
         /\ {EntryRow(txn[a].run), CandidateRow, SourceRows} \subseteq txn[a].held
         /\ txn[a].arg \in DraftNumbers(txn[a].run)
         /\ DraftOpStands(txn[a].op, txn[a].run, txn[a].arg) /\ HasEntry(txn[a].run)
         /\ Rows(txn[a].run) # Nothing
<1>1. /\ txn[a].stage = "writing" /\ txn[a].todo = <<>>
      /\ LocksHeld(txn[a]) /\ Standing(txn[a])
  BY DEF ReviewInv, Ready
<1>2. txn[a].run \in Run /\ DraftOpStands(txn[a].op, txn[a].run, txn[a].arg)
  BY <1>1 DEF Standing
<1>3. {EntryRow(txn[a].run), CandidateRow, SourceRows} \subseteq txn[a].held
  <2>1. txn[a].todo = <<>> /\ {EntryRow(txn[a].run), CandidateRow, SourceRows} \subseteq Wanted(txn[a])
    BY <1>1 DEF LocksHeld
  <2> QED
    BY <2>1 DEF Wanted
<1>4. txn[a].arg \in DraftNumbers(txn[a].run)
  BY DEF DraftStands
<1>5. drafts[txn[a].run] # {}
  BY <1>4 DEF DraftNumbers
<1>6. Rows(txn[a].run) # Nothing
  BY <1>5 DEF Rows, Nothing
<1> QED
  BY <1>2, <1>3, <1>4, <1>6 DEF DraftOpStands

\* An edited draft is saved.
LEMMA SaveEditStep ==
  ASSUME ReviewInv, NEW a \in Actor, SaveEdit(a)
  PROVE  ReviewInv'
<1>1. txn[a].op \in DraftOp /\ Ready(a, DraftOp, "writing") /\ DraftStands(a)
  BY DEF SaveEdit, Ready, DraftOp
<1>2. PICK r \in Run : r = txn[a].run
  BY <1>1, DraftOpFacts
<1>3. PICK v \in DraftNumbers(r) : v = txn[a].arg
  BY <1>1, <1>2, DraftOpFacts
<1>4. EntryRow(r) \in txn[a].held /\ HasEntry(r) /\ Rows(r) # Nothing
  BY <1>1, <1>2, DraftOpFacts
<1>5. PICK d : d = DraftRow(r, v).decision
  OBVIOUS
<1>6. d \in DOMAIN decisions[r]
  BY <1>5, RowOfNumber DEF ReviewInv, Linked
<1>7. /\ run' = run /\ assessments' = assessments /\ decisions' = decisions
      /\ approved' = approved /\ used' = used /\ SameInputs /\ End(a)
  BY DEF SaveEdit, SameInputs, history
<1>8. AddDraft(r, d, v)
  BY <1>2, <1>3, <1>5 DEF SaveEdit
<1>9. /\ drafts' \in [Run -> SUBSET Draft] /\ Bounded(r)' /\ Linked(r)'
      /\ \A s \in Run \ {r} : drafts'[s] = drafts[s]
  BY <1>6, <1>7, <1>8, NewDraftLinked
<1>10. AddsTo(a, r)
  BY <1>4, <1>7, <1>9 DEF AddsTo
<1>11. TypedHistory'
  BY <1>7, <1>9 DEF ReviewInv, TypedHistory
<1> QED
  BY <1>9, <1>10, <1>11, AddStep

\* An approval is saved.
LEMMA SaveApprovalStep ==
  ASSUME ReviewInv, NEW a \in Actor, SaveApproval(a)
  PROVE  ReviewInv'
<1>1. txn[a].op \in DraftOp /\ Ready(a, DraftOp, "writing") /\ DraftStands(a)
  BY DEF SaveApproval, Ready, DraftOp
<1>2. PICK r \in Run : r = txn[a].run
  BY <1>1, DraftOpFacts
<1>3. PICK v \in DraftNumbers(r) : v = txn[a].arg
  BY <1>1, <1>2, DraftOpFacts
<1>4. EntryRow(r) \in txn[a].held /\ HasEntry(r) /\ Rows(r) # Nothing
  BY <1>1, <1>2, DraftOpFacts
<1>5. /\ run' = run /\ assessments' = assessments /\ decisions' = decisions
      /\ drafts' = drafts /\ used' = used /\ SameInputs /\ End(a)
  BY DEF SaveApproval, SameInputs, history
<1>6. approved' = [approved EXCEPT ![r] = @ \cup {v}]
  BY <1>2, <1>3 DEF SaveApproval
<1>7. v \in Nat
  BY DEF ReviewInv, TypedHistory, DraftNumbers, Draft
<1>8. approved'[r] = approved[r] \cup {v} /\ \A s \in Run \ {r} : approved'[s] = approved[s]
  BY <1>6 DEF ReviewInv, TypedHistory
<1>9. AddsTo(a, r)
  BY <1>4, <1>5, <1>8 DEF AddsTo
<1>10. TypedHistory'
  BY <1>5, <1>6, <1>7 DEF ReviewInv, TypedHistory
<1>11. Bounded(r)' /\ Linked(r)'
  BY <1>5, <1>8 DEF ReviewInv, Bounded, Linked, DraftNumbers
<1> QED
  BY <1>9, <1>10, <1>11, AddStep

\* A use is saved.
LEMMA SaveUseStep ==
  ASSUME ReviewInv, NEW a \in Actor, SaveUse(a)
  PROVE  ReviewInv'
<1>1. txn[a].op \in DraftOp /\ Ready(a, DraftOp, "writing") /\ DraftStands(a)
  BY DEF SaveUse, Ready, DraftOp
<1>2. PICK r \in Run : r = txn[a].run
  BY <1>1, DraftOpFacts
<1>3. PICK v \in DraftNumbers(r) : v = txn[a].arg
  BY <1>1, <1>2, DraftOpFacts
<1>4. EntryRow(r) \in txn[a].held /\ HasEntry(r) /\ Rows(r) # Nothing
  BY <1>1, <1>2, DraftOpFacts
<1>5. /\ run' = run /\ assessments' = assessments /\ decisions' = decisions
      /\ drafts' = drafts /\ SameInputs /\ End(a)
  BY DEF SaveUse, SameInputs, history
<1>6. approved' = [approved EXCEPT ![r] = @ \cup {v}] /\ used' = [used EXCEPT ![r] = Append(@, v)]
  BY <1>2, <1>3 DEF SaveUse
<1>7. v \in Nat
  BY DEF ReviewInv, TypedHistory, DraftNumbers, Draft
<1>8. /\ approved'[r] = approved[r] \cup {v} /\ used'[r] = Append(used[r], v)
      /\ used[r] \in Seq(Nat)
      /\ \A s \in Run \ {r} : approved'[s] = approved[s] /\ used'[s] = used[s]
  BY <1>6 DEF ReviewInv, TypedHistory
<1>9. AddsTo(a, r)
  BY <1>4, <1>5, <1>8 DEF AddsTo
<1>10. TypedHistory'
  <2>1. approved' \in [Run -> SUBSET Nat]
    BY <1>6, <1>7 DEF ReviewInv, TypedHistory
  <2>2. used' \in [Run -> Seq(Nat)]
    BY <1>6, <1>7 DEF ReviewInv, TypedHistory
  <2> QED
    BY <1>5, <2>1, <2>2 DEF ReviewInv, TypedHistory
<1>11. Bounded(r)'
  BY <1>5 DEF ReviewInv, Bounded, DraftNumbers
<1>12. Linked(r)'
  <2>1. \A k \in DOMAIN used'[r] : used'[r][k] = v
               \/ (k \in DOMAIN used[r] /\ used'[r][k] = used[r][k])
    BY <1>7, <1>8
  <2>2. \A k \in DOMAIN used'[r] : used'[r][k] \in approved'[r]
    BY <1>8, <2>1 DEF ReviewInv, Linked
  <2> QED
    BY <1>5, <1>8, <2>2 DEF ReviewInv, Linked, DraftNumbers
<1> QED
  BY <1>9, <1>10, <1>11, <1>12, AddStep

\* The first shortlist to commit gets the number: nothing stands on it yet.
LEMMA SaveRunStep ==
  ASSUME ReviewInv, NEW a \in Actor, SaveRun(a)
  PROVE  ReviewInv'
<1>1. /\ txn[a].op = "shortlist" /\ txn[a].stage = "writing"
  BY DEF SaveRun, Ready
<1>2. /\ txn[a].seen \in ShortlistRun /\ Sound(txn[a].seen)
  BY <1>1, ShortlistFacts DEF ShortlistStands
<1>3. PICK seen \in ShortlistRun : seen = txn[a].seen
  BY <1>2
<1>4. PICK r \in Unsaved : run' = [run EXCEPT ![r] = seen]
  BY <1>3 DEF SaveRun
<1>5. r \in Run /\ run[r] = None
  BY <1>4 DEF Unsaved
<1>6. /\ assessments' = assessments /\ decisions' = decisions /\ drafts' = drafts
      /\ approved' = approved /\ used' = used /\ SameInputs /\ End(a)
  BY DEF SaveRun, SameInputs
<1>7. /\ TypedInputs' /\ CurrentProfile' = CurrentProfile /\ CurrentProfile \in Nat
      /\ vacancyDeleted' = vacancyDeleted /\ status' = status /\ facts' = facts
      /\ versions' = versions /\ confirmed' = confirmed /\ permitted' = permitted
      /\ \A s : Sound(s) => Sound(s)'
  BY <1>6, InputsStay
<1>8. run'[r] = seen /\ \A s \in Run \ {r} : run'[s] = run[s]
  BY <1>4, <1>5 DEF ReviewInv, TypedHistory
<1>9. seen # None /\ seen \in MatchRun /\ ~HasEntry(r)
  <2>1. seen.exists = TRUE /\ None.exists = FALSE
    BY <1>3 DEF ShortlistRun, None
  <2> QED
    BY <1>3, <1>5, <2>1 DEF MatchRun, ShortlistRun, HasEntry
<1>10. TypedHistory'
  BY <1>4, <1>5, <1>6, <1>9 DEF ReviewInv, TypedHistory
<1>11. SoundRuns'
  BY <1>2, <1>3, <1>7, <1>8 DEF ReviewInv, SoundRuns
<1>12. \A s \in Run : Rows(s)' = Rows(s)
  BY <1>6 DEF Rows
<1>13. PurgedLeavesNoReview'
  BY <1>7, <1>12 DEF ReviewInv, PurgedLeavesNoReview
<1>14. \A s \in Run : Bounded(s)' /\ Linked(s)'
  BY <1>6 DEF ReviewInv, Bounded, Linked, DraftNumbers
<1>15. \A s \in Run : RowsNeedEntry(s)'
  BY <1>8, <1>9, <1>12 DEF ReviewInv, RowsNeedEntry, HasEntry
<1>16. RowsStand
  BY <1>7, <1>10, <1>11, <1>13, <1>14, <1>15 DEF RowsStand
<1>17. \A b \in Actor : b # a => Spares(txn[b].held)
  <2> SUFFICES ASSUME NEW rows PROVE Spares(rows)
    OBVIOUS
  <2>1. \A s \in Run : run[s] # None => run'[s] # None /\ (HasEntry(s)' => HasEntry(s))
    BY <1>5, <1>8 DEF HasEntry
  <2>2. \A s \in Run : HasEntry(s) => run'[s] = run[s]
    BY <1>8, <1>9
  <2> QED
    BY <1>6, <1>7, <1>12, <2>1, <2>2 DEF Spares
<1> QED
  BY <1>6, <1>16, <1>17, WriteStep

-----------------------------------------------------------------------------
(* Changes of the inputs. *)

\* A run on file has its two signatures.
LEMMA SavedRun ==
  ASSUME TypedHistory, NEW r \in Run, run[r].exists
  PROVE  run[r] \in ShortlistRun
<1>1. None.exists = FALSE /\ Gone.exists = FALSE
  BY DEF None, Gone
<1> QED
  BY <1>1 DEF TypedHistory, MatchRun, ShortlistRun

LockedInputsStay(rows) ==
  /\ SourceRows \in rows => permitted' = permitted
  /\ VacancyRow \in rows => vacancyDeleted' = vacancyDeleted
  /\ CandidateRow \in rows => status' = status /\ facts' = facts /\ confirmed' = confirmed

\* Inputs that move without coming back from a purge leave every run sound.
LEMMA InputsMove ==
  ASSUME ReviewInv, UNCHANGED history, TypedInputs',
         status' # "deleted" => status # "deleted" /\ CurrentProfile <= CurrentProfile',
         status' = "deleted" => status = "deleted" /\ versions' = versions
  PROVE  RowsStand /\ \A rows : LockedInputsStay(rows) => Spares(rows)
<1>1. /\ run' = run /\ assessments' = assessments /\ decisions' = decisions
      /\ drafts' = drafts /\ approved' = approved /\ used' = used
  BY DEF history
<1>2. TypedHistory'
  BY <1>1 DEF ReviewInv, TypedHistory
<1>3. ASSUME NEW r \in Run, run'[r].exists
      PROVE  Sound(run[r])'
  <2>1. run[r] \in ShortlistRun /\ Sound(run[r])
    BY <1>1, <1>3, SavedRun DEF ReviewInv, SoundRuns
  <2>2. PICK s \in ShortlistRun : s = run[r]
    BY <2>1
  <2>3. Sound(s)'
    BY <2>1, <2>2, SoundStays DEF ReviewInv, ShortlistRun
  <2>4. run'[r] = s
    BY <1>1, <2>2
  <2> QED
    BY <2>3, <2>4
<1>4. SoundRuns'
  BY <1>3 DEF SoundRuns
<1>5. \A s \in Run : Rows(s)' = Rows(s) /\ HasEntry(s)' = HasEntry(s)
  BY <1>1 DEF Rows, HasEntry
<1>6. PurgedLeavesNoReview'
  BY <1>5 DEF ReviewInv, PurgedLeavesNoReview
<1>7. \A s \in Run : Bounded(s)' /\ Linked(s)'
  BY <1>1 DEF ReviewInv, Bounded, Linked, DraftNumbers
<1>8. \A s \in Run : RowsNeedEntry(s)'
  BY <1>5 DEF ReviewInv, RowsNeedEntry
<1>9. \A rows : LockedInputsStay(rows) => Spares(rows)
  BY <1>1, <1>5 DEF Spares, LockedInputsStay
<1> QED
  BY <1>2, <1>4, <1>6, <1>7, <1>8, <1>9 DEF RowsStand

Newest == CurrentProfile \in Nat /\ CurrentProfile \in {0} \cup confirmed
          /\ \A q \in confirmed : q <= CurrentProfile

\* The current profile is the newest confirmed version.
LEMMA CurrentIsNewestAlways == TypedInputs => Newest
BY CurrentIsNewest, CurrentIsNumber DEF Newest

\* A confirmation never makes an older profile current.
LEMMA CurrentGrows ==
  ASSUME TypedInputs, TypedInputs', confirmed \subseteq confirmed'
  PROVE  CurrentProfile <= CurrentProfile'
<1>1. Newest
  BY CurrentIsNewestAlways
<1>2. (TypedInputs => Newest)'
  BY CurrentIsNewestAlways, PTL
<1> QED
  BY <1>1, <1>2 DEF Newest

\* The holder of the candidate, or of the sources, has them to himself.
LEMMA NobodyElseHolds ==
  ASSUME ReviewInv, NEW a \in Actor, NEW row, row \in Wanted(txn[a]), txn[a].todo = <<>>
  PROVE  \A b \in Actor : b # a => row \notin txn[b].held
<1>1. row \in txn[a].held
  BY DEF Wanted
<1> QED
  BY <1>1 DEF ReviewInv, Apart

\* confirm_candidate_profile publishes a version under the lock on the
\* candidate.
LEMMA ConfirmStep ==
  ASSUME ReviewInv, NEW a \in Actor, Confirm(a)
  PROVE  ReviewInv'
<1>1. CASE Refuse(a)
  BY <1>1, RefuseStep
<1>2. CASE ~Refuse(a)
  <2>1. /\ txn[a].op = "confirm" /\ txn[a].todo = <<>>
        /\ status = "active" /\ txn[a].arg \in 1..versions
        /\ confirmed' = confirmed \cup {txn[a].arg}
        /\ requirement' = requirement /\ vacancyDeleted' = vacancyDeleted /\ status' = status
        /\ facts' = facts /\ versions' = versions /\ permitted' = permitted
        /\ UNCHANGED history /\ changes' = changes /\ End(a)
    BY <1>2 DEF Confirm, Ready, Editable
  <2>2. TypedInputs'
    BY <2>1 DEF ReviewInv, TypedInputs
  <2>3. CurrentProfile <= CurrentProfile'
    BY <2>1, <2>2, CurrentGrows DEF ReviewInv
  <2>4. RowsStand /\ \A rows : LockedInputsStay(rows) => Spares(rows)
    BY <2>1, <2>2, <2>3, InputsMove
  <2>5. \A b \in Actor : b # a => CandidateRow \notin txn[b].held
    BY <2>1, NobodyElseHolds DEF ReviewInv, LocksHeld
  <2>6. \A b \in Actor : b # a => LockedInputsStay(txn[b].held)
    BY <2>1, <2>5 DEF LockedInputsStay
  <2> QED
    BY <2>1, <2>4, <2>6, WriteStep
<1> QED
  BY <1>1, <1>2

\* create_corrected_profile_version adds a version under that lock.
LEMMA CorrectStep ==
  ASSUME ReviewInv, NEW a \in Actor, Correct(a)
  PROVE  ReviewInv'
<1>1. CASE Refuse(a)
  BY <1>1, RefuseStep
<1>2. CASE ~Refuse(a)
  <2>1. PICK corrected \in {{}, {versions + 1}} :
        /\ txn[a].op = "correct" /\ txn[a].todo = <<>>
        /\ status = "active" /\ versions < MaxProfile
        /\ versions' = versions + 1 /\ confirmed' = confirmed \cup corrected
        /\ requirement' = requirement /\ vacancyDeleted' = vacancyDeleted /\ status' = status
        /\ facts' = facts /\ permitted' = permitted
        /\ UNCHANGED history /\ changes' = changes /\ End(a)
    BY <1>2 DEF Correct, Ready, Editable
  <2>2. TypedInputs'
    <3>1. versions \in 0..MaxProfile /\ MaxProfile \in Nat /\ confirmed \subseteq 1..versions
      BY ReviewAssumption DEF ReviewInv, TypedInputs
    <3>2. versions' \in 0..MaxProfile
      BY <2>1, <3>1
    <3>3. 1..versions \subseteq 1..versions' /\ versions + 1 \in 1..versions'
      BY <2>1, <3>1
    <3>4. confirmed' \subseteq 1..versions'
      BY <2>1, <3>1, <3>3
    <3> QED
      BY <2>1, <3>2, <3>4 DEF ReviewInv, TypedInputs
  <2>3. CurrentProfile <= CurrentProfile'
    BY <2>1, <2>2, CurrentGrows DEF ReviewInv
  <2>4. RowsStand /\ \A rows : LockedInputsStay(rows) => Spares(rows)
    BY <2>1, <2>2, <2>3, InputsMove
  <2>5. \A b \in Actor : b # a => CandidateRow \notin txn[b].held
    BY <2>1, NobodyElseHolds DEF ReviewInv, LocksHeld
  <2>6. \A b \in Actor : b # a => LockedInputsStay(txn[b].held)
    BY <2>1, <2>5 DEF LockedInputsStay
  <2> QED
    BY <2>1, <2>4, <2>6, WriteStep
<1> QED
  BY <1>1, <1>2

\* update_candidate_source changes the permission under the lock on the
\* sources.
LEMMA UpdateSourceStep ==
  ASSUME ReviewInv, NEW a \in Actor, UpdateSource(a)
  PROVE  ReviewInv'
<1>1. CASE Refuse(a)
  BY <1>1, RefuseStep
<1>2. CASE ~Refuse(a)
  <2>1. /\ txn[a].op = "source" /\ txn[a].todo = <<>>
        /\ permitted' = ~permitted /\ changes' = changes + 1 /\ changes < MaxChange
        /\ requirement' = requirement /\ vacancyDeleted' = vacancyDeleted /\ status' = status
        /\ facts' = facts /\ versions' = versions /\ confirmed' = confirmed
        /\ UNCHANGED history /\ End(a)
    BY <1>2 DEF UpdateSource, Ready
  <2>2. TypedInputs'
    <3>1. changes' \in 0..MaxChange
      BY <2>1, ReviewAssumption DEF ReviewInv, TypedInputs
    <3> QED
      BY <2>1, <3>1 DEF ReviewInv, TypedInputs
  <2>3. CurrentProfile <= CurrentProfile'
    BY <2>1, <2>2, CurrentGrows DEF ReviewInv
  <2>4. RowsStand /\ \A rows : LockedInputsStay(rows) => Spares(rows)
    BY <2>1, <2>2, <2>3, InputsMove
  <2>5. \A b \in Actor : b # a => SourceRows \notin txn[b].held
    BY <2>1, NobodyElseHolds DEF ReviewInv, LocksHeld
  <2>6. \A b \in Actor : b # a => LockedInputsStay(txn[b].held)
    BY <2>1, <2>5 DEF LockedInputsStay
  <2> QED
    BY <2>1, <2>4, <2>6, WriteStep
<1> QED
  BY <1>1, <1>2

\* A change of what its transaction alone has locked.
LEMMA HeldChange ==
  ASSUME ReviewInv, NEW a \in Actor, End(a), UNCHANGED history, TypedInputs',
         confirmed' = confirmed, versions' = versions,
         status' = "deleted" <=> status = "deleted",
         \A b \in Actor : b # a => LockedInputsStay(txn[b].held)
  PROVE  ReviewInv'
<1>1. CurrentProfile <= CurrentProfile'
  BY CurrentGrows DEF ReviewInv
<1>2. RowsStand /\ \A rows : LockedInputsStay(rows) => Spares(rows)
  BY <1>1, InputsMove
<1> QED
  BY <1>2, WriteStep

\* update_candidate_record and the deletion requests write under the lock on the
\* candidate, the deletion of the vacancy under the lock on the vacancy.
LEMMA ChangeStep ==
  ASSUME ReviewInv, NEW a \in Actor,
         UpdateCandidate(a) \/ RequestDeletion(a) \/ CancelDeletion(a) \/ DeleteVacancy(a)
  PROVE  ReviewInv'
<1>1. TypedInputs /\ LocksHeld(txn[a]) /\ Standing(txn[a])
  BY DEF ReviewInv
<1>2. Change => changes' \in 0..MaxChange
  BY <1>1, ReviewAssumption DEF Change, TypedInputs
<1>3. UNCHANGED history /\ End(a) /\ confirmed' = confirmed /\ versions' = versions
      /\ permitted' = permitted
  BY DEF UpdateCandidate, RequestDeletion, CancelDeletion, SetStatus, DeleteVacancy
<1>4. CASE UpdateCandidate(a) \/ RequestDeletion(a) \/ CancelDeletion(a)
  <2>1. /\ txn[a].op \in {"update", "request", "cancel"}
        /\ requirement' = requirement /\ vacancyDeleted' = vacancyDeleted
    BY <1>4 DEF UpdateCandidate, RequestDeletion, CancelDeletion, SetStatus, Ready
  <2>2. TypedInputs'
    BY <1>1, <1>2, <1>3, <1>4, <2>1
       DEF UpdateCandidate, RequestDeletion, CancelDeletion, SetStatus, TypedInputs
  <2>3. \A b \in Actor : b # a => CandidateRow \notin txn[b].held
    BY <1>1, <2>1 DEF ReviewInv, LocksHeld, Apart
  <2>4. status # "deleted" /\ status' # "deleted"
    BY <1>1, <1>4 DEF Standing, UpdateCandidate, RequestDeletion, CancelDeletion, SetStatus, Ready
  <2>5. \A b \in Actor : b # a => LockedInputsStay(txn[b].held)
    BY <1>3, <2>1, <2>3 DEF LockedInputsStay
  <2> QED
    BY <1>3, <2>2, <2>4, <2>5, HeldChange
<1>5. CASE DeleteVacancy(a)
  <2>1. /\ txn[a].op = "delete vacancy" /\ requirement' = requirement
        /\ status' = status /\ facts' = facts
    BY <1>5 DEF DeleteVacancy, Ready
  <2>2. TypedInputs'
    BY <1>1, <1>2, <1>3, <1>5, <2>1 DEF DeleteVacancy, TypedInputs
  <2>3. \A b \in Actor : b # a => VacancyRow \notin txn[b].held
    BY <1>1, <2>1 DEF ReviewInv, LocksHeld, Apart
  <2>4. \A b \in Actor : b # a => LockedInputsStay(txn[b].held)
    BY <1>3, <2>1, <2>3 DEF LockedInputsStay
  <2> QED
    BY <1>3, <2>1, <2>2, <2>4, HeldChange
<1> QED
  BY <1>4, <1>5

\* New requirements are confirmed without a lock that others here take.
LEMMA RecruiterStep ==
  ASSUME ReviewInv, ConfirmRequirements
  PROVE  ReviewInv'
<1>1. TypedInputs'
  BY ReviewAssumption DEF ReviewInv, ConfirmRequirements, Change, TypedInputs
<1>2. CurrentProfile <= CurrentProfile'
  BY <1>1, CurrentGrows DEF ReviewInv, ConfirmRequirements
<1>3. RowsStand /\ \A rows : LockedInputsStay(rows) => Spares(rows)
  BY <1>1, <1>2, InputsMove DEF ConfirmRequirements
<1>4. \A b \in Actor : LockedInputsStay(txn[b].held)
  BY DEF ConfirmRequirements, LockedInputsStay
<1> QED
  BY <1>3, <1>4, OutsideStep DEF ConfirmRequirements

-----------------------------------------------------------------------------
(* The deletions themselves. *)

\* An emptied entry has nothing that could point anywhere.
LEMMA NothingLinked ==
  ASSUME NEW r \in Run, Rows(r)' = Nothing
  PROVE  /\ Linked(r)' /\ Bounded(r)' /\ RowsNeedEntry(r)'
         /\ assessments'[r] = <<>> /\ decisions'[r] = <<>> /\ drafts'[r] = {}
         /\ approved'[r] = {} /\ used'[r] = <<>>
<1>1. /\ assessments'[r] = <<>> /\ decisions'[r] = <<>> /\ drafts'[r] = {}
      /\ approved'[r] = {} /\ used'[r] = <<>>
  BY DEF Rows, Nothing
<1>2. Linked(r)'
  BY <1>1 DEF Linked, DraftNumbers
<1>3. Bounded(r)'
  BY <1>1 DEF Bounded, DraftNumbers
<1>4. RowsNeedEntry(r)'
  BY DEF RowsNeedEntry
<1> QED
  BY <1>1, <1>2, <1>3, <1>4

\* Emptying some entries leaves the others.
LEMMA Emptied ==
  ASSUME NEW S, SetRows(S, Nothing), NEW r \in Run
  PROVE  IF r \in S THEN Rows(r)' = Nothing
         ELSE /\ Rows(r)' = Rows(r)
              /\ assessments'[r] = assessments[r] /\ decisions'[r] = decisions[r]
              /\ drafts'[r] = drafts[r] /\ approved'[r] = approved[r] /\ used'[r] = used[r]
<1>1. CASE r \in S
  BY <1>1 DEF SetRows, Rows, Nothing
<1>2. CASE r \notin S
  BY <1>2 DEF SetRows, Rows
<1> QED
  BY <1>1, <1>2

\* Emptying entries keeps the types.
LEMMA EmptiedTyped ==
  ASSUME TypedHistory, NEW S, SetRows(S, Nothing), run' \in [Run -> MatchRun]
  PROVE  TypedHistory'
<1>1. assessments' \in [Run -> Seq(1..MaxProfile)]
  <2>1. Nothing.assessments \in Seq(1..MaxProfile)
    BY DEF Nothing
  <2> QED
    BY <2>1 DEF TypedHistory, SetRows
<1>2. /\ decisions' \in [Run -> Seq(Nat \ {0})]
      /\ drafts' \in [Run -> SUBSET Draft] /\ approved' \in [Run -> SUBSET Nat]
  BY DEF TypedHistory, SetRows, Nothing
<1>3. used' \in [Run -> Seq(Nat)]
  BY DEF TypedHistory, SetRows, Nothing
<1> QED
  BY <1>1, <1>2, <1>3 DEF TypedHistory

\* delete_candidate commits.
LEMMA PurgeStep ==
  ASSUME ReviewInv, NEW a \in Actor, Purge(a)
  PROVE  ReviewInv'
<1>1. CASE Refuse(a)
  BY <1>1, RefuseStep
<1>2. CASE ~Refuse(a)
  <2>1. PICK S : S = DOMAIN txn[a].seen
    OBVIOUS
  <2>2. /\ txn[a].op = "purge" /\ txn[a].stage = "writing" /\ txn[a].todo = <<>>
        /\ SetRows(S, Nothing)
        /\ run' = [r \in Run |-> IF r \in S /\ HasEntry(r)
                                 THEN [run[r] EXCEPT !.entry = FALSE] ELSE run[r]]
        /\ status' = "deleted" /\ versions' = 0 /\ confirmed' = {} /\ permitted' = FALSE
        /\ End(a)
        /\ requirement' = requirement /\ vacancyDeleted' = vacancyDeleted /\ facts' = facts
        /\ changes' = changes
    BY <1>2, <2>1 DEF Purge, Ready
  <2>3. LocksHeld(txn[a]) /\ Standing(txn[a])
    BY DEF ReviewInv
  <2>4. S \subseteq Run /\ \A r \in Run \ S : Rows(r) = Nothing
    BY <2>1, <2>2, <2>3 DEF Standing
  <2>5. \A r \in Run : Rows(r)' = Nothing
    BY <2>2, <2>4, Emptied
  <2>6. \A b \in Actor : b # a =>
          /\ CandidateRow \notin txn[b].held /\ SourceRows \notin txn[b].held
          /\ \A r \in S : EntryRow(r) \notin txn[b].held
    BY <2>1, <2>2, <2>3, NobodyElseHolds DEF LocksHeld
  <2>7. \A r \in Run : run'[r] = IF r \in S /\ HasEntry(r)
                                 THEN [run[r] EXCEPT !.entry = FALSE] ELSE run[r]
    BY <2>2
  <2>8. ASSUME NEW r \in Run
        PROVE  /\ run'[r] \in MatchRun
               /\ run[r] # None => run'[r] # None
               /\ HasEntry(r)' => HasEntry(r)
               /\ run'[r].exists => Sound(run[r])'
    <3>1. CASE r \in S /\ HasEntry(r)
      <4>1. run[r] \in ShortlistRun /\ Sound(run[r])
        BY <3>1, SavedRun DEF HasEntry, ReviewInv, SoundRuns
      <4>2. PICK old \in ShortlistRun : old = run[r]
        BY <4>1
      <4>3. PICK new : new = [old EXCEPT !.entry = FALSE]
        OBVIOUS
      <4>4. new \in ShortlistRun /\ new.input = old.input /\ new.entry = FALSE
            /\ new.ranked = old.ranked /\ new.exists = TRUE
        BY <4>3 DEF ShortlistRun
      <4>5. run'[r] = new
        BY <2>7, <3>1, <4>2, <4>3
      <4>6. new # None
        BY <4>4 DEF None
      <4>7. (run'[r].input = NoInput => ~run'[r].entry /\ run'[r].ranked = 0)
        BY <4>1, <4>2, <4>4, <4>5 DEF Sound
      <4> QED
        BY <2>2, <3>1, <4>4, <4>5, <4>6, <4>7 DEF MatchRun, ShortlistRun, Sound
    <3>2. CASE ~(r \in S /\ HasEntry(r))
      <4>1. run'[r] = run[r]
        BY <2>7, <3>2
      <4>2. run[r].exists => Sound(run[r])
        BY DEF ReviewInv, SoundRuns
      <4> QED
        BY <2>2, <4>1, <4>2 DEF ReviewInv, TypedHistory, HasEntry, Sound
    <3> QED
      BY <3>1, <3>2
  <2>9. TypedHistory'
    <3>1. run' \in [Run -> MatchRun]
      BY <2>2, <2>7, <2>8
    <3> QED
      BY <2>2, <3>1, EmptiedTyped DEF ReviewInv
  <2>10. TypedInputs'
    <3>1. 0 \in 0..MaxProfile /\ FALSE \in BOOLEAN
      BY ReviewAssumption
    <3>2. versions' \in 0..MaxProfile /\ confirmed' \subseteq 1..versions'
      BY <2>2, <3>1
    <3> QED
      BY <2>2, <3>1, <3>2 DEF ReviewInv, TypedInputs
  <2>11. RowsStand
    BY <2>2, <2>5, <2>8, <2>9, <2>10, NothingLinked DEF RowsStand, SoundRuns, PurgedLeavesNoReview
  <2>12. ASSUME NEW b \in Actor, b # a
         PROVE  Spares(txn[b].held)
    <3>1. ASSUME NEW r \in Run, EntryRow(r) \in txn[b].held
          PROVE  /\ run'[r] = run[r] /\ assessments'[r] = assessments[r]
                 /\ decisions'[r] = decisions[r] /\ drafts'[r] \subseteq drafts[r]
      <4>1. r \notin S
        BY <2>6, <2>12, <3>1
      <4> QED
        BY <2>2, <2>7, <4>1, Emptied
    <3> QED
      BY <2>2, <2>6, <2>8, <2>12, <3>1 DEF Spares
  <2> QED
    BY <2>2, <2>11, <2>12, WriteStep
<1> QED
  BY <1>1, <1>2

\* apply_retention_plan deletes a run that is not the latest.
LEMMA RetainRunStep ==
  ASSUME ReviewInv, NEW a \in Actor, RetainRun(a)
  PROVE  ReviewInv'
<1>1. CASE Refuse(a)
  BY <1>1, RefuseStep
<1>2. CASE ~Refuse(a)
  <2>1. /\ txn[a].op = "retain run" /\ txn[a].stage = "writing" /\ txn[a].todo = <<>>
        /\ LocksHeld(txn[a]) /\ Standing(txn[a])
    BY DEF ReviewInv, RetainRun, Ready
  <2>2. PICK r \in Run : r = txn[a].run
    BY <2>1 DEF Standing
  <2>3. /\ SetRows({r}, Nothing) /\ run' = [run EXCEPT ![r] = Gone] /\ End(a) /\ SameInputs
    BY <1>2, <2>2 DEF RetainRun, SameInputs
  <2>4. run[r] # None /\ (HasEntry(r) => EntryRow(r) \in Wanted(txn[a]))
    BY <2>1, <2>2 DEF Standing
  <2>5. run'[r] = Gone /\ \A s \in Run \ {r} : run'[s] = run[s]
    BY <2>3 DEF ReviewInv, TypedHistory
  <2>6. Gone # None /\ Gone.exists = FALSE
    <3>1. DOMAIN Gone # DOMAIN None
      BY DEF Gone, None
    <3> QED
      BY <3>1 DEF Gone
  <2>7. /\ TypedInputs' /\ CurrentProfile' = CurrentProfile /\ CurrentProfile \in Nat
        /\ vacancyDeleted' = vacancyDeleted /\ status' = status /\ facts' = facts
        /\ versions' = versions /\ confirmed' = confirmed /\ permitted' = permitted
        /\ \A s : Sound(s) => Sound(s)'
    BY <2>3, InputsStay
  <2>8. TypedHistory'
    <3>1. run' \in [Run -> MatchRun]
      BY <2>3 DEF ReviewInv, TypedHistory, MatchRun
    <3> QED
      BY <2>3, <3>1, EmptiedTyped DEF ReviewInv
  <2>9. Rows(r)' = Nothing
    BY <2>3, Emptied
  <2>10. ASSUME NEW s \in Run \ {r}
         PROVE  /\ Rows(s)' = Rows(s) /\ assessments'[s] = assessments[s]
                /\ decisions'[s] = decisions[s] /\ drafts'[s] = drafts[s]
                /\ approved'[s] = approved[s] /\ used'[s] = used[s]
    BY <2>3, Emptied
  <2>11. SoundRuns'
    BY <2>5, <2>6, <2>7 DEF ReviewInv, SoundRuns
  <2>12. PurgedLeavesNoReview'
    BY <2>7, <2>9, <2>10 DEF ReviewInv, PurgedLeavesNoReview
  <2>13. ASSUME NEW s \in Run \ {r}
         PROVE  Bounded(s)' /\ Linked(s)' /\ RowsNeedEntry(s)'
    <3>1. Bounded(s)' /\ Linked(s)'
      BY <2>10 DEF ReviewInv, Bounded, Linked, DraftNumbers
    <3> QED
      BY <2>5, <2>10, <3>1 DEF ReviewInv, RowsNeedEntry, HasEntry
  <2>14. RowsStand
    BY <2>7, <2>8, <2>9, <2>11, <2>12, <2>13, NothingLinked DEF RowsStand
  <2>15. ASSUME NEW b \in Actor, b # a
         PROVE  Spares(txn[b].held)
    <3>1. HasEntry(r) => EntryRow(r) \notin txn[b].held
      BY <2>1, <2>4, <2>15, NobodyElseHolds
    <3>2. \A s \in Run : run[s] # None => run'[s] # None /\ (HasEntry(s)' => HasEntry(s))
      BY <2>5, <2>6 DEF HasEntry
    <3>3. drafts'[r] \subseteq drafts[r]
      BY <2>9, NothingLinked
    <3>4. \A s \in Run : EntryRow(s) \in txn[b].held =>
            /\ HasEntry(s) => /\ run'[s] = run[s] /\ assessments'[s] = assessments[s]
                              /\ decisions'[s] = decisions[s]
            /\ drafts'[s] \subseteq drafts[s]
      BY <2>5, <2>10, <3>1, <3>3
    <3>5. \A s \in Run : Rows(s) = Nothing => Rows(s)' = Nothing
      BY <2>9, <2>10
    <3> QED
      BY <2>7, <3>2, <3>4, <3>5 DEF Spares
  <2> QED
    BY <2>3, <2>14, <2>15, WriteStep
<1> QED
  BY <1>1, <1>2

\* What is left of a sequence when its first m elements go.
LEMMA Rest ==
  ASSUME NEW s \in Seq(Nat), NEW m \in Nat, NEW u, u = SubSeq(s, m + 1, Len(s))
  PROVE  /\ u \in Seq(Nat)
         /\ \A k \in DOMAIN u : k + m \in DOMAIN s /\ u[k] = s[k + m] /\ ~(k + m <= m)
         /\ s = <<>> => u = <<>>
         /\ Len(u) <= Len(s)
<1>1. CASE m + 1 <= Len(s)
  <2>1. u \in Seq(Nat) /\ Len(u) = Len(s) - m
    BY <1>1
  <2>2. ASSUME NEW k \in 1..Len(u)
        PROVE  k + m \in DOMAIN s /\ u[k] = s[k + m] /\ ~(k + m <= m)
    <3>1. k \in Nat /\ k >= 1 /\ k <= Len(s) - m /\ Len(s) \in Nat
      BY <1>1, <2>1
    <3>2. k + m \in 1..Len(s) /\ ~(k + m <= m) /\ k \in 1 .. Len(s) - (m + 1) + 1
      BY <3>1
    <3>3. u[k] = s[(m + 1) + k - 1]
      BY <1>1, <3>1, <3>2
    <3>4. (m + 1) + k - 1 = k + m /\ DOMAIN s = 1..Len(s)
      BY <3>1
    <3> QED
      BY <3>2, <3>3, <3>4
  <2>3. DOMAIN u = 1..Len(u) /\ s # <<>>
    BY <1>1, <2>1
  <2> QED
    BY <2>1, <2>2, <2>3
<1>2. CASE ~(m + 1 <= Len(s))
  <2>1. u = <<>>
    BY <1>2
  <2> QED
    BY <2>1
<1> QED
  BY <1>1, <1>2

\* What stays of a chain is linked: no draft that stays follows from one that
\* goes, and no use of one that goes stays.
LEMMA ShortenedLinked ==
  ASSUME TypedHistory, NEW r \in Run, Linked(r), Bounded(r), NEW seen, Len(seen.used) \in Nat,
         NEW gone, gone = {d.version : d \in seen.drafts},
         NEW kept, kept = drafts[r] \ seen.drafts,
         \A d \in kept : d.parent \notin gone,
         \A k \in DOMAIN used[r] : used[r][k] \in gone => k <= Len(seen.used),
         NEW rest, rest = SubSeq(used[r], Len(seen.used) + 1, Len(used[r])),
         assessments'[r] = assessments[r], decisions'[r] = decisions[r], drafts'[r] = kept,
         approved'[r] = approved[r] \ gone, used'[r] = rest
  PROVE  /\ Linked(r)' /\ Bounded(r)' /\ rest \in Seq(Nat)
         /\ Rows(r) = Nothing => Rows(r)' = Nothing
         /\ Len(rest) <= Len(used[r])
<1>1. used[r] \in Seq(Nat)
  BY DEF TypedHistory
<1>2. /\ rest \in Seq(Nat) /\ Len(rest) <= Len(used[r])
      /\ used[r] = <<>> => rest = <<>>
      /\ \A k \in DOMAIN rest : /\ k + Len(seen.used) \in DOMAIN used[r]
                                /\ rest[k] = used[r][k + Len(seen.used)]
                                /\ ~(k + Len(seen.used) <= Len(seen.used))
  BY <1>1, Rest
<1>3. DraftNumbers(r)' \subseteq DraftNumbers(r)
  BY DEF DraftNumbers
<1>4. DraftNumbers(r) \ gone \subseteq DraftNumbers(r)'
  BY DEF DraftNumbers
<1>5. \A d \in kept : /\ d.decision \in DOMAIN decisions[r]
                      /\ d.parent \in {0} \cup DraftNumbers(r)'
                      /\ \A e \in kept : d.version = e.version => d = e
  BY <1>4 DEF Linked
<1>6. approved'[r] \subseteq DraftNumbers(r)'
  BY <1>4 DEF Linked
<1>7. \A k \in DOMAIN rest : rest[k] \in approved'[r]
  BY <1>2 DEF Linked
<1>8. Linked(r)'
  <2>1. \A k \in DOMAIN decisions[r] : decisions[r][k] \in DOMAIN assessments[r]
    BY DEF Linked
  <2> QED
    BY <1>5, <1>6, <1>7, <2>1 DEF Linked
<1>9. Bounded(r)'
  BY <1>3 DEF Bounded
<1>10. ASSUME Rows(r) = Nothing
       PROVE  Rows(r)' = Nothing
  <2>1. /\ assessments[r] = <<>> /\ decisions[r] = <<>> /\ drafts[r] = {} /\ approved[r] = {}
        /\ used[r] = <<>>
    BY <1>10 DEF Rows, Nothing
  <2>2. /\ assessments'[r] = <<>> /\ decisions'[r] = <<>> /\ drafts'[r] = {}
        /\ approved'[r] = {} /\ used'[r] = <<>>
    BY <1>2, <2>1
  <2> QED
    BY <2>2 DEF Rows, Nothing
<1> QED
  BY <1>2, <1>8, <1>9, <1>10

\* apply_retention_plan deletes the drafts it collected, their approvals and uses.
LEMMA RetainChainStep ==
  ASSUME ReviewInv, NEW a \in Actor, RetainChain(a)
  PROVE  ReviewInv'
<1>1. CASE Refuse(a)
  BY <1>1, RefuseStep
<1>2. CASE ~Refuse(a)
  <2>1. /\ txn[a].op = "retain chain" /\ txn[a].stage = "writing" /\ Standing(txn[a])
    BY DEF ReviewInv, RetainChain, Ready
  <2>2. PICK r \in Run : r = txn[a].run
    BY <2>1 DEF Standing
  <2>3. PICK seen : seen = txn[a].seen
    OBVIOUS
  <2>4. PICK gone : gone = {d.version : d \in seen.drafts}
    OBVIOUS
  <2>5. PICK kept : kept = drafts[r] \ seen.drafts
    OBVIOUS
  <2>6. PICK rest : rest = SubSeq(used[r], Len(seen.used) + 1, Len(used[r]))
    OBVIOUS
  <2>7. PICK what : what = [Rows(r) EXCEPT !.drafts = kept, !.approved = @ \ gone,
                              !.used = SubSeq(@, Len(seen.used) + 1, Len(@))]
    OBVIOUS
  <2>8. /\ \A d \in kept : d.parent \notin gone
        /\ \A k \in DOMAIN used[r] : used[r][k] \in gone => k <= Len(seen.used)
        /\ SetRows({r}, what) /\ End(a) /\ SameInputs /\ run' = run
    BY <1>2, <2>2, <2>3, <2>4, <2>5, <2>7 DEF RetainChain, SameInputs
  <2>9. /\ what.assessments = assessments[r] /\ what.decisions = decisions[r]
        /\ what.drafts = kept /\ what.approved = approved[r] \ gone /\ what.used = rest
    BY <2>6, <2>7 DEF Rows
  <2>10. /\ assessments'[r] = assessments[r] /\ decisions'[r] = decisions[r] /\ drafts'[r] = kept
         /\ approved'[r] = approved[r] \ gone /\ used'[r] = rest
    BY <2>8, <2>9 DEF SetRows
  <2>11. \A s \in Run \ {r} : /\ assessments'[s] = assessments[s] /\ decisions'[s] = decisions[s]
                              /\ drafts'[s] = drafts[s] /\ approved'[s] = approved[s]
                              /\ used'[s] = used[s]
    BY <2>8 DEF SetRows
  <2>12. /\ Linked(r)' /\ Bounded(r)' /\ rest \in Seq(Nat)
         /\ Rows(r) = Nothing => Rows(r)' = Nothing
    <3>1. Len(seen.used) \in Nat /\ TypedHistory /\ Linked(r) /\ Bounded(r)
      BY <2>1, <2>3 DEF Standing, ReviewInv
    <3> QED
      BY <2>4, <2>5, <2>6, <2>8, <2>10, <3>1, ShortenedLinked
  <2>13. \A s \in Run \ {r} : Rows(s)' = Rows(s)
    BY <2>11 DEF Rows
  <2>14. /\ TypedInputs' /\ CurrentProfile' = CurrentProfile /\ CurrentProfile \in Nat
         /\ vacancyDeleted' = vacancyDeleted /\ status' = status /\ facts' = facts
         /\ versions' = versions /\ confirmed' = confirmed /\ permitted' = permitted
         /\ \A s : Sound(s) => Sound(s)'
    BY <2>8, InputsStay
  <2>15. TypedHistory'
    <3>1. assessments' \in [Run -> Seq(1..MaxProfile)] /\ decisions' \in [Run -> Seq(Nat \ {0})]
      BY <2>8, <2>9 DEF ReviewInv, TypedHistory, SetRows
    <3>2. drafts' \in [Run -> SUBSET Draft] /\ approved' \in [Run -> SUBSET Nat]
      BY <2>5, <2>8, <2>9 DEF ReviewInv, TypedHistory, SetRows
    <3>3. used' \in [Run -> Seq(Nat)]
      BY <2>8, <2>9, <2>12 DEF ReviewInv, TypedHistory, SetRows
    <3> QED
      BY <2>8, <3>1, <3>2, <3>3 DEF ReviewInv, TypedHistory
  <2>16. SoundRuns'
    BY <2>8, <2>14 DEF ReviewInv, SoundRuns
  <2>17. PurgedLeavesNoReview'
    BY <2>12, <2>13, <2>14 DEF ReviewInv, PurgedLeavesNoReview
  <2>18. \A s \in Run : HasEntry(s)' = HasEntry(s)
    BY <2>8 DEF HasEntry
  <2>19. ASSUME NEW s \in Run
         PROVE  Bounded(s)' /\ Linked(s)' /\ RowsNeedEntry(s)'
    <3>1. s # r => Bounded(s)' /\ Linked(s)'
      BY <2>11 DEF ReviewInv, Bounded, Linked, DraftNumbers
    <3>2. RowsNeedEntry(s)'
      BY <2>12, <2>13, <2>18 DEF ReviewInv, RowsNeedEntry
    <3> QED
      BY <2>12, <3>1, <3>2
  <2>20. RowsStand
    BY <2>14, <2>15, <2>16, <2>17, <2>19 DEF RowsStand
  <2>21. \A rows : Spares(rows)
    <3>1. \A s \in Run : drafts'[s] \subseteq drafts[s]
      BY <2>5, <2>10, <2>11
    <3>2. \A s \in Run : Rows(s) = Nothing => Rows(s)' = Nothing
      BY <2>12, <2>13
    <3> QED
      BY <2>8, <2>10, <2>11, <2>14, <2>18, <3>1, <3>2 DEF Spares
  <2> QED
    BY <2>8, <2>20, <2>21, WriteStep
<1> QED
  BY <1>1, <1>2

-----------------------------------------------------------------------------
(* The invariant. *)

\* At the start there is a confirmed version of the requirements and nothing
\* else.
LEMMA ReviewInit == Init => ReviewInv
<1> SUFFICES ASSUME Init PROVE ReviewInv
  OBVIOUS
<1>1. TypedInputs
  <2>1. 1 \in 1..MaxRequirement /\ 1 \in 0..MaxProfile /\ 0 \in 0..MaxChange /\ 1 \in 1..1
    BY ReviewAssumption
  <2>2. versions \in 0..MaxProfile /\ confirmed \subseteq 1..versions
    BY <2>1 DEF Init
  <2> QED
    BY <2>1, <2>2, ReviewAssumption DEF Init, TypedInputs
<1>2. /\ run = [r \in Run |-> None] /\ assessments = [r \in Run |-> <<>>]
      /\ decisions = [r \in Run |-> <<>>] /\ drafts = [r \in Run |-> {}]
      /\ approved = [r \in Run |-> {}] /\ used = [r \in Run |-> <<>>]
  BY DEF Init
<1>3. TypedHistory
  <2>1. /\ <<>> \in Seq(1..MaxProfile) /\ <<>> \in Seq(Nat \ {0}) /\ <<>> \in Seq(Nat)
        /\ None \in MatchRun
    BY DEF MatchRun
  <2> QED
    BY <1>2, <2>1 DEF TypedHistory
<1>4. \A a \in Actor : txn[a] = Idle
  BY DEF Init
<1>5. TypedTxn /\ Apart
  BY <1>4, IdleTyped DEF TypedTxn, Apart, Init, Idle
<1>6. \A a \in Actor : LocksHeld(txn[a]) /\ InOrder(txn[a]) /\ Standing(txn[a])
  <2>1. PICK t : t = Idle
    OBVIOUS
  <2>2. LocksHeld(t) /\ InOrder(t) /\ Standing(t)
    BY <2>1, IdleStands
  <2>3. \A a \in Actor : txn[a] = t
    BY <1>4, <2>1
  <2> QED
    BY <2>2, <2>3
<1>7. ASSUME NEW r \in Run
      PROVE  Linked(r) /\ Bounded(r) /\ Rows(r) = Nothing
  <2>1. /\ assessments[r] = <<>> /\ decisions[r] = <<>> /\ drafts[r] = {}
        /\ approved[r] = {} /\ used[r] = <<>>
    BY <1>2
  <2> QED
    BY <2>1 DEF Linked, Bounded, DraftNumbers, Rows, Nothing
<1>8. \A r \in Run : RowsNeedEntry(r)
  BY <1>7 DEF RowsNeedEntry
<1>9. SoundRuns
  BY <1>2 DEF SoundRuns, None
<1>10. PurgedLeavesNoReview
  BY DEF Init, PurgedLeavesNoReview
<1> QED
  BY <1>1, <1>3, <1>5, <1>6, <1>7, <1>8, <1>9, <1>10 DEF ReviewInv

\* The requests of an actor.
LEMMA ActorStep ==
  ASSUME ReviewInv, NEW a \in Actor,
         Lock(a) \/ Fail(a) \/ Shortlist(a) \/ Assess(a) \/ Decide(a) \/ Generate(a)
           \/ Outreach(a) \/ Curate(a) \/ Delete(a)
  PROVE  ReviewInv'
<1>1. CASE Lock(a) \/ Fail(a)
  BY <1>1, LockStep, RefuseStep DEF Fail
<1>2. CASE Shortlist(a)
  BY <1>2, StartShortlistStep, ReadCandidatesStep, ReadSkillsStep, ReadProfilesStep, RankStep,
     SaveRunStep DEF Shortlist
<1>3. CASE Assess(a)
  BY <1>3, StartAssessStep, HearAssessmentStep, CheckAssessStep, SaveAssessmentStep DEF Assess
<1>4. CASE Decide(a) \/ Generate(a)
  BY <1>4, CheckDecideStep, SaveDecisionStep, StartDraftStep, HearDraftStep, SaveDraftStep
     DEF Decide, Generate
<1>5. CASE Outreach(a)
  BY <1>5, StartDraftOpStep, CheckDraftOpStep, SaveEditStep, SaveApprovalStep, SaveUseStep
     DEF Outreach
<1>6. CASE Curate(a)
  BY <1>6, StartCorrectingStep, ConfirmStep, CorrectStep, UpdateSourceStep, StartChangeStep,
     ChangeStep DEF Curate
<1>7. CASE Delete(a)
  BY <1>7, CheckPurgeStep, CollectPurgeStep, PurgeStep, PlanRetentionStep, CollectRetentionStep,
     RetainRunStep, RetainChainStep DEF Delete
<1> QED
  BY <1>1, <1>2, <1>3, <1>4, <1>5, <1>6, <1>7

\* ReviewInv is inductive.
LEMMA ReviewNext == ReviewInv /\ [Next]_vars => ReviewInv'
<1> SUFFICES ASSUME ReviewInv, [Next]_vars PROVE ReviewInv'
  OBVIOUS
<1>1. CASE UNCHANGED vars
  <2>1. Quiet /\ txn' = txn
    BY <1>1 DEF vars, Quiet
  <2> QED
    BY <2>1, QuietSpares, OutsideStep
<1>2. CASE Next
  BY <1>2, ActorStep, RecruiterStep DEF Next
<1> QED
  BY <1>1, <1>2

(* ReviewInv holds in every reachable state: what a request checked stands     *)
(* until it writes, because the rows it checked are locked.                    *)
THEOREM ReviewInvariant == Spec => []ReviewInv
BY ReviewInit, ReviewNext, PTL DEF Spec

(* The variables keep their types and the chain of an entry keeps its links,   *)
(* for every number of runs, whoever writes, corrects, purges or retains.      *)
THEOREM ReviewTypes == Spec => []TypeOK
<1>1. ReviewInv => TypeOK
  <2> SUFFICES ASSUME ReviewInv PROVE TypeOK
    OBVIOUS
  <2>1. ASSUME NEW r \in Run
        PROVE  /\ run[r] \in MatchRun
               /\ assessments[r] \in Seq(1..MaxProfile)
               /\ decisions[r] \in Seq(DOMAIN assessments[r])
               /\ drafts[r] \subseteq Draft
               /\ \A d \in drafts[r] : /\ d.decision \in DOMAIN decisions[r]
                                       /\ d.parent \in {0} \cup DraftNumbers(r)
                                       /\ \A e \in drafts[r] : d.version = e.version => d = e
               /\ approved[r] \subseteq DraftNumbers(r)
               /\ used[r] \in Seq(approved[r])
    <3>1. Linked(r) /\ decisions[r] \in Seq(Nat \ {0}) /\ used[r] \in Seq(Nat)
      BY DEF ReviewInv, TypedHistory
    <3>2. decisions[r] \in Seq(DOMAIN assessments[r])
      <4>1. \A s \in Seq(Nat \ {0}) : \A D :
              (\A k \in DOMAIN s : s[k] \in D) => s \in Seq(D)
        OBVIOUS
      <4> QED
        BY <3>1, <4>1 DEF Linked
    <3>3. used[r] \in Seq(approved[r])
      <4>1. \A s \in Seq(Nat) : \A D : (\A k \in DOMAIN s : s[k] \in D) => s \in Seq(D)
        OBVIOUS
      <4> QED
        BY <3>1, <4>1 DEF Linked
    <3> QED
      BY <3>1, <3>2, <3>3 DEF ReviewInv, TypedHistory, Linked
  <2>2. DOMAIN run = Run /\ TypedInputs
    BY DEF ReviewInv, TypedHistory
  <2>3. \A a \in Actor : txn[a].run \in {0} \cup Run
    BY DEF ReviewInv, TypedTxn, Txn
  <2> QED
    BY <2>1, <2>2, <2>3 DEF TypeOK, TypedInputs
<1> QED
  BY <1>1, ReviewInvariant, PTL

(* After a purge nothing of the candidate is left, whatever was in flight.      *)
THEOREM ReviewPurge == Spec => []PurgedLeavesNoReview
<1>1. ReviewInv => PurgedLeavesNoReview
  BY DEF ReviewInv
<1> QED
  BY <1>1, ReviewInvariant, PTL

(* A run that is not stale shows what the rules say now: its reads may have    *)
(* straddled confirmations, but profiles only get newer, so the profile that   *)
(* it read, ranked and would read again is the same.                           *)
THEOREM ReviewFreshness == Spec => []FreshRunIsRight
<1>1. ReviewInv => FreshRunIsRight
  <2> SUFFICES ASSUME ReviewInv, NEW r \in Run, run[r].exists, ~Stale(r)
               PROVE  LET listed == status = "active" /\ Eligible(requirement, CurrentProfile, facts) IN
                      /\ run[r].entry = listed
                      /\ run[r].ranked = IF listed THEN CurrentProfile ELSE 0
    BY DEF FreshRunIsRight
  <2>1. PICK s \in ShortlistRun : s = run[r]
    BY SavedRun DEF ReviewInv
  <2>2. Sound(s) /\ s.requirement = requirement /\ s.input = CurrentInput
    BY <2>1 DEF ReviewInv, SoundRuns, Stale
  <2>3. s.entry \in BOOLEAN /\ s.ranked \in Nat /\ CurrentProfile \in Nat
    BY CurrentIsNumber, ReviewAssumption DEF ShortlistRun, ReviewInv
  <2>4. CASE status = "active"
    <3>1. /\ s.input # NoInput /\ s.input.profile = CurrentProfile /\ s.input.facts = facts
      BY <2>2, <2>4 DEF CurrentInput, Signature, NoInput
    <3> QED
      BY <2>1, <2>2, <2>3, <2>4, <3>1 DEF Sound
  <2>5. CASE status # "active"
    <3>1. s.input = NoInput
      BY <2>2, <2>5 DEF CurrentInput
    <3> QED
      BY <2>1, <2>2, <2>3, <2>5, <3>1 DEF Sound
  <2> QED
    BY <2>4, <2>5
<1> QED
  BY <1>1, ReviewInvariant, PTL

-----------------------------------------------------------------------------
(* Deadlocks. *)

\* a waits for a row it is about to lock, and b locked it.
WaitsToLock(a, b) == a # b /\ txn[a].todo # <<>> /\ Head(txn[a].todo) \in txn[b].held

\* Who is in order waits at no commit, and in a set of them that wait for one
\* another nobody is at his commit.
LEMMA WaitsAreForLocks ==
  ASSUME NEW S \in SUBSET Actor, Deadlocked(S), \A a \in S : ~OutOfOrder(a),
         NEW a \in S, NEW b \in S, WaitsFor(a, b)
  PROVE  WaitsToLock(a, b)
<1>1. ~(AtCommit(a) /\ ShareRows(a) \cap Taken(b) # {})
  BY DEF OutOfOrder, HeldUp, WaitsFor
<1>2. ASSUME AtCommit(b) PROVE FALSE
  <2>1. PICK c \in S : WaitsFor(b, c)
    BY DEF Deadlocked
  <2>2. txn[b].todo = <<>>
    BY <1>2 DEF AtCommit
  <2>3. ShareRows(b) \cap Taken(c) # {} /\ c \in Actor \ {b}
    BY <2>1, <2>2 DEF WaitsFor
  <2> QED
    BY <1>2, <2>3 DEF OutOfOrder, HeldUp
<1> QED
  BY <1>1, <1>2 DEF WaitsFor, WaitsToLock

\* Whoever waits for a row waits at a higher place than any row he holds.
LEMMA WaitsHigher ==
  ASSUME ReviewInv, NEW a \in Actor, NEW b \in Actor, WaitsToLock(a, b), txn[b].todo # <<>>,
         txn[b].op \notin Correcting
  PROVE  Place(Head(txn[a].todo)) < Place(Head(txn[b].todo))
<1>1. txn[b] \in Txn(txn[b].seen) /\ InOrder(txn[b])
  BY DEF ReviewInv, TypedTxn
<1>2. PICK s \in Seq(Row) : s = txn[b].todo
  BY <1>1 DEF Txn
<1>3. 1 \in DOMAIN s /\ Head(s) = s[1]
  BY <1>1, <1>2, RestIsWanted
<1> QED
  BY <1>1, <1>2, <1>3 DEF WaitsToLock, InOrder

(* No set of requests about entries, however many, with retention or without,  *)
(* waits for itself while all wait for locks: the one that waits at the        *)
(* highest place would wait for another that waits higher.  (A commit that     *)
(* has to share a row that another has locked can close a circle.)             *)
THEOREM ReviewDeadlocks == Spec => []DeadlockNeedsOutOfOrder
<1>1. ReviewInv => DeadlockNeedsOutOfOrder
  <2> SUFFICES ASSUME ReviewInv, NEW S \in SUBSET Actor, Deadlocked(S),
                      \A a \in S : ~OutOfOrder(a)
               PROVE  FALSE
    BY DEF DeadlockNeedsOutOfOrder
  <2> DEFINE Heights == {Place(Head(txn[a].todo)) : a \in S}
  <2>1. Heights \subseteq Nat /\ Heights # {} /\ \A h \in Heights : h <= 7
    BY Places DEF Deadlocked
  <2>2. PICK h \in Heights : \A g \in Heights : g <= h
    BY <2>1, MaxExists
  <2>3. PICK a \in S : h = Place(Head(txn[a].todo))
    BY <2>2
  <2>4. PICK b \in S : WaitsToLock(a, b)
    BY <2>3, WaitsAreForLocks DEF Deadlocked
  <2>5. txn[b].todo # <<>> /\ txn[b].op \notin Correcting
    BY WaitsAreForLocks DEF Deadlocked, WaitsToLock, OutOfOrder, Correcting
  <2>6. h < Place(Head(txn[b].todo))
    BY <2>3, <2>4, <2>5, WaitsHigher
  <2> QED
    BY <2>1, <2>2, <2>6
<1> QED
  BY <1>1, ReviewInvariant, PTL

-----------------------------------------------------------------------------
(* What a step may add. *)

\* A step adds a row to the chain of r.
Adds(r) == \/ Newer(assessments[r], assessments'[r]) \/ Newer(decisions[r], decisions'[r])
           \/ ~ (drafts'[r] \subseteq drafts[r]) \/ Released(r) # {}

Writes(a) == \/ SaveAssessment(a) \/ SaveDecision(a) \/ SaveDraft(a) \/ SaveEdit(a)
             \/ SaveApproval(a) \/ SaveUse(a)

\* An entry left alone or emptied has nothing new on it.
LEMMA NoneAdded ==
  ASSUME TypedHistory, NEW r \in Run
  PROVE  /\ assessments'[r] \in {assessments[r], <<>>} => ~Newer(assessments[r], assessments'[r])
         /\ decisions'[r] \in {decisions[r], <<>>} => ~Newer(decisions[r], decisions'[r])
         /\ drafts'[r] \in {drafts[r], {}} => drafts'[r] \subseteq drafts[r]
         /\ used'[r] \in {used[r], <<>>} => ~Newer(used[r], used'[r])
         /\ approved'[r] \subseteq approved[r] /\ ~Newer(used[r], used'[r]) => Released(r) = {}
<1>1. /\ Len(assessments[r]) \in Nat /\ Len(decisions[r]) \in Nat /\ Len(used[r]) \in Nat
      /\ Len(<<>>) = 0
  BY DEF TypedHistory
<1> QED
  BY <1>1 DEF Newer, Released

\* A step that leaves the rows of entries adds nothing.
LEMMA SameAddsNothing ==
  ASSUME ReviewInv, NEW r \in Run, assessments' = assessments, decisions' = decisions,
         drafts' = drafts, approved' = approved, used' = used
  PROVE  ~Adds(r)
BY NoneAdded DEF Adds, ReviewInv

\* Purge and retention add nothing.
LEMMA DeletionsAddNothing ==
  ASSUME ReviewInv, NEW a \in Actor, Delete(a), NEW r \in Run
  PROVE  ~Adds(r)
<1>1. TypedHistory
  BY DEF ReviewInv
<1>2. ASSUME UNCHANGED history
      PROVE  ~Adds(r)
  BY <1>2, SameAddsNothing DEF history
<1>3. ASSUME NEW S, SetRows(S, Nothing)
      PROVE  ~Adds(r)
  <2>1. CASE r \in S
    <3>1. /\ assessments'[r] = <<>> /\ decisions'[r] = <<>> /\ drafts'[r] = {}
          /\ approved'[r] = {} /\ used'[r] = <<>>
      BY <1>3, <2>1, Emptied, NothingLinked
    <3> QED
      BY <1>1, <3>1, NoneAdded DEF Adds
  <2>2. CASE r \notin S
    <3>1. /\ assessments'[r] = assessments[r] /\ decisions'[r] = decisions[r]
          /\ drafts'[r] = drafts[r] /\ approved'[r] = approved[r] /\ used'[r] = used[r]
      BY <1>3, <2>2, Emptied
    <3> QED
      BY <1>1, <3>1, NoneAdded DEF Adds
  <2> QED
    BY <2>1, <2>2
<1>4. CASE CheckPurge(a) \/ CollectPurge(a) \/ PlanRetention(a) \/ CollectRetention(a)
  BY <1>2, <1>4 DEF CheckPurge, CollectPurge, PlanRetention, CollectRetention, Start, Begin
<1>5. CASE Purge(a)
  BY <1>2, <1>3, <1>5 DEF Purge, Refuse
<1>6. CASE RetainRun(a)
  BY <1>2, <1>3, <1>6 DEF RetainRun, Refuse
<1>7. CASE RetainChain(a)
  <2>1. CASE Refuse(a)
    BY <1>2, <2>1 DEF Refuse
  <2>2. CASE ~Refuse(a)
    <3>1. PICK x : x = txn[a].run
      OBVIOUS
    <3>2. PICK seen : seen = txn[a].seen
      OBVIOUS
    <3>3. PICK gone : gone = {d.version : d \in seen.drafts}
      OBVIOUS
    <3>4. PICK what : what = [Rows(x) EXCEPT !.drafts = drafts[x] \ seen.drafts, !.approved = @ \ gone,
                                !.used = SubSeq(@, Len(seen.used) + 1, Len(@))]
      OBVIOUS
    <3>5. SetRows({x}, what)
      BY <1>7, <2>2, <3>1, <3>2, <3>3, <3>4 DEF RetainChain
    <3>6. /\ what.assessments = assessments[x] /\ what.decisions = decisions[x]
          /\ what.drafts = drafts[x] \ seen.drafts /\ what.approved = approved[x] \ gone
          /\ what.used = SubSeq(used[x], Len(seen.used) + 1, Len(used[x]))
      BY <3>4 DEF Rows
    <3>7. /\ assessments'[r] = assessments[r] /\ decisions'[r] = decisions[r]
          /\ drafts'[r] \subseteq drafts[r] /\ approved'[r] \subseteq approved[r]
          /\ used'[r] = used[r] \/ used'[r] = SubSeq(used[r], Len(seen.used) + 1, Len(used[r]))
      BY <3>5, <3>6 DEF SetRows
    <3>8. ~Newer(used[r], used'[r])
      <4>1. used[r] \in Seq(Nat) /\ Len(seen.used) \in Nat
        BY <1>7, <3>2 DEF ReviewInv, TypedHistory, Standing, RetainChain, Ready
      <4>2. CASE used'[r] = used[r]
        BY <1>1, <4>2, NoneAdded
      <4>3. CASE used'[r] = SubSeq(used[r], Len(seen.used) + 1, Len(used[r]))
        <5>1. PICK u : u = SubSeq(used[r], Len(seen.used) + 1, Len(used[r]))
          OBVIOUS
        <5>2. u \in Seq(Nat) /\ Len(u) <= Len(used[r])
          BY <4>1, <5>1, Rest
        <5>3. Len(u) \in Nat /\ Len(used[r]) \in Nat /\ used'[r] = u
          BY <4>1, <4>3, <5>1, <5>2
        <5> QED
          BY <5>2, <5>3 DEF Newer
      <4> QED
        BY <3>7, <4>2, <4>3
    <3> QED
      BY <1>1, <3>7, <3>8, NoneAdded DEF Adds
  <2> QED
    BY <2>1, <2>2
<1> QED
  BY <1>4, <1>5, <1>6, <1>7 DEF Delete

\* Only the six writes add rows.
LEMMA OnlyWritesAdd ==
  ASSUME ReviewInv, [Next]_vars, NEW r \in Run, Adds(r)
  PROVE  \E a \in Actor : Writes(a)
<1> SUFFICES ASSUME \A a \in Actor : ~Writes(a)
             PROVE  ~Adds(r)
  OBVIOUS
<1> DEFINE Kept == /\ assessments' = assessments /\ decisions' = decisions /\ drafts' = drafts
                   /\ approved' = approved /\ used' = used
<1>1. UNCHANGED history => Kept
  BY DEF history
<1>2. Kept => ~Adds(r)
  BY SameAddsNothing
<1> HIDE DEF Kept
<1>3. CASE UNCHANGED vars
  BY <1>1, <1>2, <1>3 DEF vars
<1>4. CASE ConfirmRequirements
  BY <1>1, <1>2, <1>4 DEF ConfirmRequirements
<1>5. ASSUME NEW a \in Actor, Lock(a) \/ Fail(a)
      PROVE  ~Adds(r)
  BY <1>1, <1>2, <1>5 DEF Lock, Fail, Refuse
<1>6. ASSUME NEW a \in Actor, Shortlist(a)
      PROVE  ~Adds(r)
  <2>1. CASE SaveRun(a)
    BY <1>2, <2>1 DEF SaveRun, Kept
  <2>2. CASE ~SaveRun(a)
    BY <1>1, <1>2, <1>6, <2>2 DEF Shortlist, StartShortlist, ReadCandidates, ReadSkills, ReadProfiles,
                                  Rank, See, Refuse, Proceed
  <2> QED
    BY <2>1, <2>2
<1>7. ASSUME NEW a \in Actor, Assess(a) \/ Decide(a) \/ Generate(a) \/ Outreach(a)
      PROVE  ~Adds(r)
  BY <1>1, <1>2, <1>7 DEF Assess, Decide, Generate, Outreach, Writes, StartAssess, HearAssessment,
       CheckAssess, CheckDecide, StartDraft, HearDraft, StartDraftOp, CheckDraftOp, Checked, Start,
       Begin, Proceed, Refuse
<1>8. ASSUME NEW a \in Actor, Curate(a)
      PROVE  ~Adds(r)
  BY <1>1, <1>2, <1>8 DEF Curate, StartConfirm, Confirm, StartCorrect, Correct, StartSource,
       UpdateSource, StartChange, StartCancel, UpdateCandidate, RequestDeletion, CancelDeletion,
       SetStatus, DeleteVacancy, Start, Begin, Refuse
<1>9. ASSUME NEW a \in Actor, Delete(a)
      PROVE  ~Adds(r)
  BY <1>9, DeletionsAddNothing
<1> QED
  BY <1>3, <1>4, <1>5, <1>6, <1>7, <1>8, <1>9 DEF Next

Proper(r) == NewestOnly(r) /\ OnCurrentEvidence(r) /\ FiledOnCurrent(r)

\* Where nothing is added there is nothing to justify.
LEMMA NothingAdded ==
  ASSUME NEW r \in Run, ~Adds(r)
  PROVE  Proper(r)
BY DEF Adds, Proper, NewestOnly, OnCurrentEvidence, FiledOnCurrent

\* A write concerns one run.
LEMMA OtherRuns ==
  ASSUME TypedHistory, NEW r \in Run,
         assessments'[r] = assessments[r], decisions'[r] = decisions[r], drafts'[r] = drafts[r],
         approved'[r] = approved[r], used'[r] = used[r]
  PROVE  Proper(r)
BY NoneAdded, NothingAdded DEF Adds

\* The last element of a sequence is the one appended.
LEMMA Appended ==
  ASSUME NEW D, NEW s \in Seq(D), NEW x \in D
  PROVE  Last(Append(s, x)) = x
<1>1. Len(Append(s, x)) = Len(s) + 1 /\ Append(s, x)[Len(s) + 1] = x
  OBVIOUS
<1> QED
  BY <1>1 DEF Last

\* A saved assessment is of the profile that is current then.
LEMMA AssessmentIsProper ==
  ASSUME ReviewInv, NEW a \in Actor, SaveAssessment(a), NEW r \in Run
  PROVE  Proper(r)
<1>1. TypedHistory
  BY DEF ReviewInv
<1>2. /\ txn[a].op = "assess" /\ txn[a].stage = "writing" /\ Standing(txn[a])
  BY DEF ReviewInv, SaveAssessment, Ready
<1>3. PICK p \in 1..MaxProfile : p = txn[a].arg
  BY <1>2 DEF Standing
<1>4. /\ assessments' = [assessments EXCEPT ![txn[a].run] = Append(@, p)]
      /\ decisions' = decisions /\ drafts' = drafts /\ approved' = approved /\ used' = used
  BY <1>3 DEF SaveAssessment
<1>5. CASE r # txn[a].run
  BY <1>1, <1>4, <1>5, OtherRuns DEF TypedHistory
<1>6. CASE r = txn[a].run
  <2>1. assessments[r] \in Seq(1..MaxProfile) /\ assessments'[r] = Append(assessments[r], p)
    BY <1>1, <1>4, <1>6 DEF TypedHistory
  <2>2. Last(assessments'[r]) = p
    BY <2>1, Appended
  <2>3. AssessStands(r, p)
    BY <1>2, <1>3, <1>6 DEF Standing
  <2>4. FiledOnCurrent(r)
    BY <2>2, <2>3 DEF FiledOnCurrent, AssessStands
  <2>5. Released(r) = {} /\ ~Newer(decisions[r], decisions'[r])
    BY <1>1, <1>4, NoneAdded
  <2> QED
    BY <1>4, <2>4, <2>5 DEF Proper, NewestOnly, OnCurrentEvidence
<1> QED
  BY <1>5, <1>6

\* A saved decision is about the newest assessment.
LEMMA DecisionIsProper ==
  ASSUME ReviewInv, NEW a \in Actor, SaveDecision(a), NEW r \in Run
  PROVE  Proper(r)
<1>1. TypedHistory
  BY DEF ReviewInv
<1>2. /\ txn[a].op = "decide" /\ txn[a].stage = "writing" /\ Standing(txn[a])
  BY DEF ReviewInv, SaveDecision, Ready
<1>3. PICK v : v = txn[a].arg
  OBVIOUS
<1>4. /\ decisions' = [decisions EXCEPT ![txn[a].run] = Append(@, v)]
      /\ assessments' = assessments /\ drafts' = drafts /\ approved' = approved /\ used' = used
  BY <1>3 DEF SaveDecision
<1>5. CASE r # txn[a].run
  BY <1>1, <1>4, <1>5, OtherRuns DEF TypedHistory
<1>6. CASE r = txn[a].run
  <2>1. v = Len(assessments[r]) /\ v # 0 /\ Len(assessments[r]) \in Nat
    BY <1>1, <1>2, <1>3, <1>6 DEF Standing, DecideStands, TypedHistory
  <2>2. decisions[r] \in Seq(Nat \ {0}) /\ decisions'[r] = Append(decisions[r], v)
    BY <1>1, <1>4, <1>6 DEF TypedHistory
  <2>3. Last(decisions'[r]) = v
    BY <2>1, <2>2, Appended
  <2>4. Released(r) = {} /\ ~Newer(assessments[r], assessments'[r])
    BY <1>1, <1>4, NoneAdded
  <2> QED
    BY <1>4, <2>1, <2>3, <2>4 DEF Proper, NewestOnly, OnCurrentEvidence, FiledOnCurrent
<1> QED
  BY <1>5, <1>6

\* A saved draft follows the newest decision and the newest draft.
LEMMA NewDraftIsProper ==
  ASSUME ReviewInv, NEW x \in Run, NEW parent, AddDraft(x, Len(decisions[x]), parent),
         assessments' = assessments, decisions' = decisions, approved' = approved, used' = used,
         NEW r \in Run
  PROVE  Proper(r)
<1>1. TypedHistory
  BY DEF ReviewInv
<1>2. PICK new : new = [version |-> LatestDraft(x) + 1, decision |-> Len(decisions[x]),
                        parent |-> parent]
  OBVIOUS
<1>3. new.version = LatestDraft(x) + 1 /\ new.decision = Len(decisions[x])
  BY <1>2
<1>4. drafts' = [drafts EXCEPT ![x] = @ \cup {new}]
  BY <1>2 DEF AddDraft
<1>5. CASE r # x
  BY <1>1, <1>4, <1>5, OtherRuns DEF TypedHistory
<1>6. CASE r = x
  <2>1. drafts'[r] \ drafts[r] \subseteq {new}
    BY <1>1, <1>4, <1>6 DEF TypedHistory
  <2>2. LatestDraft(r) \in Nat
    BY <1>1, LatestIsNewest DEF ReviewInv
  <2>3. /\ Released(r) = {} /\ ~Newer(assessments[r], assessments'[r])
        /\ ~Newer(decisions[r], decisions'[r])
    BY <1>1, NoneAdded
  <2> QED
    BY <1>3, <1>6, <2>1, <2>2, <2>3 DEF Proper, NewestOnly, OnCurrentEvidence, FiledOnCurrent
<1> QED
  BY <1>5, <1>6

\* This goes for generated and for edited drafts.
LEMMA DraftIsProper ==
  ASSUME ReviewInv, NEW a \in Actor, SaveDraft(a) \/ SaveEdit(a), NEW r \in Run
  PROVE  Proper(r)
<1>1. CASE SaveDraft(a)
  <2>1. txn[a].op = "generate" /\ txn[a].stage = "writing" /\ Standing(txn[a])
    BY <1>1 DEF ReviewInv, SaveDraft, Ready
  <2>2. PICK x \in Run : x = txn[a].run
    BY <2>1 DEF Standing
  <2>3. txn[a].arg = Len(decisions[x])
    BY <2>1, <2>2 DEF Standing, GenerateStands
  <2>4. AddDraft(x, Len(decisions[x]), 0)
    BY <1>1, <2>2, <2>3 DEF SaveDraft
  <2> QED
    BY <1>1, <2>4, NewDraftIsProper DEF SaveDraft
<1>2. CASE SaveEdit(a)
  <2>1. txn[a].op \in DraftOp /\ Ready(a, DraftOp, "writing") /\ DraftStands(a)
    BY <1>2 DEF SaveEdit, Ready, DraftOp
  <2>2. PICK x \in Run : x = txn[a].run
    BY <2>1, DraftOpFacts
  <2>3. DraftRow(x, txn[a].arg).decision = Len(decisions[x])
    BY <2>1, <2>2, DraftOpFacts DEF DraftOpStands
  <2>4. AddDraft(x, Len(decisions[x]), txn[a].arg)
    BY <1>2, <2>2, <2>3 DEF SaveEdit
  <2> QED
    BY <1>2, <2>4, NewDraftIsProper DEF SaveEdit
<1> QED
  BY <1>1, <1>2

\* An approval or a use is of the latest draft, with permission.
LEMMA ReleaseIsProper ==
  ASSUME ReviewInv, NEW a \in Actor, SaveApproval(a) \/ SaveUse(a), NEW r \in Run
  PROVE  Proper(r)
<1>1. TypedHistory
  BY DEF ReviewInv
<1>2. txn[a].op \in DraftOp /\ Ready(a, DraftOp, "writing") /\ DraftStands(a)
      /\ txn[a].op # "edit"
  BY DEF SaveApproval, SaveUse, Ready, DraftOp
<1>3. PICK x \in Run : x = txn[a].run
  BY <1>2, DraftOpFacts
<1>4. PICK v \in DraftNumbers(x) : v = txn[a].arg
  BY <1>2, <1>3, DraftOpFacts
<1>5. v \in Nat
  BY <1>1 DEF TypedHistory, DraftNumbers, Draft
<1>6. /\ approved' = [approved EXCEPT ![x] = @ \cup {v}]
      /\ used' = used \/ used' = [used EXCEPT ![x] = Append(@, v)]
      /\ assessments' = assessments /\ decisions' = decisions /\ drafts' = drafts
  BY <1>3, <1>4 DEF SaveApproval, SaveUse
<1>7. CASE r # x
  BY <1>1, <1>6, <1>7, OtherRuns DEF TypedHistory
<1>8. CASE r = x
  <2>1. approved'[r] \ approved[r] \subseteq {v}
    BY <1>1, <1>6, <1>8 DEF TypedHistory
  <2>2. Newer(used[r], used'[r]) => Last(used'[r]) = v
    <3>1. used[r] \in Seq(Nat)
      BY <1>1 DEF TypedHistory
    <3>2. CASE used' = used
      BY <1>1, <3>2, NoneAdded
    <3>3. CASE used' = [used EXCEPT ![x] = Append(@, v)]
      <4>1. used'[r] = Append(used[r], v)
        BY <1>1, <1>8, <3>3 DEF TypedHistory
      <4> QED
        BY <1>5, <3>1, <4>1, Appended
    <3> QED
      BY <1>6, <3>2, <3>3
  <2>3. Released(r) \subseteq {v}
    BY <2>1, <2>2 DEF Released
  <2>4. /\ v = LatestDraft(r) /\ DraftRow(r, v).decision = Len(decisions[r])
        /\ Backing(r, v) = Len(assessments[r])
        /\ assessments[r][Backing(r, v)] = CurrentProfile
        /\ status = "active" /\ run[r].input = CurrentInput /\ permitted
    BY <1>2, <1>3, <1>4, <1>8, DraftOpFacts DEF DraftOpStands
  <2>5. ~Newer(assessments[r], assessments'[r]) /\ ~Newer(decisions[r], decisions'[r])
    BY <1>1, <1>6, NoneAdded
  <2> QED
    BY <1>6, <2>3, <2>4, <2>5 DEF Proper, NewestOnly, OnCurrentEvidence, FiledOnCurrent
<1> QED
  BY <1>7, <1>8

\* Whatever a step adds to an entry, it is entitled to.
LEMMA StepsAreProper ==
  ASSUME ReviewInv, [Next]_vars, NEW r \in Run
  PROVE  Proper(r)
<1>1. CASE ~Adds(r)
  BY <1>1, NothingAdded
<1>2. CASE Adds(r)
  <2>1. PICK a \in Actor : Writes(a)
    BY <1>2, OnlyWritesAdd
  <2> QED
    BY <2>1, AssessmentIsProper, DecisionIsProper, DraftIsProper, ReleaseIsProper DEF Writes
<1> QED
  BY <1>1, <1>2

(* Decisions, drafts, approvals and uses follow the newest of what they rest   *)
(* on, whatever other requests have looked it up at the same time: the entry   *)
(* is locked from the check to the write.                                      *)
THEOREM ReviewChain == Spec => ChainIsLatest
<1>1. ReviewInv /\ [Next]_vars => [\A r \in Run : NewestOnly(r)]_vars
  BY StepsAreProper DEF Proper
<1> QED
  BY <1>1, ReviewInvariant, PTL DEF Spec, ChainIsLatest

(* A draft is approved or used only with permission and on the evidence that   *)
(* is current at that moment: the candidate and his sources are locked too.    *)
THEOREM ReviewPermission == Spec => UseIsPermitted
<1>1. ReviewInv /\ [Next]_vars => [\A r \in Run : OnCurrentEvidence(r)]_vars
  BY StepsAreProper DEF Proper
<1> QED
  BY <1>1, ReviewInvariant, PTL DEF Spec, UseIsPermitted

(* An assessment is filed only for the profile, the candidate and the vacancy  *)
(* that are current: the rows it asked the AI service about are locked and     *)
(* compared again after the answer.                                            *)
THEOREM ReviewAssessments == Spec => AssessmentsAreCurrent
<1>1. ReviewInv /\ [Next]_vars => [\A r \in Run : FiledOnCurrent(r)]_vars
  BY StepsAreProper DEF Proper
<1> QED
  BY <1>1, ReviewInvariant, PTL DEF Spec, AssessmentsAreCurrent

-----------------------------------------------------------------------------
(* What shows of a step when locks, AI calls and transactions are hidden.     *)

RowsKept == UNCHANGED <<assessments, decisions, drafts, approved, used>>

\* Where neither the inputs nor the assessments change, the same runs are
\* current.
LEMMA CurrentStays ==
  ASSUME inputs' = inputs, run' = run, assessments' = assessments
  PROVE  /\ Current' = Current /\ status' = status /\ permitted' = permitted
         /\ (status = "active" /\ permitted)' = (status = "active" /\ permitted)
<1>1. /\ status' = status /\ facts' = facts /\ confirmed' = confirmed /\ permitted' = permitted
  BY DEF inputs
<1>2. CurrentProfile' = CurrentProfile /\ CurrentInput' = CurrentInput
  BY <1>1, CurrentInputStays
<1>3. \A r \in Run : (r \in Current)' <=> r \in Current
  BY <1>2 DEF Current, HasEntry
<1>4. Current' \subseteq Run /\ Current \subseteq Run
  BY DEF Current
<1> QED
  BY <1>1, <1>3, <1>4

\* A step that writes no row of an entry is no step of the review.
LEMMA OutOfSight ==
  ASSUME RowsKept, status' = "deleted" <=> status = "deleted"
  PROVE  Promise!Turn
<1>1. Current' \subseteq Run
  BY DEF Current
<1>2. (status' = "active" /\ permitted') \in BOOLEAN
  OBVIOUS
<1>3. status = "deleted" => ~(status' = "active" /\ permitted')
  OBVIOUS
<1>4. (status' = "deleted") = (status = "deleted")
  OBVIOUS
<1> QED
  BY <1>1, <1>2, <1>3, <1>4 DEF Promise!Turn, Promise!chain, RowsKept

\* The newest draft, by either name.
LEMMA NewestByName ==
  ASSUME TypedHistory, NEW r \in Run, Bounded(r)
  PROVE  Promise!Newest(r) = LatestDraft(r)
<1> DEFINE D == {d.version : d \in drafts[r]}
           n == CHOOSE v \in {0} \cup D : \A d \in drafts[r] : d.version <= v
<1>1. /\ LatestDraft(r) \in Nat
      /\ drafts[r] # {} => LatestDraft(r) \in D
      /\ drafts[r] = {} => LatestDraft(r) = 0
      /\ \A v \in D : v <= LatestDraft(r)
  BY LatestIsNewest DEF DraftNumbers
<1>2. D \subseteq Nat \ {0}
  BY DEF TypedHistory, Draft
<1>3. /\ LatestDraft(r) \in {0} \cup D
      /\ \A d \in drafts[r] : d.version <= LatestDraft(r)
  BY <1>1
<1>4. n \in {0} \cup D /\ \A d \in drafts[r] : d.version <= n
  BY <1>3
<1>5. \A v \in D : v <= n
  BY <1>4
<1>6. n <= LatestDraft(r) /\ LatestDraft(r) <= n /\ n \in Nat
  <2>1. n \in Nat
    BY <1>2, <1>4
  <2>2. n <= LatestDraft(r)
    BY <1>1, <1>4, <2>1
  <2>3. LatestDraft(r) <= n
    BY <1>1, <1>4, <1>5, <2>1, <1>2
  <2> QED
    BY <2>1, <2>2, <2>3
<1>7. Promise!Newest(r) = n
  BY DEF Promise!Newest
<1> HIDE DEF n
<1> QED
  BY <1>1, <1>6, <1>7

\* The pipeline and its promise begin alike.
LEMMA PromiseInit == Init => Promise!Init
<1> SUFFICES ASSUME Init PROVE Promise!Init
  OBVIOUS
<1>1. \A r \in Run : assessments[r] = <<>>
  BY DEF Init
<1>2. Current = {}
  BY <1>1 DEF Current
<1>3. status # "deleted" /\ (status = "active" /\ permitted) \in BOOLEAN
  BY DEF Init
<1>4. /\ assessments = [r \in Run |-> <<>>] /\ decisions = [r \in Run |-> <<>>]
      /\ drafts = [r \in Run |-> {}] /\ approved = [r \in Run |-> {}]
      /\ used = [r \in Run |-> <<>>]
  BY DEF Init
<1> QED
  BY <1>2, <1>3, <1>4 DEF Promise!Init

\* The write of an assessment is the assessment: the candidate is current again.
LEMMA PromiseAssess ==
  ASSUME ReviewInv, NEW a \in Actor, SaveAssessment(a)
  PROVE  Promise!Next
<1>1. TypedHistory
  BY DEF ReviewInv
<1>2. /\ txn[a].op = "assess" /\ txn[a].stage = "writing" /\ Standing(txn[a])
  BY DEF ReviewInv, SaveAssessment, Ready
<1>3. PICK r \in Run : r = txn[a].run
  BY <1>2 DEF Standing
<1>4. PICK p \in 1..MaxProfile : p = txn[a].arg
  BY <1>2 DEF Standing
<1>5. AssessStands(r, p)
  BY <1>2, <1>3, <1>4 DEF Standing
<1>6. /\ assessments' = [assessments EXCEPT ![r] = Append(@, p)]
      /\ decisions' = decisions /\ drafts' = drafts /\ approved' = approved /\ used' = used
      /\ run' = run /\ inputs' = inputs
  BY <1>3, <1>4 DEF SaveAssessment
<1>7. status' = status /\ facts' = facts /\ confirmed' = confirmed /\ permitted' = permitted
  BY <1>6 DEF inputs
<1>8. CurrentProfile' = CurrentProfile /\ CurrentInput' = CurrentInput
  BY <1>7, CurrentInputStays
<1>9. assessments[r] \in Seq(1..MaxProfile) /\ assessments'[r] = Append(assessments[r], p)
  BY <1>1, <1>6 DEF TypedHistory
<1>10. Last(assessments'[r]) = p /\ assessments'[r] # <<>>
  <2>1. PICK s \in Seq(1..MaxProfile) : s = assessments[r]
    BY <1>9
  <2>2. Last(Append(s, p)) = p
    BY Appended
  <2>3. Append(s, p) # <<>>
    OBVIOUS
  <2> QED
    BY <1>9, <2>1, <2>2, <2>3
<1>11. \A s \in Run \ {r} : assessments'[s] = assessments[s]
  BY <1>1, <1>6 DEF TypedHistory
<1>12. r \in Current'
  BY <1>5, <1>6, <1>8, <1>10 DEF AssessStands, Current, HasEntry
<1>13. \A s \in Run \ {r} : s \in Current' <=> s \in Current
  BY <1>6, <1>8, <1>11 DEF Current, HasEntry
<1>14. Current' = Current \cup {r}
  <2>1. Current' \subseteq Run /\ Current \subseteq Run
    BY DEF Current
  <2> QED
    BY <1>12, <1>13, <2>1
<1>15. Promise!Assess(r, p)
  BY <1>5, <1>6, <1>7, <1>14 DEF Promise!Assess, AssessStands
<1> QED
  BY <1>15 DEF Promise!Next

\* The write of a decision is the decision.
LEMMA PromiseDecide ==
  ASSUME ReviewInv, NEW a \in Actor, SaveDecision(a)
  PROVE  Promise!Next
<1>1. TypedHistory /\ PurgedLeavesNoReview
  BY DEF ReviewInv
<1>2. /\ txn[a].op = "decide" /\ txn[a].stage = "writing" /\ Standing(txn[a])
  BY DEF ReviewInv, SaveDecision, Ready
<1>3. PICK r \in Run : r = txn[a].run
  BY <1>2 DEF Standing
<1>4. Len(assessments[r]) # 0 /\ txn[a].arg = Len(assessments[r])
  BY <1>2, <1>3 DEF Standing, DecideStands
<1>5. assessments[r] # <<>>
  BY <1>4
<1>6. status # "deleted"
  BY <1>1, <1>5 DEF PurgedLeavesNoReview, Rows, Nothing
<1>7. /\ decisions' = [decisions EXCEPT ![r] = Append(@, Len(assessments[r]))]
      /\ assessments' = assessments /\ drafts' = drafts /\ approved' = approved /\ used' = used
      /\ run' = run /\ inputs' = inputs
  BY <1>3, <1>4 DEF SaveDecision
<1>8. Promise!Decide(r)
  BY <1>5, <1>6, <1>7, CurrentStays DEF Promise!Decide, Promise!world
<1> QED
  BY <1>8 DEF Promise!Next

\* A draft that is added to an entry, first or in continuation of the newest.
LEMMA PromiseDraft ==
  ASSUME ReviewInv, NEW r \in Run, NEW parent \in {0, LatestDraft(r)},
         Len(decisions[r]) # 0,
         parent # 0 => \E e \in drafts[r] : e.version = parent /\ e.decision = Len(decisions[r]),
         AddDraft(r, Len(decisions[r]), parent),
         inputs' = inputs, run' = run, assessments' = assessments, decisions' = decisions,
         approved' = approved, used' = used
  PROVE  Promise!Next
<1>1. TypedHistory /\ PurgedLeavesNoReview
  BY DEF ReviewInv
<1>2. decisions[r] # <<>>
  OBVIOUS
<1>3. status # "deleted"
  BY <1>1, <1>2 DEF PurgedLeavesNoReview, Rows, Nothing
<1>4. Promise!Newest(r) = LatestDraft(r)
  BY <1>1, NewestByName DEF ReviewInv
<1>5. Promise!Write(r, parent)
  BY <1>3, <1>4, CurrentStays DEF Promise!Write, Promise!world, AddDraft
<1> QED
  BY <1>4, <1>5 DEF Promise!Next

\* The write of a generated draft is the first kind.
LEMMA PromiseGenerate ==
  ASSUME ReviewInv, NEW a \in Actor, SaveDraft(a)
  PROVE  Promise!Next
<1>1. txn[a].op = "generate" /\ txn[a].stage = "writing" /\ Standing(txn[a])
  BY DEF ReviewInv, SaveDraft, Ready
<1>2. PICK r \in Run : r = txn[a].run
  BY <1>1 DEF Standing
<1>3. txn[a].arg = Len(decisions[r]) /\ Len(decisions[r]) # 0
  BY <1>1, <1>2 DEF Standing, GenerateStands
<1>4. AddDraft(r, Len(decisions[r]), 0)
  BY <1>2, <1>3 DEF SaveDraft
<1> QED
  BY <1>3, <1>4, PromiseDraft DEF SaveDraft

\* What a request on draft v of r has before it when it writes.
LEMMA DraftAtHand ==
  ASSUME ReviewInv, NEW a \in Actor, txn[a].op \in DraftOp, Ready(a, DraftOp, "writing"),
         DraftStands(a)
  PROVE  \E r \in Run, v \in DraftNumbers(txn[a].run) :
           /\ r = txn[a].run /\ v = txn[a].arg /\ v = LatestDraft(r) /\ HasEntry(r)
           /\ DraftRow(r, v) \in drafts[r] /\ DraftRow(r, v).version = v
           /\ DraftRow(r, v).decision = Len(decisions[r]) /\ Len(decisions[r]) # 0
           /\ decisions[r][Len(decisions[r])] = Len(assessments[r])
           /\ assessments[r] # <<>> /\ Last(assessments[r]) = CurrentProfile
           /\ status = "active" /\ run[r].input = CurrentInput
           /\ txn[a].op # "edit" => permitted
<1>1. PICK r \in Run : r = txn[a].run
  BY DraftOpFacts
<1>2. PICK v \in DraftNumbers(r) : v = txn[a].arg
  BY <1>1, DraftOpFacts
<1>3. HasEntry(r) /\ DraftOpStands(txn[a].op, r, v)
  BY <1>1, <1>2, DraftOpFacts
<1>4. TypedHistory /\ Linked(r)
  BY DEF ReviewInv
<1>5. DraftRow(r, v) \in drafts[r] /\ DraftRow(r, v).version = v
  BY RowOfNumber
<1>6. DraftRow(r, v).decision \in DOMAIN decisions[r] /\ DraftRow(r, v).decision = Len(decisions[r])
  BY <1>3, <1>4, <1>5 DEF Linked, DraftOpStands
<1>7. decisions[r] \in Seq(Nat \ {0}) /\ assessments[r] \in Seq(1..MaxProfile)
  BY <1>4 DEF TypedHistory
<1>8. Len(decisions[r]) \in DOMAIN decisions[r] /\ Len(decisions[r]) # 0
  BY <1>6, <1>7
<1>9. /\ decisions[r][Len(decisions[r])] = Len(assessments[r])
      /\ assessments[r][Len(assessments[r])] = CurrentProfile
  BY <1>3, <1>6 DEF DraftOpStands, Backing
<1>10. Len(assessments[r]) \in DOMAIN assessments[r]
  BY <1>4, <1>8, <1>9 DEF Linked
<1>11. assessments[r] # <<>>
  BY <1>7, <1>10
<1>12. Last(assessments[r]) = CurrentProfile
  BY <1>9 DEF Last
<1> QED
  BY <1>1, <1>2, <1>3, <1>5, <1>6, <1>8, <1>9, <1>11, <1>12 DEF DraftOpStands

\* The write of an edited draft is the second kind.
LEMMA PromiseEdit ==
  ASSUME ReviewInv, NEW a \in Actor, SaveEdit(a)
  PROVE  Promise!Next
<1>1. txn[a].op \in DraftOp /\ Ready(a, DraftOp, "writing") /\ DraftStands(a)
  BY DEF SaveEdit, Ready, DraftOp
<1>2. PICK r \in Run, v \in DraftNumbers(txn[a].run) :
        /\ r = txn[a].run /\ v = txn[a].arg /\ v = LatestDraft(r)
        /\ DraftRow(r, v) \in drafts[r] /\ DraftRow(r, v).version = v
        /\ DraftRow(r, v).decision = Len(decisions[r]) /\ Len(decisions[r]) # 0
  BY <1>1, DraftAtHand
<1>3. AddDraft(r, Len(decisions[r]), v)
  BY <1>2 DEF SaveEdit
<1> QED
  BY <1>2, <1>3, PromiseDraft DEF SaveEdit

\* The write of an approval or a use is that: the draft is the newest and the
\* candidate may be contacted and is current.
LEMMA PromiseRelease ==
  ASSUME ReviewInv, NEW a \in Actor, SaveApproval(a) \/ SaveUse(a)
  PROVE  Promise!Next
<1>1. txn[a].op \in DraftOp /\ Ready(a, DraftOp, "writing") /\ DraftStands(a)
      /\ txn[a].op # "edit"
  BY DEF SaveApproval, SaveUse, Ready, DraftOp
<1>2. PICK r \in Run, v \in DraftNumbers(txn[a].run) :
        /\ r = txn[a].run /\ v = txn[a].arg /\ v = LatestDraft(r) /\ HasEntry(r)
        /\ DraftRow(r, v) \in drafts[r] /\ DraftRow(r, v).version = v
        /\ DraftRow(r, v).decision = Len(decisions[r])
        /\ decisions[r][Len(decisions[r])] = Len(assessments[r])
        /\ assessments[r] # <<>> /\ Last(assessments[r]) = CurrentProfile
        /\ status = "active" /\ run[r].input = CurrentInput
        /\ permitted
  BY <1>1, DraftAtHand
<1>3. PICK d \in drafts[r] : d = DraftRow(r, v)
  BY <1>2
<1>4. d.version = v /\ d.decision = Len(decisions[r])
  BY <1>2, <1>3
<1>5. Promise!Newest(r) = v
  BY <1>2, NewestByName DEF ReviewInv
<1>6. r \in Current
  BY <1>2 DEF Current
<1>7. Promise!Releasable(r, d)
  BY <1>2, <1>4, <1>5, <1>6 DEF Promise!Releasable
<1>8. /\ inputs' = inputs /\ run' = run /\ assessments' = assessments /\ decisions' = decisions
      /\ drafts' = drafts
      /\ approved' = [approved EXCEPT ![r] = @ \cup {v}]
  BY <1>2 DEF SaveApproval, SaveUse
<1>9. UNCHANGED Promise!world
  BY <1>8, CurrentStays DEF Promise!world
<1>10. CASE SaveApproval(a)
  <2>1. used' = used
    BY <1>10 DEF SaveApproval
  <2>2. Promise!Approve(r, d)
    BY <1>4, <1>7, <1>8, <1>9, <2>1 DEF Promise!Approve
  <2> QED
    BY <2>2 DEF Promise!Next
<1>11. CASE SaveUse(a)
  <2>1. used' = [used EXCEPT ![r] = Append(@, v)]
    BY <1>2, <1>11 DEF SaveUse
  <2>2. Promise!Use(r, d)
    BY <1>4, <1>7, <1>8, <1>9, <2>1 DEF Promise!Use
  <2> QED
    BY <2>2 DEF Promise!Next
<1> QED
  BY <1>10, <1>11

\* Retention of a run erases what stands on its entry.
LEMMA PromiseErase ==
  ASSUME ReviewInv, NEW a \in Actor, RetainRun(a), ~Refuse(a)
  PROVE  Promise!Next
<1>1. txn[a].op = "retain run" /\ Standing(txn[a])
  BY DEF ReviewInv, RetainRun, Ready
<1>2. PICK r \in Run : r = txn[a].run
  BY <1>1 DEF Standing
<1>3. SetRows({r}, Nothing) /\ run' = [run EXCEPT ![r] = Gone] /\ inputs' = inputs
  BY <1>2 DEF RetainRun
<1>4. status' = status /\ facts' = facts /\ confirmed' = confirmed /\ permitted' = permitted
  BY <1>3 DEF inputs
<1>5. CurrentInput' = CurrentInput /\ CurrentProfile' = CurrentProfile
  BY <1>4, CurrentInputStays
<1>6. run'[r] = Gone /\ \A s \in Run \ {r} : run'[s] = run[s]
  BY <1>3 DEF ReviewInv, TypedHistory
<1>7. r \notin Current'
  BY <1>6 DEF Current, HasEntry, Gone
<1>8. \A s \in Run \ {r} : assessments'[s] = assessments[s]
  BY <1>3 DEF SetRows
<1>9. \A s \in Run \ {r} : s \in Current' <=> s \in Current
  BY <1>5, <1>6, <1>8 DEF Current, HasEntry
<1>10. Current' = Current \ {r}
  <2>1. Current' \subseteq Run /\ Current \subseteq Run
    BY DEF Current
  <2> QED
    BY <1>7, <1>9, <2>1
<1>11. Promise!Empty({r})
  BY <1>3, <1>10 DEF Promise!Empty, SetRows, Nothing
<1>12. Promise!Erase(r)
  BY <1>4, <1>11 DEF Promise!Erase
<1> QED
  BY <1>12 DEF Promise!Next

\* Retention of a chain takes drafts, approvals and the oldest uses.
LEMMA PromisePrune ==
  ASSUME ReviewInv, NEW a \in Actor, RetainChain(a), ~Refuse(a)
  PROVE  Promise!Next
<1>1. txn[a].op = "retain chain" /\ txn[a].stage = "writing" /\ Standing(txn[a])
  BY DEF ReviewInv, RetainChain, Ready
<1>2. PICK r \in Run : r = txn[a].run
  BY <1>1 DEF Standing
<1>3. PICK seen : seen = txn[a].seen
  OBVIOUS
<1>4. PICK gone : gone = {d.version : d \in seen.drafts}
  OBVIOUS
<1>5. PICK m \in Nat : m = Len(seen.used)
  BY <1>1, <1>3 DEF Standing
<1>6. PICK what : what = [Rows(r) EXCEPT !.drafts = drafts[r] \ seen.drafts,
                            !.approved = @ \ gone,
                            !.used = SubSeq(@, m + 1, Len(@))]
  OBVIOUS
<1>7. SetRows({r}, what) /\ run' = run /\ inputs' = inputs
  BY <1>2, <1>3, <1>4, <1>5, <1>6 DEF RetainChain
<1>8. /\ what.assessments = assessments[r] /\ what.decisions = decisions[r]
      /\ what.drafts = drafts[r] \ seen.drafts /\ what.approved = approved[r] \ gone
      /\ what.used = SubSeq(used[r], m + 1, Len(used[r]))
  BY <1>6 DEF Rows
<1>9. TypedHistory
  BY DEF ReviewInv
<1>10. assessments' = assessments /\ decisions' = decisions
  BY <1>7, <1>8, <1>9 DEF SetRows, TypedHistory
<1>11. /\ drafts' = [drafts EXCEPT ![r] = @ \ (drafts[r] \cap seen.drafts)]
       /\ approved' = [approved EXCEPT ![r] = @ \ (approved[r] \cap gone)]
  <2>1. /\ drafts[r] \ seen.drafts = drafts[r] \ (drafts[r] \cap seen.drafts)
        /\ approved[r] \ gone = approved[r] \ (approved[r] \cap gone)
    OBVIOUS
  <2>2. /\ drafts' = [s \in Run |-> IF s = r THEN what.drafts ELSE drafts[s]]
        /\ approved' = [s \in Run |-> IF s = r THEN what.approved ELSE approved[s]]
    BY <1>7 DEF SetRows
  <2> QED
    BY <1>8, <1>9, <2>1, <2>2 DEF TypedHistory
<1>12. \E k \in 0 .. Len(used[r]) : used' = [used EXCEPT ![r] = SubSeq(@, k + 1, Len(@))]
  <2>1. PICK n \in Nat : n = Len(used[r])
    BY <1>9 DEF TypedHistory
  <2>2. used' = [used EXCEPT ![r] = SubSeq(@, m + 1, Len(@))]
    BY <1>7, <1>8, <1>9 DEF SetRows, TypedHistory
  <2>3. CASE m <= n
    <3>1. m \in 0 .. n
      BY <2>3
    <3> QED
      BY <2>1, <2>2, <3>1
  <2>4. CASE ~(m <= n)
    <3>1. used[r] \in Seq(Nat)
      BY <1>9 DEF TypedHistory
    <3>2. SubSeq(used[r], m + 1, n) = <<>>
      BY <2>1, <2>4, <3>1
    <3>3. SubSeq(used[r], n + 1, n) = <<>>
      BY <2>1, <3>1
    <3>4. used' = [used EXCEPT ![r] = SubSeq(@, n + 1, Len(@))]
      BY <2>1, <2>2, <3>2, <3>3
    <3>5. n \in 0 .. n
      OBVIOUS
    <3> QED
      BY <2>1, <3>4, <3>5
  <2> QED
    BY <2>3, <2>4
<1>13. UNCHANGED Promise!world
  BY <1>7, <1>10, CurrentStays DEF Promise!world
<1>14. Promise!Prune(r)
  BY <1>10, <1>11, <1>12, <1>13 DEF Promise!Prune
<1> QED
  BY <1>14 DEF Promise!Next

\* A purge takes everything.
LEMMA PromisePurge ==
  ASSUME ReviewInv, NEW a \in Actor, Purge(a), ~Refuse(a)
  PROVE  Promise!Next
<1>1. txn[a].op = "purge" /\ txn[a].stage = "writing" /\ Standing(txn[a])
  BY DEF ReviewInv, Purge, Ready
<1>2. PICK S : S = DOMAIN txn[a].seen
  OBVIOUS
<1>3. SetRows(S, Nothing) /\ status' = "deleted" /\ permitted' = FALSE
  BY <1>2 DEF Purge
<1>4. \A r \in Run \ S : Rows(r) = Nothing
  BY <1>1, <1>2 DEF Standing
<1>5. \A r \in Run \ S : /\ assessments[r] = <<>> /\ decisions[r] = <<>> /\ drafts[r] = {}
                         /\ approved[r] = {} /\ used[r] = <<>>
  BY <1>4 DEF Rows, Nothing
<1>6. /\ assessments' = [r \in Run |-> <<>>] /\ decisions' = [r \in Run |-> <<>>]
      /\ drafts' = [r \in Run |-> {}] /\ approved' = [r \in Run |-> {}]
      /\ used' = [r \in Run |-> <<>>]
  BY <1>3, <1>5 DEF SetRows, Nothing
<1>7. Current' = {}
  BY <1>6 DEF Current
<1>8. Current \subseteq Run
  BY DEF Current
<1>9. Promise!Empty(Run)
  BY <1>6, <1>7, <1>8 DEF Promise!Empty
<1>10. Promise!Purge
  BY <1>3, <1>9 DEF Promise!Purge
<1> QED
  BY <1>10 DEF Promise!Next

\* A request that is refused or only takes locks does not show.
LEMMA PromiseQuiet ==
  ASSUME UNCHANGED <<inputs, history>>
  PROVE  Promise!Next
BY OutOfSight DEF RowsKept, inputs, history, Promise!Next

\* Deletions show as a purge, an erasure, a pruning, or not at all.
LEMMA PromiseDelete ==
  ASSUME ReviewInv, NEW a \in Actor, Delete(a)
  PROVE  Promise!Next
<1>1. CASE Refuse(a)
  BY <1>1, PromiseQuiet DEF Refuse
<1>2. CASE CheckPurge(a) \/ CollectPurge(a) \/ PlanRetention(a) \/ CollectRetention(a)
  BY <1>2, PromiseQuiet DEF CheckPurge, CollectPurge, PlanRetention, CollectRetention, Start, Begin
<1> QED
  BY <1>1, <1>2, PromisePurge, PromiseErase, PromisePrune DEF Delete

\* The requests that write a row show as the atomic ones.
LEMMA PromiseWrites ==
  ASSUME ReviewInv, NEW a \in Actor, Writes(a)
  PROVE  Promise!Next
BY PromiseAssess, PromiseDecide, PromiseGenerate, PromiseEdit, PromiseRelease DEF Writes

\* New requirements show as a turn.
LEMMA PromiseTurns ==
  ASSUME ConfirmRequirements
  PROVE  Promise!Next
<1>1. RowsKept /\ status' = status
  BY DEF ConfirmRequirements, RowsKept, history
<1> QED
  BY <1>1, OutOfSight DEF Promise!Next

\* Changes of the candidate, his profiles and sources or of the vacancy likewise.
LEMMA PromiseCurate ==
  ASSUME ReviewInv, NEW a \in Actor, Curate(a)
  PROVE  Promise!Next
<1>1. CASE Refuse(a) \/ StartConfirm(a) \/ StartCorrect(a) \/ StartSource(a) \/ StartChange(a)
             \/ StartCancel(a)
  BY <1>1, PromiseQuiet DEF Refuse, StartConfirm, StartCorrect, StartSource, StartChange,
                            StartCancel, Start, Begin
<1>2. CASE ~Refuse(a) /\ (Confirm(a) \/ Correct(a) \/ UpdateSource(a) \/ UpdateCandidate(a)
                           \/ DeleteVacancy(a))
  <2>1. UNCHANGED history /\ status' = status
    BY <1>2 DEF Confirm, Correct, UpdateSource, UpdateCandidate, DeleteVacancy
  <2> QED
    BY <2>1, OutOfSight DEF RowsKept, history, Promise!Next
<1>3. CASE RequestDeletion(a) \/ CancelDeletion(a)
  <2>1. UNCHANGED history /\ status' # "deleted"
    BY <1>3 DEF RequestDeletion, CancelDeletion, SetStatus
  <2>2. Standing(txn[a]) /\ txn[a].op \in {"request", "cancel"}
    BY <1>3 DEF ReviewInv, RequestDeletion, CancelDeletion, Ready
  <2>3. status # "deleted"
    BY <2>2 DEF Standing
  <2> QED
    BY <2>1, <2>3, OutOfSight DEF RowsKept, history, Promise!Next
<1> QED
  BY <1>1, <1>2, <1>3 DEF Curate

\* A shortlist shows only by the runs that may be current.
LEMMA PromiseShortlist ==
  ASSUME NEW a \in Actor, Shortlist(a)
  PROVE  Promise!Next
<1>1. CASE SaveRun(a)
  <2>1. RowsKept /\ status' = status
    BY <1>1 DEF SaveRun, RowsKept, inputs
  <2> QED
    BY <2>1, OutOfSight DEF Promise!Next
<1>2. CASE ~SaveRun(a)
  BY <1>2, PromiseQuiet DEF Shortlist, StartShortlist, ReadCandidates, ReadSkills, ReadProfiles,
                            Rank, See, Refuse, Proceed
<1> QED
  BY <1>1, <1>2

\* Checks, AI calls and locks do not show.
LEMMA PromiseChecks ==
  ASSUME NEW a \in Actor,
         Lock(a) \/ Fail(a) \/ Assess(a) \/ Decide(a) \/ Generate(a) \/ Outreach(a), ~Writes(a)
  PROVE  Promise!Next
<1>1. UNCHANGED <<inputs, history>>
  BY DEF Lock, Fail, Assess, Decide, Generate, Outreach, Writes, StartAssess, HearAssessment,
         CheckAssess, CheckDecide, StartDraft, HearDraft, StartDraftOp, CheckDraftOp, Checked,
         Start, Begin, Proceed, Refuse
<1> QED
  BY <1>1, PromiseQuiet

\* Every step of the pipeline is a step of the promise.
LEMMA PromiseStep == ReviewInv /\ [Next]_vars => [Promise!Next]_(Promise!vars)
<1> SUFFICES ASSUME ReviewInv, [Next]_vars
             PROVE  Promise!Next
  OBVIOUS
<1>1. CASE UNCHANGED vars
  BY <1>1, PromiseQuiet DEF vars
<1>2. CASE Next
  BY <1>2, PromiseWrites, PromiseDelete, PromiseTurns, PromiseCurate, PromiseShortlist,
     PromiseChecks DEF Next
<1> QED
  BY <1>1, <1>2

(* The pipeline implements the review it promises: whatever the locks, the AI  *)
(* calls, the half-done reads and deletions and the refusals, the rows on an   *)
(* entry are those of atomic requests, each made for the newest and current of *)
(* what it rests on and never rewritten.                                       *)
THEOREM ReviewPromiseKept == Spec => KeepsReviewPromise
<1> QED
  BY PromiseInit, PromiseStep, ReviewInvariant, PTL DEF Spec, KeepsReviewPromise, Promise!Spec
=============================================================================
