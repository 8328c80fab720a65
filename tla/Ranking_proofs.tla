---------------------------- MODULE Ranking_proofs ----------------------------
(***************************************************************************)
(* Theorems about Ranking, for every set of candidates, CVs and names,     *)
(* every vocabulary and whatever the extractions read.                     *)
(*                                                                         *)
(* What the properties say of a candidate depends on the profiles and the  *)
(* records of that candidate only, and a step does one of four things to   *)
(* them (Leaves, Grows, Publishes, Assigns), whichever action it is and    *)
(* whoever else it confirms.  So the invariant is shown for one candidate  *)
(* and one of the four at a time.                                          *)
(*                                                                         *)
(* Points and ranks are sums and numbers of elements.  What they need of   *)
(* finite sets is shown by induction over a set of sets (SubsetInduction), *)
(* and of sums in the lemmas from SumSplits to SumStrict.                  *)
(***************************************************************************)
EXTENDS Ranking, FiniteSetTheorems, SequenceTheorems, WellFoundedInduction, TLAPS

-----------------------------------------------------------------------------
(* The inductive invariant. *)

Skill == [label : Name, years : Years \cup {Nobody}]
Reading == [skills : UNION {[D -> Skill] : D \in SUBSET Nat},
            facts : {x.facts : x \in Content},
            place : {x.place : x \in Content} \cup Place \cup {Nobody},
            role : {x.role : x \in Content}, seniority : {x.seniority : x \in Content}]
Profile == [doc : Doc, status : {"draft", "confirmed"}, content : Reading]
Record == [profile : Nat, evidence : BOOLEAN, years : Years \cup {Nobody}]

Shape == /\ profiles \in [Candidate -> Seq(Profile)]
         /\ records \in [Candidate -> [Name -> Record \cup {Nobody}]]

\* A record names a version that exists, or none.
Linked(c) == \A n \in Recorded(c) : records[c][n].profile \in {Manual} \cup DOMAIN profiles[c]

\* RecordsAreCurrent and CurrentSkillsCount, of one candidate.
RecordIsCurrent(c, n) ==
  LET v == records[c][n].profile
      doc == profiles[c][v].doc
  IN v # Manual =>
       /\ v \in Confirmed(c)
       /\ \A u \in Confirmed(c) : profiles[c][u].doc = doc => u <= v
       /\ \E i \in DOMAIN profiles[c][v].content.skills :
            LET skill == profiles[c][v].content.skills[i]
            IN Canonical[skill.label] = Canonical[n] /\ skill.years = records[c][n].years
IsCurrent(c) == \A n \in Recorded(c) : RecordIsCurrent(c, n)
Counts(c) ==
  HasProfile(c) =>
    \A i \in DOMAIN Current(c).skills : Canonical[Current(c).skills[i].label] \in Keys(c)

RankingInv == Shape /\ \A c \in Candidate : Linked(c) /\ IsCurrent(c) /\ Counts(c)

-----------------------------------------------------------------------------
(* Numbers and the vocabulary. *)

\* A non-empty set of integers that is bounded below has a least element.
LEMMA LeastExists ==
  ASSUME NEW S \in SUBSET Int, NEW x \in S, NEW bound \in Int, \A y \in S : bound <= y
  PROVE  \E least \in S : \A y \in S : least <= y
<1> DEFINE T == {y - bound : y \in S}
<1>1. T \in SUBSET Nat /\ x - bound \in T
  OBVIOUS
<1> HIDE DEF T
<1>2. PICK t \in T : \A u \in T : ~(<<u, t>> \in OpToRel(<, Nat))
  BY <1>1, NatLessThanWellFounded, WFMin
<1>3. \A u \in T : ~(u < t)
  BY <1>1, <1>2 DEF OpToRel
<1>4. PICK least \in S : t = least - bound
  BY DEF T
<1>5. ASSUME NEW y \in S PROVE least <= y
  <2>1. y - bound \in T /\ y - bound \in Nat
    BY <1>1 DEF T
  <2> QED
    BY <1>3, <1>4, <2>1
<1> QED
  BY <1>5

\* A non-empty set of naturals that is bounded above has a greatest element.
LEMMA GreatestExists ==
  ASSUME NEW S \in SUBSET Nat, NEW x \in S, NEW bound \in Nat, \A y \in S : y <= bound
  PROVE  \E most \in S : \A y \in S : y <= most
<1> DEFINE T == {0 - y : y \in S}
<1>1. T \in SUBSET Int /\ 0 - x \in T /\ 0 - bound \in Int /\ \A t \in T : 0 - bound <= t
  OBVIOUS
<1> HIDE DEF T
<1>2. PICK t \in T : \A u \in T : t <= u
  BY <1>1, LeastExists
<1>3. PICK most \in S : t = 0 - most
  BY <1>2 DEF T
<1>4. ASSUME NEW y \in S PROVE y <= most
  <2>1. 0 - y \in T
    BY DEF T
  <2> QED
    BY <1>2, <1>3, <2>1
<1> QED
  BY <1>4

\* get_or_create_skill returns a name of the same skill.
LEMMA ResolvedMeans ==
  ASSUME NEW label \in Name
  PROVE  Resolved(label) \in Name /\ Canonical[Resolved(label)] = Canonical[label]
<1> DEFINE twins == {n \in Legacy : Canonical[n] = Canonical[label]}
<1>1. CASE twins = {} \/ Canonical[label] \in twins
  BY <1>1, RankingAssumption DEF Resolved
<1>2. CASE ~(twins = {} \/ Canonical[label] \in twins)
  <2>1. Resolved(label) = CHOOSE n \in twins : TRUE
    BY <1>2 DEF Resolved
  <2>2. Resolved(label) \in twins
    BY <1>2, <2>1
  <2> QED
    BY <2>2, RankingAssumption
<1> QED
  BY <1>1, <1>2

\* What an extraction reads has skills in an order.
LEMMA ReadingTyped ==
  ASSUME NEW x \in Reading
  PROVE  /\ DOMAIN x.skills \in SUBSET Nat
         /\ \A i \in DOMAIN x.skills : x.skills[i] \in Skill
<1>1. PICK D \in SUBSET Nat : x.skills \in [D -> Skill]
  BY DEF Reading
<1> QED
  BY <1>1

\* What an extraction can read is a reading.
LEMMA ContentRead ==
  ASSUME NEW x \in Content
  PROVE  x \in Reading
<1>1. IsReading(x)
  BY RankingAssumption
<1>2. x = [skills |-> x.skills, facts |-> x.facts, place |-> x.place, role |-> x.role,
           seniority |-> x.seniority]
  BY <1>1 DEF IsReading
<1>3. x.skills \in UNION {[D -> Skill] : D \in SUBSET Nat}
  BY <1>1 DEF IsReading, Skill
<1>4. /\ x.facts \in {y.facts : y \in Content} /\ x.role \in {y.role : y \in Content}
      /\ x.place \in {y.place : y \in Content} /\ x.seniority \in {y.seniority : y \in Content}
  OBVIOUS
<1> QED
  BY <1>2, <1>3, <1>4 DEF Reading

\* A confirmed candidate has a newest confirmed version.
LEMMA CurrentExists ==
  ASSUME Shape, NEW c \in Candidate, HasProfile(c)
  PROVE  /\ CurrentVersion(c) \in Confirmed(c)
         /\ \A u \in Confirmed(c) : u <= CurrentVersion(c)
<1>1. profiles[c] \in Seq(Profile)
  BY DEF Shape
<1>2. /\ DOMAIN profiles[c] = 1..Len(profiles[c]) /\ Len(profiles[c]) \in Nat
      /\ Confirmed(c) \in SUBSET Nat /\ \A u \in Confirmed(c) : u <= Len(profiles[c])
  BY <1>1 DEF Confirmed
<1>3. PICK x : x \in Confirmed(c)
  BY DEF HasProfile
<1>4. \E v \in Confirmed(c) : \A u \in Confirmed(c) : u <= v
  BY <1>2, <1>3, GreatestExists
<1> QED
  BY <1>4 DEF CurrentVersion

-----------------------------------------------------------------------------
(* The four things that a step does to the profiles and records of one     *)
(* candidate.                                                              *)

Leaves(c) == profiles'[c] = profiles[c] /\ records'[c] = records[c]

GrowsBy(c, row) == /\ records'[c] = records[c]
                   /\ profiles'[c] = Append(profiles[c], row)
Grows(c) == \E row \in Profile : row.status = "draft" /\ GrowsBy(c, row)

PublishesAs(c, v) == /\ Confirmable(c, v)
                     /\ records'[c] = Published(c, v)
                     /\ profiles'[c] = [profiles[c] EXCEPT ![v].status = "confirmed"]
Publishes(c) == \E v \in DOMAIN profiles[c] : PublishesAs(c, v)

AssignsAs(c, n, r) == /\ records[c][n] = Nobody /\ r.profile = Manual
                      /\ profiles'[c] = profiles[c]
                      /\ records'[c] = [records[c] EXCEPT ![n] = r]
Assigns(c) == \E n \in Name, r \in Record : AssignsAs(c, n, r)

Moves == /\ profiles' = [c \in Candidate |-> profiles'[c]]
         /\ records' = [c \in Candidate |-> records'[c]]
         /\ \A c \in Candidate : Leaves(c) \/ Grows(c) \/ Publishes(c) \/ Assigns(c)

\* The profiles and the records of one candidate.
LEMMA ShapeFacts ==
  ASSUME Shape, NEW c \in Candidate
  PROVE  /\ profiles[c] \in Seq(Profile)
         /\ DOMAIN profiles[c] = 1..Len(profiles[c]) /\ Len(profiles[c]) \in Nat
         /\ \A v \in DOMAIN profiles[c] : profiles[c][v] \in Profile
         /\ records[c] \in [Name -> Record \cup {Nobody}]
         /\ Confirmed(c) \in SUBSET (Nat \ {0})
<1>1. profiles[c] \in Seq(Profile)
  BY DEF Shape
<1>2. DOMAIN profiles[c] = 1..Len(profiles[c]) /\ Len(profiles[c]) \in Nat
  BY <1>1
<1>3. \A v \in DOMAIN profiles[c] : profiles[c][v] \in Profile
  BY <1>1, <1>2
<1>4. records[c] \in [Name -> Record \cup {Nobody}]
  BY DEF Shape
<1>5. Confirmed(c) \in SUBSET (Nat \ {0})
  BY <1>2 DEF Confirmed
<1> QED
  BY <1>1, <1>2, <1>3, <1>4, <1>5

\* A new draft of one candidate.
LEMMA FileMoves ==
  ASSUME Shape, NEW c \in Candidate, NEW d \in Doc, NEW x \in Reading, File(c, d, x)
  PROVE  Moves
<1> DEFINE row == [doc |-> d, status |-> "draft", content |-> x]
<1>1. row \in Profile /\ row.status = "draft"
  BY DEF Profile
<1>2. profiles' = [profiles EXCEPT ![c] = Append(@, row)] /\ records' = records
  BY DEF File
<1> HIDE DEF row
<1>3. /\ profiles' = [b \in Candidate |-> profiles'[b]]
      /\ records' = [b \in Candidate |-> records'[b]]
  BY <1>2 DEF Shape
<1>4. Grows(c)
  <2>1. GrowsBy(c, row)
    BY <1>2 DEF Shape, GrowsBy
  <2> QED
    BY <1>1, <2>1 DEF Grows
<1>5. \A b \in Candidate : b # c => Leaves(b)
  BY <1>2 DEF Shape, Leaves
<1> QED
  BY <1>3, <1>4, <1>5 DEF Moves

\* The profile that a correction files has an order of skills and a place.
LEMMA CorrectMoves ==
  ASSUME Shape, NEW c \in Candidate, NEW v \in DOMAIN profiles[c], NEW retained,
         NEW place \in Place \cup {Nobody}, Correct(c, v, retained, place)
  PROVE  Moves
<1> DEFINE old == profiles[c][v].content
           kept == {i \in DOMAIN old.skills : old.skills[i].label \in retained}
           skills == [i \in kept |-> old.skills[i]]
           x == [old EXCEPT !.skills = skills, !.place = place]
<1>1. profiles[c][v] \in Profile
  BY ShapeFacts
<1>2. old \in Reading /\ profiles[c][v].doc \in Doc
  BY <1>1 DEF Profile
<1>3. File(c, profiles[c][v].doc, x)
  BY DEF Correct
<1> HIDE DEF old
<1>4. kept \in SUBSET Nat /\ skills \in [kept -> Skill]
  BY <1>2, ReadingTyped
<1>5. skills \in UNION {[D -> Skill] : D \in SUBSET Nat}
  BY <1>4
<1> HIDE DEF skills
<1>6. x \in Reading
  BY <1>2, <1>5 DEF Reading
<1> QED
  BY <1>2, <1>3, <1>6, FileMoves

\* The confirmation of one profile.
LEMMA ConfirmMoves ==
  ASSUME Shape, NEW c \in Candidate, NEW v \in DOMAIN profiles[c], Confirm(c, v)
  PROVE  Moves
<1>1. /\ records' = [records EXCEPT ![c] = Published(c, v)]
      /\ profiles' = [profiles EXCEPT ![c] = [profiles[c] EXCEPT ![v].status = "confirmed"]]
      /\ Confirmable(c, v)
  BY DEF Confirm, Shape
<1>2. /\ profiles' = [b \in Candidate |-> profiles'[b]]
      /\ records' = [b \in Candidate |-> records'[b]]
  BY <1>1 DEF Shape
<1>3. PublishesAs(c, v)
  BY <1>1 DEF Shape, PublishesAs
<1>4. \A b \in Candidate : b # c => Leaves(b)
  BY <1>1 DEF Shape, Leaves
<1> QED
  BY <1>2, <1>3, <1>4 DEF Moves, Publishes

\* The newest version of a CV that has one.
LEMMA LatestExists ==
  ASSUME Shape, NEW c \in Candidate, NEW d, NEW v \in DOMAIN profiles[c],
         profiles[c][v].doc = d
  PROVE  Latest(c, d) \in DOMAIN profiles[c]
<1> DEFINE S == {u \in DOMAIN profiles[c] : profiles[c][u].doc = d}
<1>1. DOMAIN profiles[c] = 1..Len(profiles[c]) /\ Len(profiles[c]) \in Nat
  BY ShapeFacts
<1>2. v \in S /\ S \in SUBSET Nat /\ \A u \in S : u <= Len(profiles[c])
  BY <1>1
<1> HIDE DEF S
<1>3. PICK u \in S : \A w \in S : w <= u
  BY <1>1, <1>2, GreatestExists
<1>4. /\ u \in DOMAIN profiles[c] /\ profiles[c][u].doc = d
      /\ \A w \in DOMAIN profiles[c] : profiles[c][w].doc = d => w <= u
  BY <1>3 DEF S
<1> QED
  BY <1>4 DEF Latest

\* A bulk confirmation publishes one profile of each candidate of the batch at
\* most.
LEMMA ConfirmAllMoves ==
  ASSUME Shape, NEW d \in Doc, ConfirmAll(d)
  PROVE  Moves
<1>1. PICK chosen \in SUBSET ReadyRows(d) \ {{}} :
        /\ records' = [c \in Candidate |-> IF c \in chosen THEN Published(c, Latest(c, d))
                                          ELSE records[c]]
        /\ profiles' = [c \in Candidate |->
             IF c \in chosen THEN [profiles[c] EXCEPT ![Latest(c, d)].status = "confirmed"]
             ELSE profiles[c]]
  BY DEF ConfirmAll
<1>2. /\ profiles' = [c \in Candidate |-> profiles'[c]]
      /\ records' = [c \in Candidate |-> records'[c]]
  BY <1>1
<1>3. ASSUME NEW c \in Candidate PROVE Leaves(c) \/ Publishes(c)
  <2>1. CASE c \in chosen
    <3>1. c \in ReadyRows(d)
      BY <2>1
    <3>2. Confirmable(c, Latest(c, d)) /\ Latest(c, d) \in DOMAIN profiles[c]
      BY <3>1, LatestExists DEF ReadyRows
    <3>3. PublishesAs(c, Latest(c, d))
      BY <1>1, <2>1, <3>2 DEF PublishesAs
    <3> QED
      BY <3>2, <3>3 DEF Publishes
  <2>2. CASE c \notin chosen
    BY <1>1, <2>2 DEF Leaves
  <2> QED
    BY <2>1, <2>2
<1> QED
  BY <1>2, <1>3 DEF Moves

\* A manual record changes one record of one candidate.
LEMMA AssignMoves ==
  ASSUME Shape, NEW c \in Candidate, NEW n \in Name, NEW evidence \in BOOLEAN,
         NEW years \in Years \cup {Nobody}, AssignSkill(c, n, evidence, years)
  PROVE  Moves
<1> DEFINE r == [profile |-> Manual, evidence |-> evidence, years |-> years]
<1>1. r \in Record /\ r.profile = Manual
  BY DEF Record, Manual
<1>2. /\ records[c][n] = Nobody /\ profiles' = profiles
      /\ records' = [records EXCEPT ![c][n] = r]
  BY DEF AssignSkill
<1> HIDE DEF r
<1>3. /\ profiles' = [b \in Candidate |-> profiles'[b]]
      /\ records' = [b \in Candidate |-> records'[b]]
  BY <1>2 DEF Shape
<1>4. AssignsAs(c, n, r)
  BY <1>1, <1>2 DEF Shape, AssignsAs
<1>5. \A b \in Candidate : b # c => Leaves(b)
  BY <1>2 DEF Shape, Leaves
<1> QED
  BY <1>1, <1>3, <1>4, <1>5 DEF Moves, Assigns

\* A step that changes nothing moves nobody.
LEMMA StandsStill ==
  ASSUME Shape, UNCHANGED <<profiles, records>>
  PROVE  Moves
BY DEF Shape, Moves, Leaves

\* Every step is of one of the four kinds for each candidate.
LEMMA StepMoves ==
  ASSUME Shape, [Next]_vars
  PROVE  Moves
<1>1. CASE UNCHANGED vars
  BY <1>1, StandsStill DEF vars
<1>2. ASSUME NEW d \in Doc, ConfirmAll(d) PROVE Moves
  BY <1>2, ConfirmAllMoves
<1>3. ASSUME NEW c \in Candidate, Recruit(c) PROVE Moves
  <2>1. ASSUME NEW d \in Doc, NEW content \in Content, Extract(c, d, content) PROVE Moves
    BY <2>1, ContentRead, FileMoves DEF Extract
  <2>2. ASSUME NEW v \in DOMAIN profiles[c], NEW place \in Place \cup {Nobody}, NEW retained,
               Correct(c, v, retained, place)
        PROVE  Moves
    BY <2>2, CorrectMoves
  <2>3. ASSUME NEW v \in DOMAIN profiles[c], Confirm(c, v) PROVE Moves
    BY <2>3, ConfirmMoves
  <2>4. ASSUME NEW n \in Name, NEW evidence \in BOOLEAN, NEW years \in Years \cup {Nobody},
               AssignSkill(c, n, evidence, years)
        PROVE  Moves
    BY <2>4, AssignMoves
  <2>5. ASSUME NEW place, EditLocation(c, place) PROVE Moves
    BY <2>5, StandsStill DEF EditLocation
  <2>6. CASE RequestDeletion(c) \/ CancelDeletion(c)
    BY <2>6, StandsStill DEF RequestDeletion, CancelDeletion
  <2> QED
    BY <1>3, <2>1, <2>2, <2>3, <2>4, <2>5, <2>6 DEF Recruit
<1> QED
  BY <1>1, <1>2, <1>3 DEF Next

-----------------------------------------------------------------------------
(* A new draft takes nothing away. *)

\* A new draft leaves the versions before it and what is confirmed.
LEMMA GrownRows ==
  ASSUME Shape, NEW c \in Candidate, NEW row \in Profile, row.status = "draft",
         GrowsBy(c, row)
  PROVE  /\ DOMAIN profiles[c] \subseteq DOMAIN profiles'[c]
         /\ \A v \in DOMAIN profiles[c] : profiles'[c][v] = profiles[c][v]
         /\ Confirmed(c)' = Confirmed(c)
<1> DEFINE s == profiles[c]
           t == profiles'[c]
<1>1. s \in Seq(Profile) /\ t = Append(s, row)
  BY ShapeFacts DEF GrowsBy
<1> HIDE DEF s, t
<1>2. /\ DOMAIN s = 1..Len(s) /\ Len(s) \in Nat /\ DOMAIN t = 1..(Len(s) + 1)
      /\ t[Len(s) + 1] = row /\ \A v \in 1..Len(s) : t[v] = s[v]
  BY <1>1
<1>3. {v \in DOMAIN t : t[v].status = "confirmed"} = {v \in DOMAIN s : s[v].status = "confirmed"}
  BY <1>2
<1> QED
  BY <1>2, <1>3 DEF s, t, Confirmed

\* A confirmation changes one status.
LEMMA PublishedRows ==
  ASSUME Shape, NEW c \in Candidate, NEW v \in DOMAIN profiles[c], PublishesAs(c, v)
  PROVE  /\ DOMAIN profiles'[c] = DOMAIN profiles[c] /\ v \in Nat \ {0}
         /\ \A u \in DOMAIN profiles[c] : /\ profiles'[c][u].doc = profiles[c][u].doc
                                          /\ profiles'[c][u].content = profiles[c][u].content
         /\ Confirmed(c)' = Confirmed(c) \cup {v}
         /\ \A u \in Confirmed(c) : u < v
<1> DEFINE s == profiles[c]
           t == profiles'[c]
<1>1. s \in Seq(Profile) /\ t = [s EXCEPT ![v].status = "confirmed"] /\ v \in DOMAIN s
  BY ShapeFacts DEF PublishesAs
<1>2. v \in Nat \ {0}
  BY ShapeFacts
<1>3. \A u \in Confirmed(c) : u < v
  BY DEF PublishesAs, Confirmable
<1> HIDE DEF s, t
<1>4. DOMAIN t = DOMAIN s /\ s[v] \in Profile
  BY <1>1
<1>5. \A u \in DOMAIN s : u # v => t[u] = s[u]
  BY <1>1
<1>6. t[v] = [s[v] EXCEPT !.status = "confirmed"]
  BY <1>1
<1>7. /\ t[v].doc = s[v].doc /\ t[v].content = s[v].content /\ t[v].status = "confirmed"
  BY <1>4, <1>6 DEF Profile
<1>8. {u \in DOMAIN t : t[u].status = "confirmed"}
        = {u \in DOMAIN s : s[u].status = "confirmed"} \cup {v}
  BY <1>1, <1>4, <1>5, <1>7
<1>9. \A u \in DOMAIN s : t[u].doc = s[u].doc /\ t[u].content = s[u].content
  BY <1>5, <1>7
<1> QED
  BY <1>2, <1>3, <1>4, <1>8, <1>9 DEF s, t, Confirmed

\* What confirmation publishes: each name keeps a record that stays, or tells
\* the years that the first label of that skill has in the version.
LEMMA PublishedRecords ==
  ASSUME Shape, NEW c \in Candidate, NEW v \in DOMAIN profiles[c], NEW n \in Name
  PROVE  /\ Published(c, v) = [m \in Name |-> Published(c, v)[m]]
         /\ \/ Published(c, v)[n] = Kept(c, v)[n]
            \/ /\ Published(c, v)[n] \in Record /\ Published(c, v)[n].profile = v
               /\ \E i \in DOMAIN profiles[c][v].content.skills :
                    /\ Resolved(profiles[c][v].content.skills[i].label) = n
                    /\ profiles[c][v].content.skills[i].years = Published(c, v)[n].years
         /\ (\E i \in DOMAIN profiles[c][v].content.skills :
               Resolved(profiles[c][v].content.skills[i].label) = n)
              => Published(c, v)[n] # Nobody
<1> DEFINE skills == profiles[c][v].content.skills
           rows == {i \in DOMAIN skills : Resolved(skills[i].label) = n}
           first == CHOOSE i \in rows : \A j \in rows : i <= j
           new == [profile |-> v, evidence |-> TRUE, years |-> skills[first].years]
<1>1. profiles[c][v].content \in Reading /\ v \in Nat
  BY ShapeFacts DEF Profile
<1>2. DOMAIN skills \in SUBSET Nat /\ \A i \in DOMAIN skills : skills[i] \in Skill
  BY <1>1, ReadingTyped
<1>3. /\ Published(c, v) = [m \in Name |-> Published(c, v)[m]]
      /\ Published(c, v)[n] = IF n \in Taken(c, v) \/ rows = {} THEN Kept(c, v)[n] ELSE new
  BY DEF Published
<1> HIDE DEF skills
<1>4. CASE n \in Taken(c, v)
  <2>1. Published(c, v)[n] = Kept(c, v)[n] /\ Kept(c, v)[n] # Nobody
    BY <1>3, <1>4 DEF Taken
  <2> QED
    BY <1>3, <2>1
<1>5. CASE rows = {}
  BY <1>3, <1>5 DEF skills
<1>6. CASE n \notin Taken(c, v) /\ rows # {}
  <2>1. Published(c, v)[n] = new
    BY <1>3, <1>6
  <2>2. PICK i \in rows : TRUE
    BY <1>6
  <2>3. \E j \in rows : \A k \in rows : j <= k
    <3>1. rows \in SUBSET Int /\ \A j \in rows : 0 <= j
      BY <1>2
    <3> HIDE DEF rows
    <3> QED
      BY <3>1, <2>2, LeastExists
  <2>4. first \in rows
    BY <2>3
  <2>5. first \in DOMAIN skills /\ Resolved(skills[first].label) = n
    BY <2>4
  <2> HIDE DEF first, rows
  <2>6. skills[first].years \in Years \cup {Nobody}
    BY <1>2, <2>5 DEF Skill
  <2>7. new \in Record /\ new.profile = v /\ new.years = skills[first].years
    BY <1>1, <2>6 DEF Record
  <2>8. new # Nobody
    BY <2>7, RankingAssumption DEF Record
  <2> QED
    BY <1>3, <2>1, <2>5, <2>7, <2>8 DEF skills
<1> QED
  BY <1>4, <1>5, <1>6

\* A record that stays is what it was, and of another CV or of none.
LEMMA KeptRecords ==
  ASSUME NEW c \in Candidate, NEW v, NEW n \in Name, Kept(c, v)[n] # Nobody
  PROVE  /\ Kept(c, v)[n] = records[c][n] /\ n \in Recorded(c)
         /\ \/ records[c][n].profile = Manual
            \/ profiles[c][records[c][n].profile].doc # profiles[c][v].doc
BY DEF Kept, Recorded

-----------------------------------------------------------------------------
(* The invariant. *)

\* Each kind of step keeps the shape.
LEMMA ShapeStep ==
  ASSUME Shape, Moves
  PROVE  Shape'
<1>1. ASSUME NEW c \in Candidate PROVE profiles'[c] \in Seq(Profile)
  <2>1. profiles[c] \in Seq(Profile)
    BY ShapeFacts
  <2>2. CASE Leaves(c) \/ Assigns(c)
    BY <2>1, <2>2 DEF Leaves, Assigns, AssignsAs
  <2>3. CASE Grows(c)
    BY <2>1, <2>3 DEF Grows, GrowsBy
  <2>4. CASE Publishes(c)
    <3>1. PICK v \in DOMAIN profiles[c] : PublishesAs(c, v)
      BY <2>4 DEF Publishes
    <3> DEFINE s == profiles[c]
               row == [s[v] EXCEPT !.status = "confirmed"]
    <3>2. row \in Profile
      BY ShapeFacts DEF Profile
    <3>3. profiles'[c] = [s EXCEPT ![v] = row] /\ s \in Seq(Profile) /\ v \in 1..Len(s)
      BY <2>1, <3>1 DEF PublishesAs
    <3> HIDE DEF row, s
    <3> QED
      BY <3>2, <3>3, ExceptSeq
  <2> QED
    BY <2>2, <2>3, <2>4 DEF Moves
<1>2. ASSUME NEW c \in Candidate PROVE records'[c] \in [Name -> Record \cup {Nobody}]
  <2>1. records[c] \in [Name -> Record \cup {Nobody}]
    BY ShapeFacts
  <2>2. CASE Leaves(c) \/ Grows(c)
    BY <2>1, <2>2 DEF Leaves, Grows, GrowsBy
  <2>3. CASE Assigns(c)
    BY <2>1, <2>3 DEF Assigns, AssignsAs
  <2>4. CASE Publishes(c)
    <3>1. PICK v \in DOMAIN profiles[c] : PublishesAs(c, v)
      BY <2>4 DEF Publishes
    <3>2. \A n \in Name : Published(c, v)[n] \in Record \cup {Nobody}
      BY <2>1, PublishedRecords, KeptRecords
    <3>3. records'[c] = [m \in Name |-> Published(c, v)[m]]
      BY <3>1, PublishedRecords DEF PublishesAs, Published
    <3> QED
      BY <3>2, <3>3
  <2> QED
    BY <2>2, <2>3, <2>4 DEF Moves
<1>3. profiles' \in [Candidate -> Seq(Profile)]
  BY <1>1 DEF Moves
<1>4. records' \in [Candidate -> [Name -> Record \cup {Nobody}]]
  BY <1>2 DEF Moves
<1> QED
  BY <1>3, <1>4 DEF Shape

\* Records keep naming versions that exist.
LEMMA LinkedStep ==
  ASSUME Shape, NEW c \in Candidate, Linked(c),
         Leaves(c) \/ Grows(c) \/ Publishes(c) \/ Assigns(c)
  PROVE  Linked(c)'
<1> SUFFICES ASSUME NEW n \in Name, records'[c][n] # Nobody
             PROVE  records'[c][n].profile \in {Manual} \cup DOMAIN profiles'[c]
  BY DEF Linked, Recorded
<1>1. ASSUME records'[c][n] = records[c][n], DOMAIN profiles[c] \subseteq DOMAIN profiles'[c]
      PROVE  records'[c][n].profile \in {Manual} \cup DOMAIN profiles'[c]
  BY <1>1 DEF Linked, Recorded
<1>2. CASE Leaves(c)
  BY <1>1, <1>2 DEF Leaves
<1>3. CASE Grows(c)
  BY <1>1, <1>3, GrownRows DEF Grows, GrowsBy
<1>4. CASE Assigns(c)
  <2>1. PICK m \in Name, r \in Record : AssignsAs(c, m, r)
    BY <1>4 DEF Assigns
  <2>2. records[c] \in [Name -> Record \cup {Nobody}]
    BY ShapeFacts
  <2> QED
    BY <1>1, <2>1, <2>2 DEF AssignsAs
<1>5. CASE Publishes(c)
  <2>1. PICK v \in DOMAIN profiles[c] : PublishesAs(c, v)
    BY <1>5 DEF Publishes
  <2>2. records'[c] = Published(c, v) /\ DOMAIN profiles'[c] = DOMAIN profiles[c]
    BY <2>1, PublishedRows DEF PublishesAs
  <2> QED
    BY <1>1, <2>2, PublishedRecords, KeptRecords
<1> QED
  BY <1>2, <1>3, <1>4, <1>5

\* A record that stays remains current while its version and the other
\* confirmed versions of its CV do.
LEMMA CurrentStays ==
  ASSUME NEW c \in Candidate, NEW n \in Name, RecordIsCurrent(c, n),
         records'[c][n] = records[c][n],
         \A u \in DOMAIN profiles[c] : /\ profiles'[c][u].doc = profiles[c][u].doc
                                       /\ profiles'[c][u].content = profiles[c][u].content,
         Confirmed(c) \subseteq Confirmed(c)',
         \A u \in Confirmed(c)' \ Confirmed(c) :
           profiles'[c][u].doc # profiles[c][records[c][n].profile].doc
             \/ records[c][n].profile = Manual
  PROVE  RecordIsCurrent(c, n)'
<1> DEFINE v == records[c][n].profile
<1> SUFFICES ASSUME v # Manual
             PROVE  /\ v \in Confirmed(c)'
                    /\ \A u \in Confirmed(c)' :
                         profiles'[c][u].doc = profiles'[c][v].doc => u <= v
                    /\ \E i \in DOMAIN profiles'[c][v].content.skills :
                         LET skill == profiles'[c][v].content.skills[i]
                         IN /\ Canonical[skill.label] = Canonical[n]
                            /\ skill.years = records[c][n].years
  BY DEF RecordIsCurrent
<1>1. /\ v \in Confirmed(c)
      /\ \A u \in Confirmed(c) : profiles[c][u].doc = profiles[c][v].doc => u <= v
      /\ \E i \in DOMAIN profiles[c][v].content.skills :
           LET skill == profiles[c][v].content.skills[i]
           IN Canonical[skill.label] = Canonical[n] /\ skill.years = records[c][n].years
  BY DEF RecordIsCurrent
<1>2. v \in DOMAIN profiles[c] /\ \A u \in Confirmed(c) : u \in DOMAIN profiles[c]
  BY <1>1 DEF Confirmed
<1>3. \A u \in Confirmed(c)' : profiles'[c][u].doc = profiles'[c][v].doc => u <= v
  BY <1>1, <1>2
<1> QED
  BY <1>1, <1>2, <1>3

\* Records keep naming the newest confirmed version of their CV, which still
\* says what they say.
LEMMA IsCurrentStep ==
  ASSUME Shape, NEW c \in Candidate, IsCurrent(c),
         Leaves(c) \/ Grows(c) \/ Publishes(c) \/ Assigns(c)
  PROVE  IsCurrent(c)'
<1> SUFFICES ASSUME NEW n \in Name, records'[c][n] # Nobody
             PROVE  RecordIsCurrent(c, n)'
  BY DEF IsCurrent, Recorded
<1>1. records[c][n] # Nobody => RecordIsCurrent(c, n)
  BY DEF IsCurrent, Recorded
<1>2. ASSUME profiles'[c] = profiles[c], records'[c][n] = records[c][n]
      PROVE  RecordIsCurrent(c, n)'
  <2>1. Confirmed(c)' = Confirmed(c)
    BY <1>2 DEF Confirmed
  <2> QED
    BY <1>1, <1>2, <2>1, CurrentStays
<1>3. CASE Leaves(c)
  BY <1>2, <1>3 DEF Leaves
<1>4. CASE Grows(c)
  <2>1. PICK row \in Profile : row.status = "draft" /\ GrowsBy(c, row)
    BY <1>4 DEF Grows
  <2>2. records'[c] = records[c]
    BY <2>1 DEF GrowsBy
  <2>3. /\ \A u \in DOMAIN profiles[c] : profiles'[c][u] = profiles[c][u]
        /\ Confirmed(c)' = Confirmed(c)
    BY <2>1, GrownRows
  <2> QED
    BY <1>1, <2>2, <2>3, CurrentStays
<1>5. CASE Assigns(c)
  <2>1. PICK m \in Name, r \in Record : AssignsAs(c, m, r)
    BY <1>5 DEF Assigns
  <2>2. records[c] \in [Name -> Record \cup {Nobody}]
    BY ShapeFacts
  <2>3. CASE m = n
    BY <2>1, <2>2, <2>3 DEF AssignsAs, RecordIsCurrent
  <2>4. CASE m # n
    BY <1>2, <2>1, <2>2, <2>4 DEF AssignsAs
  <2> QED
    BY <2>3, <2>4
<1>6. CASE Publishes(c)
  <2>1. PICK v \in DOMAIN profiles[c] : PublishesAs(c, v)
    BY <1>6 DEF Publishes
  <2>2. records'[c][n] = Published(c, v)[n]
    BY <2>1 DEF PublishesAs
  <2>3. /\ v \in Nat /\ \A u \in Confirmed(c) : u \in Nat /\ u < v
        /\ \A u \in DOMAIN profiles[c] : /\ profiles'[c][u].doc = profiles[c][u].doc
                                         /\ profiles'[c][u].content = profiles[c][u].content
        /\ Confirmed(c)' = Confirmed(c) \cup {v}
    BY <2>1, PublishedRows, ShapeFacts
  <2>4. CASE Published(c, v)[n] = Kept(c, v)[n]
    <3>1. /\ records'[c][n] = records[c][n] /\ records[c][n] # Nobody
          /\ \/ records[c][n].profile = Manual
             \/ profiles[c][records[c][n].profile].doc # profiles[c][v].doc
      BY <2>2, <2>4, KeptRecords
    <3>2. profiles'[c][v].doc = profiles[c][v].doc
      BY <2>3
    <3> QED
      BY <1>1, <2>3, <3>1, <3>2, CurrentStays
  <2>5. CASE Published(c, v)[n] # Kept(c, v)[n]
    <3>1. /\ records'[c][n].profile = v
          /\ \E i \in DOMAIN profiles[c][v].content.skills :
               /\ Resolved(profiles[c][v].content.skills[i].label) = n
               /\ profiles[c][v].content.skills[i].years = records'[c][n].years
      BY <2>2, <2>5, PublishedRecords
    <3>2. PICK i \in DOMAIN profiles[c][v].content.skills :
               /\ Resolved(profiles[c][v].content.skills[i].label) = n
               /\ profiles[c][v].content.skills[i].years = records'[c][n].years
      BY <3>1
    <3>3. profiles[c][v].content.skills[i].label \in Name
      BY ShapeFacts, ReadingTyped DEF Profile, Skill
    <3>4. Canonical[profiles[c][v].content.skills[i].label] = Canonical[n]
      BY <3>2, <3>3, ResolvedMeans
    <3>5. profiles'[c][v].content = profiles[c][v].content
      BY <2>3
    <3>6. \E j \in DOMAIN profiles'[c][v].content.skills :
            /\ Canonical[profiles'[c][v].content.skills[j].label] = Canonical[n]
            /\ profiles'[c][v].content.skills[j].years = records'[c][n].years
      BY <3>2, <3>4, <3>5
    <3>7. v \in Confirmed(c)' /\ \A u \in Confirmed(c)' : u <= v
      BY <2>3
    <3> QED
      BY <3>1, <3>6, <3>7 DEF RecordIsCurrent
  <2> QED
    BY <2>4, <2>5
<1> QED
  BY <1>3, <1>4, <1>5, <1>6

\* What the newest confirmed version says keeps counting.
LEMMA CountsStep ==
  ASSUME Shape, NEW c \in Candidate, Counts(c),
         Leaves(c) \/ Grows(c) \/ Publishes(c) \/ Assigns(c)
  PROVE  Counts(c)'
<1>1. ASSUME Confirmed(c)' = Confirmed(c), Keys(c) \subseteq Keys(c)',
             \A u \in DOMAIN profiles[c] : profiles'[c][u] = profiles[c][u]
      PROVE  Counts(c)'
  <2> SUFFICES ASSUME HasProfile(c)' PROVE Counts(c)'
    BY DEF Counts
  <2>1. HasProfile(c) /\ CurrentVersion(c)' = CurrentVersion(c)
    BY <1>1 DEF HasProfile, CurrentVersion
  <2>2. CurrentVersion(c) \in DOMAIN profiles[c]
    BY <2>1, CurrentExists DEF Confirmed
  <2>3. Current(c)' = Current(c)
    BY <1>1, <2>1, <2>2 DEF Current
  <2> QED
    BY <1>1, <2>1, <2>3 DEF Counts
<1>2. CASE Leaves(c)
  <2>1. Confirmed(c)' = Confirmed(c) /\ Recorded(c)' = Recorded(c)
    BY <1>2 DEF Leaves, Confirmed, Recorded
  <2>2. Keys(c)' = Keys(c)
    BY <2>1 DEF Keys
  <2> QED
    BY <1>1, <1>2, <2>1, <2>2 DEF Leaves
<1>3. CASE Grows(c)
  <2>1. PICK row \in Profile : row.status = "draft" /\ GrowsBy(c, row)
    BY <1>3 DEF Grows
  <2>2. Recorded(c)' = Recorded(c)
    BY <2>1 DEF GrowsBy, Recorded
  <2>3. Keys(c)' = Keys(c)
    BY <2>2 DEF Keys
  <2> QED
    BY <1>1, <2>1, <2>3, GrownRows
<1>4. CASE Assigns(c)
  <2>1. PICK m \in Name, r \in Record : AssignsAs(c, m, r)
    BY <1>4 DEF Assigns
  <2>2. records[c] \in [Name -> Record \cup {Nobody}]
    BY ShapeFacts
  <2>3. \A n \in Recorded(c) : n \in Recorded(c)'
    BY <2>1, <2>2 DEF AssignsAs, Recorded
  <2>4. Keys(c) \subseteq Keys(c)'
    BY <2>3 DEF Keys
  <2>5. Confirmed(c)' = Confirmed(c) /\ profiles'[c] = profiles[c]
    BY <2>1 DEF AssignsAs, Confirmed
  <2> QED
    BY <1>1, <2>4, <2>5
<1>5. CASE Publishes(c)
  <2>1. PICK v \in DOMAIN profiles[c] : PublishesAs(c, v)
    BY <1>5 DEF Publishes
  <2>2. /\ v \in Nat /\ \A u \in Confirmed(c) : u \in Nat /\ u < v
        /\ profiles'[c][v].content = profiles[c][v].content
        /\ Confirmed(c)' = Confirmed(c) \cup {v}
    BY <2>1, PublishedRows, ShapeFacts
  <2>3. HasProfile(c)'
    BY <2>2 DEF HasProfile
  <2>4. /\ v \in Confirmed(c)' /\ \A u \in Confirmed(c)' : u <= v
        /\ \A w \in Confirmed(c)' : v <= w => w = v
    BY <2>2
  <2>5. CurrentVersion(c)' = v
    BY <2>4 DEF CurrentVersion
  <2>6. Current(c)' = profiles[c][v].content
    BY <2>2, <2>5 DEF Current
  <2>7. ASSUME NEW i \in DOMAIN profiles[c][v].content.skills
        PROVE  Canonical[profiles[c][v].content.skills[i].label] \in Keys(c)'
    <3> DEFINE label == profiles[c][v].content.skills[i].label
    <3>1. label \in Name
      BY ShapeFacts, ReadingTyped DEF Profile, Skill
    <3>2. Resolved(label) \in Name /\ Canonical[Resolved(label)] = Canonical[label]
      BY <3>1, ResolvedMeans
    <3>3. Published(c, v)[Resolved(label)] # Nobody
      BY <3>2, PublishedRecords
    <3>4. Resolved(label) \in Recorded(c)'
      BY <2>1, <3>2, <3>3 DEF PublishesAs, Recorded
    <3> QED
      BY <3>2, <3>4 DEF Keys
  <2> QED
    BY <2>6, <2>7 DEF Counts
<1> QED
  BY <1>2, <1>3, <1>4, <1>5

\* At the start there are no profiles and no records.
LEMMA RankingInit == Init => RankingInv
<1> SUFFICES ASSUME Init PROVE RankingInv
  OBVIOUS
<1>1. profiles = [c \in Candidate |-> <<>>] /\ records = [c \in Candidate |-> [n \in Name |-> Nobody]]
  BY DEF Init
<1>2. Shape
  <2>1. <<>> \in Seq(Profile)
    OBVIOUS
  <2> QED
    BY <1>1, <2>1 DEF Shape
<1>3. \A c \in Candidate : Recorded(c) = {} /\ Confirmed(c) = {}
  BY <1>1 DEF Recorded, Confirmed
<1> QED
  BY <1>2, <1>3 DEF RankingInv, Linked, IsCurrent, Counts, HasProfile

\* RankingInv is inductive.
LEMMA RankingStep == RankingInv /\ [Next]_vars => RankingInv'
<1> SUFFICES ASSUME RankingInv, [Next]_vars PROVE RankingInv'
  OBVIOUS
<1>1. Shape /\ Moves
  BY StepMoves DEF RankingInv
<1>2. Shape'
  BY <1>1, ShapeStep
<1>3. ASSUME NEW c \in Candidate PROVE Linked(c)' /\ IsCurrent(c)' /\ Counts(c)'
  <2>1. Linked(c) /\ IsCurrent(c) /\ Counts(c)
    BY DEF RankingInv
  <2>2. Leaves(c) \/ Grows(c) \/ Publishes(c) \/ Assigns(c)
    BY <1>1 DEF Moves
  <2> QED
    BY <1>1, <1>2, <2>1, <2>2, LinkedStep, IsCurrentStep, CountsStep
<1> QED
  BY <1>2, <1>3 DEF RankingInv

\* Profiles and records keep their shape, and what each candidate has on record
\* is current and counts, at every confirmation, correction, bulk confirmation
\* and manual record (candidates/ai_extraction.py).
THEOREM RankingInvariant == Spec => []RankingInv
BY RankingInit, RankingStep, PTL DEF Spec

\* Nothing that an earlier version of a CV said survives the confirmation of a
\* correction (the deletion in confirm_candidate_profile), whatever the CVs,
\* the vocabulary and the records of other CVs are.
THEOREM RankingRecords == Spec => []RecordsAreCurrent
<1>1. RankingInv => RecordsAreCurrent
  BY DEF RankingInv, IsCurrent, RecordIsCurrent, RecordsAreCurrent
<1> QED
  BY <1>1, RankingInvariant, PTL

\* All that the newest confirmed version says counts for the candidate, under
\* its canonical skill (confirm_candidate_profile, get_or_create_skill).
THEOREM RankingSkills == Spec => []CurrentSkillsCount
<1>1. RankingInv => CurrentSkillsCount
  BY DEF RankingInv, Counts, CurrentSkillsCount
<1> QED
  BY <1>1, RankingInvariant, PTL

-----------------------------------------------------------------------------
(* The choice among several records of one skill.                          *)

\* A finite set of years has a bound: else take a smallest set without one.
LEMMA YearsBounded == \E most \in Nat : \A y \in Years : y <= most
<1> DEFINE Bounded(T) == \E most \in Nat : \A y \in T : y <= most
           Unbounded == {T \in SUBSET Years : ~Bounded(T)}
<1> SUFFICES ASSUME ~Bounded(Years) PROVE FALSE
  OBVIOUS
<1>1. Years \in SUBSET Nat /\ IsFiniteSet(Years)
  BY RankingAssumption
<1>2. Unbounded \subseteq FiniteSubsetsOf(Years) /\ Unbounded # {}
  BY <1>1, FS_FiniteSubsetsOfFinite
<1>3. PICK T \in Unbounded :
        \A U \in Unbounded : ~(<<U, T>> \in StrictSubsetOrdering(Years))
  BY <1>2, FS_StrictSubsetOrderingWellFounded, WFMin
<1>4. PICK x \in T : TRUE
  <2>1. T # {}
    BY <1>3
  <2> QED
    BY <2>1
<1>5. Bounded(T \ {x})
  <2>1. <<T \ {x}, T>> \in StrictSubsetOrdering(Years)
    BY <1>3, <1>4 DEF StrictSubsetOrdering
  <2>2. T \ {x} \notin Unbounded /\ T \ {x} \in SUBSET Years
    BY <1>3, <2>1
  <2> QED
    BY <2>2
<1>6. PICK most \in Nat : \A y \in T \ {x} : y <= most
  BY <1>5
<1>7. x \in Nat /\ \A y \in T : y \in Nat
  BY <1>1, <1>3
<1>8. CASE x <= most
  BY <1>3, <1>6, <1>8
<1>9. CASE ~(x <= most)
  <2>1. \A y \in T : y <= x
    BY <1>6, <1>7, <1>9
  <2> QED
    BY <1>3, <1>7, <2>1
<1> QED
  BY <1>8, <1>9

\* A function into the integers that is bounded below has a least value.
LEMMA LeastValue ==
  ASSUME NEW S, NEW x \in S, NEW g \in [S -> Int], NEW bound \in Int,
         \A n \in S : bound <= g[n]
  PROVE  \E n \in S : \A m \in S : g[n] <= g[m]
<1> DEFINE T == {g[n] : n \in S}
<1>1. T \in SUBSET Int /\ g[x] \in T /\ \A y \in T : bound <= y
  OBVIOUS
<1> HIDE DEF T
<1>2. PICK t \in T : \A y \in T : t <= y
  BY <1>1, LeastExists
<1>3. PICK n \in S : t = g[n]
  BY <1>2 DEF T
<1>4. \A m \in S : g[m] \in T
  BY DEF T
<1> QED
  BY <1>2, <1>3, <1>4

\* Among tuples of four numbers, all bounded below, one comes first.
LEMMA FirstExists ==
  ASSUME NEW S, NEW x \in S, NEW p \in [S -> [1..4 -> Int]], NEW bound \in Int,
         \A n \in S : \A i \in 1..4 : bound <= p[n][i]
  PROVE  \E n \in S : \A m \in S : ~Precedes(p[m], p[n])
<1>1. PICK n1 \in S : \A m \in S : p[n1][1] <= p[m][1]
  <2> DEFINE g == [n \in S |-> p[n][1]]
  <2>1. g \in [S -> Int] /\ \A n \in S : bound <= g[n]
    OBVIOUS
  <2> HIDE DEF g
  <2>2. \E n \in S : \A m \in S : g[n] <= g[m]
    BY <2>1, LeastValue
  <2> QED
    BY <2>2 DEF g
<1> DEFINE S1 == {n \in S : p[n][1] = p[n1][1]}
<1>2. PICK n2 \in S1 : \A m \in S1 : p[n2][2] <= p[m][2]
  <2> DEFINE g == [n \in S1 |-> p[n][2]]
  <2>1. g \in [S1 -> Int] /\ n1 \in S1 /\ \A n \in S1 : bound <= g[n]
    OBVIOUS
  <2> HIDE DEF g, S1
  <2>2. \E n \in S1 : \A m \in S1 : g[n] <= g[m]
    BY <2>1, LeastValue
  <2> QED
    BY <2>2 DEF g
<1> DEFINE S2 == {n \in S1 : p[n][2] = p[n2][2]}
<1>3. PICK n3 \in S2 : \A m \in S2 : p[n3][3] <= p[m][3]
  <2> DEFINE g == [n \in S2 |-> p[n][3]]
  <2>1. g \in [S2 -> Int] /\ n2 \in S2 /\ \A n \in S2 : bound <= g[n]
    OBVIOUS
  <2> HIDE DEF g, S2
  <2>2. \E n \in S2 : \A m \in S2 : g[n] <= g[m]
    BY <2>1, LeastValue
  <2> QED
    BY <2>2 DEF g
<1> DEFINE S3 == {n \in S2 : p[n][3] = p[n3][3]}
<1>4. PICK n4 \in S3 : \A m \in S3 : p[n4][4] <= p[m][4]
  <2> DEFINE g == [n \in S3 |-> p[n][4]]
  <2>1. g \in [S3 -> Int] /\ n3 \in S3 /\ \A n \in S3 : bound <= g[n]
    OBVIOUS
  <2> HIDE DEF g, S3
  <2>2. \E n \in S3 : \A m \in S3 : g[n] <= g[m]
    BY <2>1, LeastValue
  <2> QED
    BY <2>2 DEF g
<1>5. ASSUME NEW m \in S, Precedes(p[m], p[n4]) PROVE FALSE
  <2>1. PICK i \in 1..4 : /\ \A j \in 1..(i - 1) : p[m][j] = p[n4][j]
                          /\ p[m][i] < p[n4][i]
    BY <1>5 DEF Precedes
  <2>2. \A j \in 1..4 : p[m][j] \in Int /\ p[n4][j] \in Int
    OBVIOUS
  <2>3. CASE i = 1
    BY <1>1, <2>1, <2>2, <2>3
  <2>4. CASE i = 2
    <3>1. p[m][1] = p[n4][1]
      BY <2>1, <2>4
    <3> QED
      BY <1>2, <2>1, <2>2, <2>4, <3>1
  <2>5. CASE i = 3
    <3>1. p[m][1] = p[n4][1] /\ p[m][2] = p[n4][2]
      BY <2>1, <2>5
    <3> QED
      BY <1>3, <2>1, <2>2, <2>5, <3>1
  <2>6. CASE i = 4
    <3>1. p[m][1] = p[n4][1] /\ p[m][2] = p[n4][2] /\ p[m][3] = p[n4][3]
      BY <2>1, <2>6
    <3> QED
      BY <1>4, <2>1, <2>2, <2>6, <3>1
  <2> QED
    BY <2>1, <2>3, <2>4, <2>5, <2>6
<1> QED
  BY <1>5

\* The best record of a skill is one of the candidate's records of that skill,
\* and has evidence if any of them has.
LEMMA BestIsRecorded ==
  ASSUME Shape, NEW c \in Candidate, NEW k \in Keys(c)
  PROVE  \E n \in Recorded(c) : /\ Canonical[n] = k /\ Best(c)[k] = records[c][n]
                                /\ Foremost(c, n)
<1> DEFINE same == {n \in Recorded(c) : Canonical[n] = k}
           p == [n \in same |-> Priority(c, n)]
           best == CHOOSE n \in same : \A m \in same : ~Precedes(Priority(c, m), Priority(c, n))
<1>1. PICK x \in same : TRUE
  BY DEF Keys
<1>2. PICK most \in Nat : \A y \in Years : y <= most
  BY YearsBounded
<1>3. ASSUME NEW n \in same
      PROVE  /\ Priority(c, n) \in [1..4 -> Int]
             /\ \A i \in 1..4 : 0 - most <= Priority(c, n)[i]
  <2> DEFINE r == records[c][n]
             t1 == IF r.evidence THEN 0 ELSE 1
             t2 == IF r.years # Nobody THEN 0 ELSE 1
             t3 == 0 - YearsOf(r)
             t4 == IF Canonical[n] = n THEN 0 ELSE 1
  <2>1. r \in Record
    BY ShapeFacts DEF Recorded
  <2>2. YearsOf(r) \in Nat /\ YearsOf(r) <= most
    <3>1. r.years \in Years \cup {Nobody}
      BY <2>1 DEF Record
    <3>2. Years \subseteq Nat /\ 0 <= most
      BY RankingAssumption
    <3> HIDE DEF r
    <3>3. CASE r.years = Nobody
      BY <3>2, <3>3 DEF YearsOf
    <3>4. CASE r.years # Nobody
      <4>1. r.years \in Years /\ YearsOf(r) = r.years
        BY <3>1, <3>4 DEF YearsOf
      <4> QED
        BY <1>2, <3>2, <4>1
    <3> QED
      BY <3>3, <3>4
  <2>3. t1 \in Int /\ t2 \in Int /\ t3 \in Int /\ t4 \in Int
    BY <2>2
  <2>4. 0 - most <= t1 /\ 0 - most <= t2 /\ 0 - most <= t3 /\ 0 - most <= t4
    BY <1>2, <2>2
  <2>5. Priority(c, n) = <<t1, t2, t3, t4>>
    BY DEF Priority
  <2> HIDE DEF t1, t2, t3, t4
  <2>6. \A i \in 1..4 : Priority(c, n)[i] \in {t1, t2, t3, t4}
    BY <2>5
  <2>7. Priority(c, n) \in [1..4 -> Int]
    BY <2>3, <2>5
  <2> QED
    BY <2>4, <2>6, <2>7
<1>4. p \in [same -> [1..4 -> Int]] /\ 0 - most \in Int
  BY <1>3
<1>5. \A n \in same : \A i \in 1..4 : 0 - most <= p[n][i]
  BY <1>3
<1>6. \A n \in same : p[n] = Priority(c, n)
  OBVIOUS
<1>7. Best(c)[k] = records[c][best]
  BY DEF Best
<1> HIDE DEF p
<1>8. \E n \in same : \A m \in same : ~Precedes(p[m], p[n])
  <2> HIDE DEF same
  <2> QED
    BY <1>1, <1>4, <1>5, FirstExists
<1>9. best \in same /\ \A m \in same : ~Precedes(Priority(c, m), Priority(c, best))
  <2>1. \E n \in same : \A m \in same : ~Precedes(Priority(c, m), Priority(c, n))
    BY <1>6, <1>8
  <2> HIDE DEF same
  <2> QED
    BY <2>1
<1> HIDE DEF best
<1>10. ASSUME NEW m \in same, records[c][m].evidence, ~records[c][best].evidence PROVE FALSE
  <2> DEFINE s == Priority(c, m)
             t == Priority(c, best)
  <2>1. DOMAIN s = 1..4 /\ s[1] = 0 /\ t[1] = 1
    BY <1>10 DEF Priority
  <2> HIDE DEF s, t
  <2>2. Precedes(s, t)
    BY <2>1 DEF Precedes
  <2> QED
    BY <1>9, <2>2 DEF s, t
<1> QED
  BY <1>7, <1>9, <1>10 DEF Foremost

-----------------------------------------------------------------------------
(* What a rule that passes has been told.                                  *)

\* The four kinds of rule; a passed outcome has its proof.
Proof(c, rule) ==
  /\ rule.kind = "skill" => Told(c, Canonical[rule.value])
  /\ rule.kind = "years" => \E n \in Recorded(c) :
       YearsOf(records[c][n]) >= rule.value /\ Foremost(c, n)
  /\ rule.kind = "location" => PlacesMatch(PlaceOf(c), rule.value)
  /\ rule.kind = "fact" => \E v \in Confirmed(c) : rule.value \in profiles[c][v].content.facts

\* evaluate_rule by the kind of rule.
LEMMA KindsOfRule ==
  ASSUME NEW c, NEW rule
  PROVE  /\ rule.kind = "skill" => Outcome(c, rule) = SkillOutcome(c, rule.value)
         /\ rule.kind = "years" => Outcome(c, rule) = YearsOutcome(c, rule.value)
         /\ rule.kind = "location" => Outcome(c, rule) = LocationOutcome(c, rule.value)
         /\ rule.kind = "fact" => Outcome(c, rule) = FactOutcome(c, rule.value)
BY DEF Outcome

\* A rule that neither fails nor lacks information is proven.
LEMMA PassedIsProven ==
  ASSUME RankingInv, NEW c \in Candidate, NEW rule,
         Outcome(c, rule) \notin {"failed", "unknown"}
  PROVE  Proof(c, rule)
<1>1. Shape /\ IsCurrent(c)
  BY DEF RankingInv
<1>2. ASSUME rule.kind = "skill" PROVE Told(c, Canonical[rule.value])
  <2>1. Canonical[rule.value] \in Keys(c)
    BY <1>2, KindsOfRule DEF SkillOutcome, PassedIf
  <2>2. PICK n \in Recorded(c) : Canonical[n] = Canonical[rule.value]
    BY <2>1 DEF Keys
  <2>3. CASE records[c][n].profile = Manual
    BY <2>2, <2>3 DEF Told
  <2>4. CASE records[c][n].profile # Manual
    <3>1. RecordIsCurrent(c, n)
      BY <1>1 DEF IsCurrent
    <3> QED
      BY <2>2, <2>4, <3>1 DEF RecordIsCurrent, Told
  <2> QED
    BY <2>3, <2>4
<1>3. ASSUME rule.kind = "years"
      PROVE  \E n \in Recorded(c) : YearsOf(records[c][n]) >= rule.value /\ Foremost(c, n)
  <2>1. PICK k \in Keys(c) : Best(c)[k].years # Nobody /\ Best(c)[k].years >= rule.value
    BY <1>3, KindsOfRule DEF YearsOutcome, PassedIf
  <2>2. PICK n \in Recorded(c) : Best(c)[k] = records[c][n] /\ Foremost(c, n)
    BY <1>1, BestIsRecorded
  <2> QED
    BY <2>1, <2>2 DEF YearsOf
<1>4. ASSUME rule.kind = "location" PROVE PlacesMatch(PlaceOf(c), rule.value)
  BY <1>4, KindsOfRule DEF LocationOutcome
<1>5. ASSUME rule.kind = "fact"
      PROVE  \E v \in Confirmed(c) : rule.value \in profiles[c][v].content.facts
  <2>1. HasProfile(c) /\ rule.value \in Current(c).facts
    BY <1>5, KindsOfRule DEF FactOutcome, PassedIf
  <2>2. CurrentVersion(c) \in Confirmed(c)
    BY <1>1, <2>1, CurrentExists
  <2> QED
    BY <2>1, <2>2 DEF Current
<1> QED
  BY <1>2, <1>3, <1>4, <1>5 DEF Proof

\* Whoever a shortlist lists has passed every rule, and each rule that passed is
\* proven by a manual record or a confirmed profile, not by missing
\* information, not by a draft and not by years without evidence beside a
\* record that has it (candidate_skills_by_canonical_key in skill_matching.py;
\* evaluate_rule, _aggregate_outcome, is_shortlist_eligible in evaluation.py).
THEOREM RankingEligibility == Spec => []ListedIsProven
<1>1. RankingInv => ListedIsProven
  <2> SUFFICES ASSUME RankingInv, NEW c \in DOMAIN Shortlist, NEW rule \in wanted.rules
               PROVE  Proof(c, rule)
    BY DEF ListedIsProven, Proof
  <2>1. c \in Eligible
    BY DEF Shortlist
  <2>2. c \in Candidate /\ FilterOutcome(c) = "passed"
    BY <2>1 DEF Eligible
  <2>3. Outcome(c, rule) \notin {"failed", "unknown"}
    BY <2>2 DEF FilterOutcome
  <2> QED
    BY <2>2, <2>3, PassedIsProven
<1> QED
  BY <1>1, RankingInvariant, PTL

-----------------------------------------------------------------------------
(* Types. *)

Inputs == /\ wanted \in Version
          /\ status \in [Candidate -> {"active", "deletion_requested"}]
          /\ location \in [Candidate -> Place \cup {Nobody}]
          /\ edits \in 0..MaxEdit

\* The columns of the first rows.
LEMMA InputsInit == Init => Inputs
BY RankingAssumption DEF Init, Inputs

\* Every service writes columns of their type.
LEMMA InputsStep == Inputs /\ [Next]_vars => Inputs'
<1> SUFFICES ASSUME Inputs, [Next]_vars PROVE Inputs'
  OBVIOUS
<1> USE RankingAssumption DEF Inputs
<1>1. CASE UNCHANGED <<wanted, status, location, edits>>
  BY <1>1
<1>2. CASE /\ UNCHANGED <<wanted, status, location>>
           /\ edits < MaxEdit /\ edits' = edits + 1
  BY <1>2
<1>3. ASSUME NEW c \in Candidate, NEW place \in Place \cup {Nobody}, EditLocation(c, place)
      PROVE  Inputs'
  BY <1>3 DEF EditLocation
<1>4. ASSUME NEW c \in Candidate, RequestDeletion(c) PROVE Inputs'
  BY <1>4 DEF RequestDeletion
<1>5. ASSUME NEW c \in Candidate, CancelDeletion(c) PROVE Inputs'
  BY <1>5 DEF CancelDeletion
<1>6. CASE UNCHANGED vars
  BY <1>1, <1>6 DEF vars
<1>7. ASSUME NEW d \in Doc, ConfirmAll(d) PROVE Inputs'
  BY <1>1, <1>7 DEF ConfirmAll
<1>8. ASSUME NEW c \in Candidate, Recruit(c) PROVE Inputs'
  <2>1. ASSUME NEW d \in Doc, NEW content \in Content, Extract(c, d, content) PROVE Inputs'
    BY <1>1, <2>1 DEF Extract, File
  <2>2. ASSUME NEW v, NEW place, NEW retained, Correct(c, v, retained, place) PROVE Inputs'
    BY <1>2, <2>2 DEF Correct, File
  <2>3. ASSUME NEW v, Confirm(c, v) PROVE Inputs'
    BY <1>1, <2>3 DEF Confirm
  <2>4. ASSUME NEW n, NEW evidence, NEW years, AssignSkill(c, n, evidence, years) PROVE Inputs'
    BY <1>2, <2>4 DEF AssignSkill
  <2> QED
    BY <1>3, <1>4, <1>5, <1>8, <2>1, <2>2, <2>3, <2>4 DEF Recruit
<1> QED
  BY <1>6, <1>7, <1>8 DEF Next

\* Whatever is extracted, corrected, confirmed and recorded, profiles and records
\* have their columns, and a record names a version that exists or none.
THEOREM RankingTypes == Spec => []TypeOK
<1>1. RankingInv /\ Inputs => TypeOK
  <2> SUFFICES ASSUME RankingInv, Inputs PROVE TypeOK
    OBVIOUS
  <2>1. ASSUME NEW c \in Candidate, NEW v \in DOMAIN profiles[c]
        PROVE  profiles[c][v].doc \in Doc /\ profiles[c][v].status \in {"draft", "confirmed"}
    BY ShapeFacts DEF RankingInv, Profile
  <2>2. ASSUME NEW c \in Candidate, NEW n \in Recorded(c)
        PROVE  /\ records[c][n].profile \in {Manual} \cup DOMAIN profiles[c]
               /\ records[c][n].evidence \in BOOLEAN
               /\ records[c][n].years \in Years \cup {Nobody}
    <3>1. records[c][n] \in Record
      BY ShapeFacts DEF RankingInv, Recorded
    <3> QED
      BY <3>1 DEF RankingInv, Linked, Record
  <2> QED
    BY <2>1, <2>2 DEF TypeOK, Inputs
<1>2. Spec => []Inputs
  BY InputsInit, InputsStep, PTL DEF Spec
<1> QED
  BY <1>1, <1>2, RankingInvariant, PTL
-----------------------------------------------------------------------------
(* Induction over finite sets, in the form the provers can use: over a set of  *)
(* sets for which the claim holds.                                             *)

\* A set of subsets that has every subset whose smaller ones it has, has all.
LEMMA SubsetInduction ==
  ASSUME NEW S, IsFiniteSet(S), NEW Good,
         \A A \in SUBSET S : (\A B \in SUBSET A : B # A => B \in Good) => A \in Good
  PROVE  \A A \in SUBSET S : A \in Good
<1> DEFINE Bad == (SUBSET S) \ Good
<1> SUFFICES ASSUME Bad # {} PROVE FALSE
  OBVIOUS
<1>1. Bad \subseteq FiniteSubsetsOf(S) /\ Bad # {}
  BY FS_FiniteSubsetsOfFinite
<1>2. PICK T \in Bad : \A U \in Bad : ~(<<U, T>> \in StrictSubsetOrdering(S))
  <2> HIDE DEF Bad
  <2> QED
    BY <1>1, FS_StrictSubsetOrderingWellFounded, WFMin
<1>3. ASSUME NEW B \in SUBSET T, B # T PROVE B \in Good
  <2>1. <<B, T>> \in StrictSubsetOrdering(S)
    BY <1>2, <1>3 DEF StrictSubsetOrdering
  <2> QED
    BY <1>2, <1>3, <2>1
<1> QED
  BY <1>2, <1>3

\* One that has the empty set and, with every set, the sets of one element more.
LEMMA SetInduction ==
  ASSUME NEW S, IsFiniteSet(S), NEW Good, {} \in Good,
         \A A \in Good, x \in S : A \subseteq S /\ x \notin A => A \cup {x} \in Good
  PROVE  S \in Good
<1>1. ASSUME NEW A \in SUBSET S, \A B \in SUBSET A : B # A => B \in Good
      PROVE  A \in Good
  <2>1. CASE A = {}
    BY <2>1
  <2>2. CASE A # {}
    <3>1. PICK x \in A : TRUE
      BY <2>2
    <3>2. A \ {x} \in Good /\ A = (A \ {x}) \cup {x}
      BY <1>1, <3>1
    <3> QED
      BY <3>1, <3>2
  <2> QED
    BY <2>1, <2>2
<1> HIDE DEF FiniteSubsetsOf
<1>2. \A A \in SUBSET S : A \in Good
  BY <1>1, SubsetInduction
<1> QED
  BY <1>2

\* The same for numbers.
LEMMA NumberInduction ==
  ASSUME NEW Good, 0 \in Good, \A n \in Nat : n \in Good => n + 1 \in Good
  PROVE  \A n \in Nat : n \in Good
<1> DEFINE Bad == Nat \ Good
<1> SUFFICES ASSUME Bad # {} PROVE FALSE
  OBVIOUS
<1>1. PICK n \in Bad : \A k \in Bad : ~(<<k, n>> \in OpToRel(<, Nat))
  BY NatLessThanWellFounded, WFMin
<1>2. n \in Nat /\ n # 0 /\ n - 1 \in Nat /\ (n - 1) + 1 = n
  <2>1. n \in Nat /\ n # 0
    BY <1>1
  <2> QED
    BY <2>1
<1>3. <<n - 1, n>> \in OpToRel(<, Nat)
  BY <1>2 DEF OpToRel
<1> QED
  BY <1>1, <1>2, <1>3

-----------------------------------------------------------------------------
(* Sums. *)

SumOver(f, S) == FoldFunctionOnSet(+, 0, f, S)

One(s) == CHOOSE x \in s : TRUE
\* g adds up f over every set in D.
AddsUp(g, f, D) == g = [s \in D |-> IF s = {} THEN 0 ELSE f[One(s)] + g[s \ {One(s)}]]
SumsOf(f, S) == CHOOSE g : AddsUp(g, f, SUBSET S)

\* SumOver is the recursive function it is defined by.
LEMMA SumIsFold == ASSUME NEW f, NEW S PROVE SumOver(f, S) = SumsOf(f, S)[S]
BY DEF SumOver, FoldFunctionOnSet, MapThenFoldSet, SumsOf, AddsUp, One

Small(S, n) == {s \in SUBSET S : Cardinality(s) <= n}

\* There is such a function, for sets of at most n elements ...
LEMMA SmallSums ==
  ASSUME NEW f, NEW S, IsFiniteSet(S), NEW n \in Nat
  PROVE  \E g : AddsUp(g, f, Small(S, n))
<1> DEFINE D(k) == {s \in SUBSET S : Cardinality(s) <= k}
           Good == {k \in Nat : \E g : AddsUp(g, f, D(k))}
<1>1. \A s \in SUBSET S : IsFiniteSet(s) /\ Cardinality(s) \in Nat
  BY FS_Subset, FS_CardinalityType
<1>2. 0 \in Good
  <2>1. \A s \in D(0) : s = {}
    BY <1>1, FS_EmptySet
  <2> DEFINE g == [s \in D(0) |-> 0]
  <2>2. AddsUp(g, f, D(0))
    BY <2>1 DEF AddsUp
  <2> QED
    BY <2>2
<1>3. ASSUME NEW k \in Nat, k \in Good
      PROVE  k + 1 \in Good
  <2>1. PICK g : AddsUp(g, f, D(k))
    BY <1>3
  <2>2. ASSUME NEW s \in D(k + 1), s # {}
        PROVE  s \ {One(s)} \in D(k)
    <3>1. One(s) \in s
      BY <2>2 DEF One
    <3>2. Cardinality(s \ {One(s)}) = Cardinality(s) - 1
      BY <1>1, <3>1, FS_RemoveElement
    <3> QED
      BY <1>1, <3>2
  <2>3. D(k) \subseteq D(k + 1)
    BY <1>1
  <2> DEFINE h == [s \in D(k + 1) |-> IF s = {} THEN 0 ELSE f[One(s)] + g[s \ {One(s)}]]
  <2>4. \A s \in D(k) : h[s] = g[s]
    <3> HIDE DEF D
    <3> QED
      BY <2>1, <2>3 DEF AddsUp
  <2>5. AddsUp(h, f, D(k + 1))
    <3>1. \A s \in D(k + 1) : s # {} => h[s \ {One(s)}] = g[s \ {One(s)}]
      BY <2>2, <2>4
    <3> HIDE DEF D
    <3> QED
      BY <3>1 DEF AddsUp
  <2>6. k + 1 \in Nat /\ \E g1 : AddsUp(g1, f, D(k + 1))
    <3> HIDE DEF h, D
    <3> QED
      BY <2>5
  <2> HIDE DEF D
  <2> QED
    BY <2>6
<1> HIDE DEF Good
<1>4. n \in Good
  BY <1>2, <1>3, NumberInduction
<1>5. D(n) = Small(S, n)
  BY DEF Small
<1> HIDE DEF D
<1> QED
  BY <1>4, <1>5 DEF Good

\* ... hence for all subsets of a finite set.
LEMMA SumsExist ==
  ASSUME NEW f, NEW S, IsFiniteSet(S)
  PROVE  AddsUp(SumsOf(f, S), f, SUBSET S)
<1>1. Cardinality(S) \in Nat /\ \A s \in SUBSET S : Cardinality(s) <= Cardinality(S)
  BY FS_Subset, FS_CardinalityType
<1>2. Small(S, Cardinality(S)) = SUBSET S
  BY <1>1 DEF Small
<1>3. \E g : AddsUp(g, f, SUBSET S)
  BY <1>1, <1>2, SmallSums
<1> QED
  BY <1>3 DEF SumsOf

\* A sum does not depend on the set that its recursion ranges over.
LEMMA SumsAgree ==
  ASSUME NEW f, NEW S, IsFiniteSet(S), NEW T \in SUBSET S
  PROVE  SumsOf(f, S)[T] = SumOver(f, T)
<1>1. PICK g : g = SumsOf(f, S) /\ AddsUp(g, f, SUBSET S)
  BY SumsExist
<1>2. IsFiniteSet(T)
  BY FS_Subset
<1>3. PICK h : h = SumsOf(f, T) /\ AddsUp(h, f, SUBSET T)
  BY <1>2, SumsExist
<1> DEFINE Good == {A \in SUBSET T : g[A] = h[A]}
<1>4. ASSUME NEW A \in SUBSET T, \A B \in SUBSET A : B # A => B \in Good
      PROVE  A \in Good
  <2>1. A \in SUBSET S
    OBVIOUS
  <2>2. CASE A = {}
    BY <1>1, <1>3, <2>1, <2>2 DEF AddsUp
  <2>3. CASE A # {}
    <3>1. One(A) \in A
      BY <2>3 DEF One
    <3>2. g[A \ {One(A)}] = h[A \ {One(A)}]
      BY <1>4, <3>1
    <3>3. g[A] = f[One(A)] + g[A \ {One(A)}]
      BY <1>1, <2>1, <2>3 DEF AddsUp
    <3>4. h[A] = f[One(A)] + h[A \ {One(A)}]
      BY <1>3, <2>3 DEF AddsUp
    <3> QED
      BY <3>2, <3>3, <3>4
  <2> QED
    BY <2>2, <2>3
<1> HIDE DEF Good
<1>5. T \in Good
  BY <1>2, <1>4, SubsetInduction
<1> QED
  BY <1>1, <1>3, <1>5, SumIsFold DEF Good

\* The sum of nothing, and the recursion.
LEMMA SumRecursion ==
  ASSUME NEW f, NEW S, IsFiniteSet(S)
  PROVE  /\ SumOver(f, {}) = 0
         /\ S # {} => /\ One(S) \in S
                      /\ SumOver(f, S) = f[One(S)] + SumOver(f, S \ {One(S)})
<1>1. PICK g : g = SumsOf(f, S) /\ AddsUp(g, f, SUBSET S)
  BY SumsExist
<1>2. \A T \in SUBSET S : g[T] = SumOver(f, T)
  BY <1>1, SumsAgree
<1>3. g[{}] = 0
  BY <1>1 DEF AddsUp
<1>4. ASSUME S # {}
      PROVE  One(S) \in S /\ g[S] = f[One(S)] + g[S \ {One(S)}]
  BY <1>1, <1>4 DEF AddsUp, One
<1> QED
  BY <1>2, <1>3, <1>4

\* A sum of integers is an integer, and any element may be taken out first.
LEMMA SumSplits ==
  ASSUME NEW f, NEW S, IsFiniteSet(S), \A x \in S : f[x] \in Int
  PROVE  /\ SumOver(f, S) \in Int
         /\ \A x \in S : SumOver(f, S) = f[x] + SumOver(f, S \ {x})
<1> DEFINE Fine(A) == /\ SumOver(f, A) \in Int
                      /\ \A x \in A : SumOver(f, A) = f[x] + SumOver(f, A \ {x})
           Good == {A \in SUBSET S : Fine(A)}
<1>1. ASSUME NEW A \in SUBSET S, \A B \in SUBSET A : B # A => B \in Good
      PROVE  A \in Good
  <2>1. IsFiniteSet(A)
    BY FS_Subset
  <2>2. \A B \in SUBSET A : B # A => Fine(B)
    BY <1>1
  <2>3. CASE A = {}
    <3>1. SumOver(f, A) = 0
      BY <2>1, <2>3, SumRecursion
    <3>2. Fine(A)
      BY <2>3, <3>1
    <3> HIDE DEF Fine
    <3> QED
      BY <3>2
  <2>4. CASE A # {}
    <3>1. PICK c \in A : c = One(A) /\ SumOver(f, A) = f[c] + SumOver(f, A \ {c})
      BY <2>1, <2>4, SumRecursion
    <3>2. Fine(A \ {c}) /\ f[c] \in Int
      BY <2>2, <3>1
    <3>3. SumOver(f, A) \in Int
      BY <3>1, <3>2
    <3>4. ASSUME NEW x \in A, x # c
          PROVE  SumOver(f, A) = f[x] + SumOver(f, A \ {x})
      <4>1. (A \ {c}) \ {x} = (A \ {x}) \ {c}
        OBVIOUS
      <4>2. Fine(A \ {x}) /\ f[x] \in Int
        BY <2>2
      <4>3. Fine((A \ {x}) \ {c})
        BY <2>2
      <4>4. SumOver(f, A \ {c}) = f[x] + SumOver(f, (A \ {x}) \ {c})
        BY <3>2, <3>4, <4>1
      <4>5. SumOver(f, A \ {x}) = f[c] + SumOver(f, (A \ {x}) \ {c})
        BY <3>4, <4>2
      <4> HIDE DEF Good
      <4> QED
        BY <3>1, <3>2, <4>2, <4>3, <4>4, <4>5
    <3>5. Fine(A)
      BY <3>1, <3>3, <3>4
    <3> HIDE DEF Fine
    <3> QED
      BY <3>5
  <2> QED
    BY <2>3, <2>4
<1> HIDE DEF Good
<1>2. S \in Good
  BY <1>1, SubsetInduction
<1> QED
  BY <1>2 DEF Good

\* Adding an element adds its value.
LEMMA SumAdds ==
  ASSUME NEW f, NEW S, IsFiniteSet(S), NEW x, x \notin S, \A y \in S \cup {x} : f[y] \in Int
  PROVE  SumOver(f, S \cup {x}) = f[x] + SumOver(f, S) /\ SumOver(f, S) \in Int
<1>1. IsFiniteSet(S \cup {x}) /\ (S \cup {x}) \ {x} = S
  BY FS_AddElement
<1> QED
  BY <1>1, SumSplits

\* Sums follow a division with remainder of every element.
LEMMA SumDivided ==
  ASSUME NEW S, IsFiniteSet(S), NEW f, NEW q, NEW r, NEW k \in Int, NEW t \in Int,
         \A i \in S : /\ f[i] \in Int /\ q[i] \in Int /\ r[i] \in Int
                      /\ k * f[i] = t * q[i] + r[i]
  PROVE  k * SumOver(f, S) = t * SumOver(q, S) + SumOver(r, S)
<1> DEFINE Good == {A \in SUBSET S : k * SumOver(f, A) = t * SumOver(q, A) + SumOver(r, A)}
<1>1. {} \in Good
  <2>1. SumOver(f, {}) = 0 /\ SumOver(q, {}) = 0 /\ SumOver(r, {}) = 0
    BY SumRecursion
  <2> QED
    BY <2>1
<1>2. ASSUME NEW A \in Good, NEW x \in S, A \subseteq S, x \notin A
      PROVE  A \cup {x} \in Good
  <2>1. IsFiniteSet(A) /\ k * SumOver(f, A) = t * SumOver(q, A) + SumOver(r, A)
    BY <1>2, FS_Subset
  <2>2. \A y \in A \cup {x} : f[y] \in Int /\ q[y] \in Int /\ r[y] \in Int
    BY <1>2
  <2>3. SumOver(f, A \cup {x}) = f[x] + SumOver(f, A) /\ SumOver(f, A) \in Int
    BY <1>2, <2>1, <2>2, SumAdds
  <2>4. SumOver(q, A \cup {x}) = q[x] + SumOver(q, A) /\ SumOver(q, A) \in Int
    BY <1>2, <2>1, <2>2, SumAdds
  <2>5. SumOver(r, A \cup {x}) = r[x] + SumOver(r, A) /\ SumOver(r, A) \in Int
    BY <1>2, <2>1, <2>2, SumAdds
  <2>6. PICK a \in Int, b \in Int, c \in Int :
          a = SumOver(f, A) /\ b = SumOver(q, A) /\ c = SumOver(r, A)
    BY <2>3, <2>4, <2>5
  <2>7. PICK a1 \in Int, b1 \in Int, c1 \in Int : a1 = f[x] /\ b1 = q[x] /\ c1 = r[x]
    OBVIOUS
  <2>8. k * a = t * b + c /\ k * a1 = t * b1 + c1
    BY <2>1, <2>6, <2>7
  <2>9. k * (a1 + a) = t * (b1 + b) + (c1 + c)
    BY <2>8
  <2> QED
    BY <1>2, <2>3, <2>4, <2>5, <2>6, <2>7, <2>9
<1> HIDE DEF Good
<1>3. S \in Good
  BY <1>1, <1>2, SetInduction
<1> QED
  BY <1>3 DEF Good

\* A sum lies between the bounds of its elements, as often as there are elements.
LEMMA SumBetween ==
  ASSUME NEW S, IsFiniteSet(S), NEW f, NEW low \in Int, NEW high \in Int,
         \A i \in S : f[i] \in Int /\ low <= f[i] /\ f[i] <= high
  PROVE  low * Cardinality(S) <= SumOver(f, S) /\ SumOver(f, S) <= high * Cardinality(S)
<1> DEFINE Good == {A \in SUBSET S : /\ low * Cardinality(A) <= SumOver(f, A)
                                     /\ SumOver(f, A) <= high * Cardinality(A)}
<1>1. {} \in Good
  <2>1. SumOver(f, {}) = 0 /\ Cardinality({}) = 0
    BY SumRecursion, FS_EmptySet
  <2> QED
    BY <2>1
<1>2. ASSUME NEW A \in Good, NEW x \in S, A \subseteq S, x \notin A
      PROVE  A \cup {x} \in Good
  <2>1. /\ IsFiniteSet(A) /\ low * Cardinality(A) <= SumOver(f, A)
        /\ SumOver(f, A) <= high * Cardinality(A) /\ Cardinality(A) \in Nat
    BY <1>2, FS_Subset, FS_CardinalityType
  <2>2. Cardinality(A \cup {x}) = Cardinality(A) + 1
    BY <1>2, <2>1, FS_AddElement
  <2>3. SumOver(f, A \cup {x}) = f[x] + SumOver(f, A) /\ SumOver(f, A) \in Int
    <3>1. \A y \in A \cup {x} : f[y] \in Int
      BY <1>2
    <3> QED
      BY <1>2, <2>1, <3>1, SumAdds
  <2>4. \A n, a, b \in Int :
          low * n <= a /\ a <= high * n /\ low <= b /\ b <= high
            => low * (n + 1) <= b + a /\ b + a <= high * (n + 1)
    OBVIOUS
  <2>5. /\ low * (Cardinality(A) + 1) <= f[x] + SumOver(f, A)
        /\ f[x] + SumOver(f, A) <= high * (Cardinality(A) + 1)
    BY <2>1, <2>3, <2>4
  <2> QED
    BY <1>2, <2>2, <2>3, <2>5
<1> HIDE DEF Good
<1>3. S \in Good
  BY <1>1, <1>2, SetInduction
<1> QED
  BY <1>3 DEF Good

\* One more for some of the elements adds their number.
LEMMA SumBonus ==
  ASSUME NEW S, IsFiniteSet(S), NEW p, NEW q, NEW F \in SUBSET S,
         \A i \in S : q[i] \in Int /\ p[i] = q[i] + (IF i \in F THEN 1 ELSE 0)
  PROVE  SumOver(p, S) = SumOver(q, S) + Cardinality(F)
<1> DEFINE Good == {A \in SUBSET S : SumOver(p, A) = SumOver(q, A) + Cardinality(F \cap A)}
<1>1. {} \in Good
  <2>1. SumOver(p, {}) = 0 /\ SumOver(q, {}) = 0 /\ Cardinality({}) = 0 /\ F \cap {} = {}
    BY SumRecursion, FS_EmptySet
  <2> QED
    BY <2>1
<1>2. ASSUME NEW A \in Good, NEW x \in S, A \subseteq S, x \notin A
      PROVE  A \cup {x} \in Good
  <2>1. IsFiniteSet(A) /\ SumOver(p, A) = SumOver(q, A) + Cardinality(F \cap A)
    BY <1>2, FS_Subset
  <2>2. \A y \in A \cup {x} : p[y] \in Int /\ q[y] \in Int
    BY <1>2
  <2>3. SumOver(p, A \cup {x}) = p[x] + SumOver(p, A) /\ SumOver(p, A) \in Int
    BY <1>2, <2>1, <2>2, SumAdds
  <2>4. SumOver(q, A \cup {x}) = q[x] + SumOver(q, A) /\ SumOver(q, A) \in Int
    BY <1>2, <2>1, <2>2, SumAdds
  <2>5. IsFiniteSet(F \cap A) /\ Cardinality(F \cap A) \in Nat
    BY <2>1, FS_Subset, FS_CardinalityType
  <2>6. Cardinality(F \cap (A \cup {x})) = Cardinality(F \cap A) + IF x \in F THEN 1 ELSE 0
    <3>1. CASE x \in F
      <4>1. F \cap (A \cup {x}) = (F \cap A) \cup {x} /\ x \notin F \cap A
        BY <1>2, <3>1
      <4>2. Cardinality((F \cap A) \cup {x}) = Cardinality(F \cap A) + 1
        BY <2>5, <4>1, FS_AddElement
      <4> QED
        BY <3>1, <4>1, <4>2
    <3>2. CASE x \notin F
      <4>1. F \cap (A \cup {x}) = F \cap A
        BY <3>2
      <4> QED
        BY <2>5, <3>2, <4>1
    <3> QED
      BY <3>1, <3>2
  <2>7. p[x] = q[x] + (IF x \in F THEN 1 ELSE 0) /\ q[x] \in Int
    OBVIOUS
  <2>8. SumOver(p, A \cup {x}) = SumOver(q, A \cup {x}) + Cardinality(F \cap (A \cup {x}))
    BY <2>1, <2>3, <2>4, <2>5, <2>6, <2>7
  <2> QED
    BY <1>2, <2>8
<1> HIDE DEF Good
<1>3. S \in Good
  BY <1>1, <1>2, SetInduction
<1>4. F \cap S = F
  OBVIOUS
<1> QED
  BY <1>3, <1>4 DEF Good

\* The larger elements have the larger sum.
LEMMA SumMonotone ==
  ASSUME NEW S, IsFiniteSet(S), NEW f, NEW g,
         \A i \in S : f[i] \in Int /\ g[i] \in Int /\ f[i] <= g[i]
  PROVE  /\ SumOver(f, S) \in Int /\ SumOver(g, S) \in Int
         /\ SumOver(f, S) <= SumOver(g, S)
<1> DEFINE Good == {A \in SUBSET S : SumOver(f, A) <= SumOver(g, A)}
<1>1. {} \in Good
  <2>1. SumOver(f, {}) = 0 /\ SumOver(g, {}) = 0
    BY SumRecursion
  <2> QED
    BY <2>1
<1>2. ASSUME NEW A \in Good, NEW x \in S, A \subseteq S, x \notin A
      PROVE  A \cup {x} \in Good
  <2>1. IsFiniteSet(A) /\ SumOver(f, A) <= SumOver(g, A)
    BY <1>2, FS_Subset
  <2>2. \A y \in A \cup {x} : f[y] \in Int /\ g[y] \in Int
    BY <1>2
  <2>3. SumOver(f, A \cup {x}) = f[x] + SumOver(f, A) /\ SumOver(f, A) \in Int
    BY <1>2, <2>1, <2>2, SumAdds
  <2>4. SumOver(g, A \cup {x}) = g[x] + SumOver(g, A) /\ SumOver(g, A) \in Int
    BY <1>2, <2>1, <2>2, SumAdds
  <2>5. SumOver(f, A \cup {x}) <= SumOver(g, A \cup {x})
    BY <2>1, <2>2, <2>3, <2>4
  <2> QED
    BY <1>2, <2>5
<1> HIDE DEF Good
<1>3. S \in Good
  BY <1>1, <1>2, SetInduction
<1>4. SumOver(f, S) \in Int /\ SumOver(g, S) \in Int
  BY SumSplits
<1> QED
  BY <1>3, <1>4 DEF Good

\* One strictly larger element makes a strictly larger sum.
LEMMA SumStrict ==
  ASSUME NEW S, IsFiniteSet(S), NEW f, NEW g, NEW x \in S,
         \A i \in S : f[i] \in Int /\ g[i] \in Int /\ f[i] <= g[i],
         f[x] < g[x]
  PROVE  /\ SumOver(f, S) \in Int /\ SumOver(g, S) \in Int
         /\ SumOver(f, S) < SumOver(g, S)
<1>1. SumOver(f, S) = f[x] + SumOver(f, S \ {x}) /\ SumOver(f, S) \in Int
  BY SumSplits
<1>2. SumOver(g, S) = g[x] + SumOver(g, S \ {x}) /\ SumOver(g, S) \in Int
  BY SumSplits
<1>3. IsFiniteSet(S \ {x})
  BY FS_Subset
<1>4. /\ SumOver(f, S \ {x}) \in Int /\ SumOver(g, S \ {x}) \in Int
      /\ SumOver(f, S \ {x}) <= SumOver(g, S \ {x})
  BY <1>3, SumMonotone
<1> QED
  BY <1>1, <1>2, <1>4

-----------------------------------------------------------------------------
(* Ranks. *)

\* How many elements of S the order R, a set of pairs, puts before x; the first
\* n elements.
Before(S, R, x) == Cardinality({y \in S : <<y, x>> \in R})
FirstOnes(S, R, n) == {x \in S : Before(S, R, x) < n}

\* A strict total order of S.
Orders(R, S) ==
  /\ \A x \in S : <<x, x>> \notin R
  /\ \A x, y \in S : x # y => (<<x, y>> \in R \/ <<y, x>> \in R)
  /\ \A x, y, z \in S : <<x, y>> \in R /\ <<y, z>> \in R => <<x, z>> \in R

\* A finite set that is not empty has a last element.
LEMMA LastExists ==
  ASSUME NEW S, IsFiniteSet(S), S # {}, NEW R, Orders(R, S)
  PROVE  \E m \in S : \A y \in S : y # m => <<y, m>> \in R
<1> DEFINE Good == {A \in SUBSET S : A # {} => \E m \in A : \A y \in A : y # m => <<y, m>> \in R}
<1>1. {} \in Good
  OBVIOUS
<1>2. ASSUME NEW A \in Good, NEW x \in S, A \subseteq S, x \notin A
      PROVE  A \cup {x} \in Good
  <2>1. CASE A = {}
    BY <2>1
  <2>2. CASE A # {}
    <3>1. PICK m \in A : \A y \in A : y # m => <<y, m>> \in R
      BY <2>2
    <3>2. CASE <<m, x>> \in R
      <4>1. \A y \in A : <<y, x>> \in R
        BY <1>2, <3>1, <3>2 DEF Orders
      <4> QED
        BY <4>1
    <3>3. CASE <<x, m>> \in R
      BY <3>1, <3>3
    <3> QED
      BY <1>2, <3>1, <3>2, <3>3 DEF Orders
  <2> QED
    BY <2>1, <2>2
<1> HIDE DEF Good
<1>3. S \in Good
  BY <1>1, <1>2, SetInduction
<1> QED
  BY <1>3 DEF Good

\* There are n first n elements.
LEMMA FirstOnesCounted ==
  ASSUME NEW S, IsFiniteSet(S), NEW R, Orders(R, S), NEW n \in 0..Cardinality(S)
  PROVE  Cardinality(FirstOnes(S, R, n)) = n
<1> DEFINE Fine(A) == \A k \in 0..Cardinality(A) : Cardinality(FirstOnes(A, R, k)) = k
           Good == {A \in SUBSET S : Fine(A)}
<1>1. ASSUME NEW A \in SUBSET S, \A B \in SUBSET A : B # A => B \in Good
      PROVE  A \in Good
  <2>1. IsFiniteSet(A) /\ Orders(R, A) /\ Cardinality(A) \in Nat
    BY FS_Subset, FS_CardinalityType DEF Orders
  <2>2. ASSUME NEW x \in A
        PROVE  Before(A, R, x) \in Nat /\ Before(A, R, x) <= Cardinality(A) - 1
    <3>1. /\ {y \in A : <<y, x>> \in R} \subseteq A \ {x}
          /\ Cardinality(A \ {x}) = Cardinality(A) - 1 /\ IsFiniteSet(A \ {x})
      BY <2>1, FS_RemoveElement DEF Orders
    <3> HIDE DEF Good
    <3>2. /\ Cardinality({y \in A : <<y, x>> \in R}) <= Cardinality(A \ {x})
          /\ IsFiniteSet({y \in A : <<y, x>> \in R})
      BY <3>1, FS_Subset
    <3>3. Cardinality({y \in A : <<y, x>> \in R}) \in Nat
      BY <3>2, FS_CardinalityType
    <3> QED
      BY <3>1, <3>2, <3>3 DEF Before
  <2>3. FirstOnes(A, R, Cardinality(A)) = A
    BY <2>1, <2>2 DEF FirstOnes
  <2>4. CASE A = {}
    <3>1. Cardinality(A) = 0
      BY <2>4, FS_EmptySet
    <3>2. Fine(A)
      BY <2>3, <3>1
    <3> HIDE DEF Fine
    <3> QED
      BY <3>2
  <2>5. CASE A # {}
    <3>1. PICK m \in A : \A y \in A : y # m => <<y, m>> \in R
      BY <2>1, <2>5, LastExists
    <3> DEFINE B == A \ {m}
    <3>2. IsFiniteSet(B) /\ Cardinality(B) = Cardinality(A) - 1 /\ Cardinality(B) \in Nat
      BY <2>1, FS_RemoveElement, FS_CardinalityType
    <3>3. Fine(B)
      <4>1. B \in SUBSET A /\ B # A
        OBVIOUS
      <4> HIDE DEF B, Fine
      <4> QED
        BY <1>1, <4>1
    <3>4. Before(A, R, m) = Cardinality(B)
      <4>1. {y \in A : <<y, m>> \in R} = B
        BY <2>1, <3>1 DEF Orders
      <4> QED
        BY <4>1 DEF Before
    <3>5. ASSUME NEW x \in B PROVE Before(A, R, x) = Before(B, R, x)
      <4>1. <<m, x>> \notin R
        BY <2>1, <3>1 DEF Orders
      <4>2. {y \in A : <<y, x>> \in R} = {y \in B : <<y, x>> \in R}
        BY <4>1
      <4> QED
        BY <4>2 DEF Before
    <3>6. ASSUME NEW k \in 0..Cardinality(A), k # Cardinality(A)
          PROVE  Cardinality(FirstOnes(A, R, k)) = k
      <4>1. k \in 0..Cardinality(B)
        BY <2>1, <3>2, <3>6
      <4>2. m \notin FirstOnes(A, R, k)
        BY <3>2, <3>4, <4>1 DEF FirstOnes
      <4>3. FirstOnes(A, R, k) = FirstOnes(B, R, k)
        BY <3>5, <4>2 DEF FirstOnes
      <4> QED
        BY <3>3, <4>1, <4>3
    <3>7. Fine(A)
      BY <2>3, <3>6
    <3> HIDE DEF Fine
    <3> QED
      BY <3>7
  <2> QED
    BY <2>4, <2>5
<1> HIDE DEF Good
<1>2. S \in Good
  BY <1>1, SubsetInduction
<1> QED
  BY <1>2 DEF Good

\* Whoever comes before another has fewer before them.
LEMMA BeforeGrows ==
  ASSUME NEW S, IsFiniteSet(S), NEW R, Orders(R, S), NEW x \in S, NEW y \in S, <<x, y>> \in R
  PROVE  Before(S, R, x) \in Nat /\ Before(S, R, y) \in Nat /\ Before(S, R, x) < Before(S, R, y)
<1> DEFINE A == {z \in S : <<z, x>> \in R}
           B == {z \in S : <<z, y>> \in R}
<1>1. A \subseteq B /\ B \subseteq S /\ x \in B /\ x \notin A
  BY DEF Orders
<1>2. Before(S, R, x) = Cardinality(A) /\ Before(S, R, y) = Cardinality(B)
  BY DEF Before
<1> HIDE DEF A, B
<1>3. IsFiniteSet(A) /\ IsFiniteSet(B) /\ Cardinality(A) <= Cardinality(B)
  BY <1>1, FS_Subset
<1>4. Cardinality(A) # Cardinality(B)
  BY <1>1, <1>3, FS_Subset
<1>5. Cardinality(A) \in Nat /\ Cardinality(B) \in Nat
  BY <1>3, FS_CardinalityType
<1> QED
  BY <1>2, <1>3, <1>4, <1>5

-----------------------------------------------------------------------------
(* The points of the skills of a version.                                   *)

\* What _allocate_skill_points computes on its way: units, cents by division,
\* remainders, the cents that are left and who gets one of them.
Weights(u) == [i \in DOMAIN u |-> Units(u[i])]
Total(u) == SumOver(Weights(u), DOMAIN u)
Cents(u) == [i \in DOMAIN u |-> (FULL_SCORE_CENTS * Units(u[i])) \div Total(u)]
Rest(u) == [i \in DOMAIN u |-> (FULL_SCORE_CENTS * Units(u[i])) % Total(u)]
Left(u) == FULL_SCORE_CENTS - SumOver(Cents(u), DOMAIN u)
RestKey(u, i) == <<0 - Rest(u)[i], i>>
ByRest(u) == {pair \in (DOMAIN u) \X (DOMAIN u) :
                Precedes(RestKey(u, pair[1]), RestKey(u, pair[2]))}
Favoured(u) == FirstOnes(DOMAIN u, ByRest(u), Left(u))

Rows(u) == /\ DOMAIN u \in SUBSET Nat /\ IsFiniteSet(DOMAIN u) /\ DOMAIN u # {}
           /\ \A i \in DOMAIN u : u[i].must \in BOOLEAN

\* Sum adds up all of a function.
LEMMA SumIsOver == \A f : Sum(f) = SumOver(f, DOMAIN f)
BY DEF Sum, FoldFunction, SumOver

\* Pairs of numbers, compared.
LEMMA PairPrecedes ==
  ASSUME NEW a \in Int, NEW b \in Int, NEW c \in Int, NEW d \in Int
  PROVE  Precedes(<<a, b>>, <<c, d>>) <=> a < c \/ (a = c /\ b < d)
<1> DEFINE s == <<a, b>>
           t == <<c, d>>
<1>1. DOMAIN s = {1, 2} /\ s[1] = a /\ s[2] = b /\ t[1] = c /\ t[2] = d
  OBVIOUS
<1> HIDE DEF s, t
<1>2. ASSUME Precedes(s, t) PROVE a < c \/ (a = c /\ b < d)
  <2>1. PICK i \in {1, 2} : (\A j \in 1..(i - 1) : s[j] = t[j]) /\ s[i] < t[i]
    BY <1>1, <1>2 DEF Precedes
  <2>2. CASE i = 1
    BY <1>1, <2>1, <2>2
  <2>3. CASE i = 2
    <3>1. s[1] = t[1] /\ s[2] < t[2]
      BY <2>1, <2>3
    <3> QED
      BY <1>1, <3>1
  <2> QED
    BY <2>2, <2>3
<1>3. ASSUME a < c PROVE Precedes(s, t)
  BY <1>1, <1>3 DEF Precedes
<1>4. ASSUME a = c, b < d PROVE Precedes(s, t)
  <2>1. \A j \in 1..(2 - 1) : s[j] = t[j]
    BY <1>1, <1>4
  <2>2. 2 \in DOMAIN s /\ s[2] < t[2]
    BY <1>1, <1>4
  <2> QED
    BY <2>1, <2>2 DEF Precedes
<1> QED
  BY <1>2, <1>3, <1>4 DEF s, t

\* Division with remainder.
LEMMA Division ==
  ASSUME NEW a \in Nat, NEW b \in Nat \ {0}
  PROVE  /\ a \div b \in Nat /\ a % b \in Nat
         /\ a = b * (a \div b) + (a % b) /\ a % b < b
<1>1. a % b \in Nat /\ a % b < b
  OBVIOUS
<1>2. a \div b \in Int
  OBVIOUS
<1>3. a = b * (a \div b) + (a % b)
  OBVIOUS
<1>4. a \div b \in Nat
  OBVIOUS
<1> QED
  BY <1>1, <1>3, <1>4

\* There are between as many and twice as many units as skills.
LEMMA TotalBounded ==
  ASSUME NEW u, Rows(u)
  PROVE  /\ Total(u) \in Nat \ {0}
         /\ Cardinality(DOMAIN u) \in Nat \ {0}
         /\ Cardinality(DOMAIN u) <= Total(u) /\ Total(u) <= 2 * Cardinality(DOMAIN u)
<1>1. Cardinality(DOMAIN u) \in Nat \ {0}
  BY FS_CardinalityType, FS_EmptySet DEF Rows
<1>2. \A i \in DOMAIN u : Weights(u)[i] \in Int /\ 1 <= Weights(u)[i] /\ Weights(u)[i] <= 2
  BY DEF Weights, Units, MUST_HAVE_UNITS, NICE_TO_HAVE_UNITS
<1>3. Total(u) \in Int
  BY <1>2, SumSplits DEF Total, Rows
<1>4. 1 * Cardinality(DOMAIN u) <= Total(u) /\ Total(u) <= 2 * Cardinality(DOMAIN u)
  BY <1>2, SumBetween DEF Total, Rows
<1> QED
  BY <1>1, <1>3, <1>4

\* What a skill gets by division, and what remains.
LEMMA CentsDivide ==
  ASSUME NEW u, Rows(u), NEW i \in DOMAIN u
  PROVE  /\ Weights(u)[i] = (IF u[i].must THEN 2 ELSE 1)
         /\ Cents(u)[i] \in Nat /\ Rest(u)[i] \in Nat /\ Rest(u)[i] < Total(u)
         /\ FULL_SCORE_CENTS * Weights(u)[i] = Total(u) * Cents(u)[i] + Rest(u)[i]
<1>1. Weights(u)[i] = (IF u[i].must THEN 2 ELSE 1) /\ Weights(u)[i] = Units(u[i])
  BY DEF Weights, Units, MUST_HAVE_UNITS, NICE_TO_HAVE_UNITS
<1>2. FULL_SCORE_CENTS * Units(u[i]) \in Nat
  BY <1>1 DEF FULL_SCORE_CENTS
<1>3. Total(u) \in Nat \ {0}
  BY TotalBounded
<1>4. /\ Cents(u)[i] = (FULL_SCORE_CENTS * Units(u[i])) \div Total(u)
      /\ Rest(u)[i] = (FULL_SCORE_CENTS * Units(u[i])) % Total(u)
  BY DEF Cents, Rest
<1> QED
  BY <1>1, <1>2, <1>3, <1>4, Division

\* Fewer cents are left than there are skills.
LEMMA LeftBounded ==
  ASSUME NEW u, Rows(u)
  PROVE  /\ Left(u) \in 0..Cardinality(DOMAIN u)
         /\ (\A i \in DOMAIN u : Rest(u)[i] = 0) => Left(u) = 0
<1> DEFINE D == DOMAIN u
<1>1. PICK t \in Nat \ {0}, n \in Nat \ {0} : t = Total(u) /\ n = Cardinality(D) /\ n <= t
  BY TotalBounded
<1>2. \A i \in D : Weights(u)[i] \in Int /\ Cents(u)[i] \in Int /\ Rest(u)[i] \in Int
  BY CentsDivide
<1>3. IsFiniteSet(D) /\ FULL_SCORE_CENTS \in Int
  BY DEF Rows, FULL_SCORE_CENTS
<1>4. FULL_SCORE_CENTS * SumOver(Weights(u), D)
        = t * SumOver(Cents(u), D) + SumOver(Rest(u), D)
  BY <1>1, <1>2, <1>3, CentsDivide, SumDivided
<1>5. PICK cents \in Int, rest \in Int : cents = SumOver(Cents(u), D) /\ rest = SumOver(Rest(u), D)
  BY <1>2, <1>3, SumSplits
<1>6. t * (FULL_SCORE_CENTS - cents) = rest
  <2>1. FULL_SCORE_CENTS * t = t * cents + rest
    BY <1>1, <1>4, <1>5 DEF Total
  <2> QED
    BY <2>1 DEF FULL_SCORE_CENTS
<1>7. 0 * n <= rest /\ rest <= (t - 1) * n
  <2>1. PICK most \in Int : most = t - 1
    BY <1>1
  <2>2. \A i \in D : Rest(u)[i] \in Int /\ 0 <= Rest(u)[i] /\ Rest(u)[i] <= most
    BY <1>1, <2>1, CentsDivide
  <2>3. 0 * Cardinality(D) <= SumOver(Rest(u), D) /\ SumOver(Rest(u), D) <= most * Cardinality(D)
    BY <1>3, <2>2, SumBetween
  <2> QED
    BY <1>1, <1>5, <2>1, <2>3
<1>8. PICK left \in Int : left = FULL_SCORE_CENTS - cents /\ left = Left(u)
  BY <1>3, <1>5 DEF Left
<1>9. t * left = rest
  BY <1>6, <1>8
<1>10. 0 <= left
  BY <1>7, <1>9
<1>11. left <= n
  <2>1. t * left <= t * n - n
    BY <1>7, <1>9
  <2> QED
    BY <2>1
<1>12. ASSUME \A i \in D : Rest(u)[i] = 0
       PROVE  left = 0
  <2>1. rest <= 0 * n
    BY <1>1, <1>3, <1>5, <1>12, SumBetween
  <2> QED
    BY <1>7, <1>9, <2>1
<1> QED
  BY <1>1, <1>8, <1>10, <1>11, <1>12

\* The remainders, and the positions among equals, order the skills.
LEMMA RestOrders ==
  ASSUME NEW u, Rows(u)
  PROVE  /\ Orders(ByRest(u), DOMAIN u)
         /\ \A i, j \in DOMAIN u :
              <<i, j>> \in ByRest(u) <=> \/ Rest(u)[j] < Rest(u)[i]
                                         \/ Rest(u)[j] = Rest(u)[i] /\ i < j
<1>1. \A i \in DOMAIN u : Rest(u)[i] \in Nat /\ i \in Nat
  BY CentsDivide DEF Rows
<1>2. ASSUME NEW i \in DOMAIN u, NEW j \in DOMAIN u
      PROVE  <<i, j>> \in ByRest(u) <=> \/ Rest(u)[j] < Rest(u)[i]
                                        \/ Rest(u)[j] = Rest(u)[i] /\ i < j
  <2>1. PICK a \in Nat, b \in Nat : a = Rest(u)[i] /\ b = Rest(u)[j]
    BY <1>1
  <2>2. <<i, j>> \in ByRest(u) <=> Precedes(<<0 - a, i>>, <<0 - b, j>>)
    BY <2>1 DEF ByRest, RestKey
  <2>3. Precedes(<<0 - a, i>>, <<0 - b, j>>) <=> 0 - a < 0 - b \/ (0 - a = 0 - b /\ i < j)
    BY <1>1, PairPrecedes
  <2> QED
    BY <1>1, <2>1, <2>2, <2>3
<1>3. Orders(ByRest(u), DOMAIN u)
  BY <1>1, <1>2 DEF Orders
<1> QED
  BY <1>2, <1>3

\* Points, in these terms.
LEMMA PointsAre ==
  ASSUME NEW u, Rows(u)
  PROVE  /\ DOMAIN Points(u) = DOMAIN u
         /\ \A i \in DOMAIN u :
              Points(u)[i] = Cents(u)[i] + (IF i \in Favoured(u) THEN 1 ELSE 0)
<1> DEFINE total == Sum([i \in DOMAIN u |-> Units(u[i])])
           cents == [i \in DOMAIN u |-> (FULL_SCORE_CENTS * Units(u[i])) \div total]
           key   == [i \in DOMAIN u |-> <<0 - ((FULL_SCORE_CENTS * Units(u[i])) % total), i>>]
           left  == FULL_SCORE_CENTS - Sum(cents)
           ahead(i) == Cardinality({j \in DOMAIN u : Precedes(key[j], key[i])})
<1>1. Points(u) = [i \in DOMAIN u |-> IF ahead(i) < left THEN cents[i] + 1 ELSE cents[i]]
  BY DEF Points
<1>2. total = Total(u)
  BY SumIsOver DEF Total, Weights
<1> HIDE DEF total
<1>3. cents = Cents(u)
  BY <1>2 DEF Cents
<1>4. DOMAIN Cents(u) = DOMAIN u
  BY DEF Cents
<1> HIDE DEF cents
<1>5. left = Left(u)
  BY <1>3, <1>4, SumIsOver DEF Left
<1>6. \A i \in DOMAIN u : key[i] = RestKey(u, i)
  BY <1>2 DEF RestKey, Rest
<1> HIDE DEF key, left
<1>7. ASSUME NEW i \in DOMAIN u PROVE ahead(i) = Before(DOMAIN u, ByRest(u), i)
  <2>1. {j \in DOMAIN u : Precedes(key[j], key[i])} = {j \in DOMAIN u : <<j, i>> \in ByRest(u)}
    BY <1>6 DEF ByRest
  <2> QED
    BY <2>1 DEF Before
<1> HIDE DEF ahead
<1>8. ASSUME NEW i \in DOMAIN u
      PROVE  Points(u)[i] = Cents(u)[i] + (IF i \in Favoured(u) THEN 1 ELSE 0)
  <2>1. i \in Favoured(u) <=> ahead(i) < left
    BY <1>5, <1>7 DEF Favoured, FirstOnes
  <2>2. Points(u)[i] = IF ahead(i) < left THEN cents[i] + 1 ELSE cents[i]
    BY <1>1
  <2>3. Cents(u)[i] \in Nat
    BY CentsDivide
  <2> QED
    BY <1>3, <2>1, <2>2, <2>3
<1> QED
  BY <1>1, <1>8

SkillRows == Seq([name : Name, must : BOOLEAN])

\* The rows that unique_requirement_skills keeps: every canonical skill of the
\* version has one, and only one.
LEMMA UniqueRows ==
  ASSUME NEW s \in SkillRows, NEW u, u = Unique(s)
  PROVE  /\ DOMAIN u \in SUBSET (1..Len(s)) /\ Len(s) \in Nat
         /\ IsFiniteSet(DOMAIN u) /\ Cardinality(DOMAIN u) <= Len(s)
         /\ \A i \in DOMAIN u : u[i].must \in BOOLEAN
         /\ \A i \in DOMAIN u : u[i].key = Canonical[s[i].name]
         /\ \A i, j \in DOMAIN u : i # j => u[i].key # u[j].key
         /\ \A h \in DOMAIN s : \E i \in DOMAIN u : u[i].key = Canonical[s[h].name]
<1> DEFINE Key(i) == Canonical[s[i].name]
           D == {j \in DOMAIN s : \A h \in 1..(j - 1) : Key(h) # Key(j)}
<1>1. /\ s \in Seq([name : Name, must : BOOLEAN])
      /\ DOMAIN s = 1..Len(s) /\ Len(s) \in Nat
  BY DEF SkillRows
<1>2. \A i \in DOMAIN s : s[i].must \in BOOLEAN
  <2>1. \A i \in DOMAIN s : s[i] \in [name : Name, must : BOOLEAN]
    BY <1>1, ElementOfSeq
  <2> QED
    BY <2>1
<1>3. u = [i \in D |-> [key |-> Key(i), must |-> s[i].must]]
  BY DEF Unique
<1>4. D \in SUBSET (1..Len(s))
  BY <1>1
<1>5. /\ DOMAIN u = D
      /\ \A i \in D : u[i].key = Key(i) /\ u[i].must = s[i].must
  <2> HIDE DEF D, Key
  <2> QED
    BY <1>3
<1>6. IsFiniteSet(D) /\ Cardinality(D) <= Len(s)
  <2>1. PICK n \in Nat : n = Len(s)
    BY <1>1
  <2>2. IsFiniteSet(1..n) /\ Cardinality(1..n) = n
    BY FS_Interval
  <2> HIDE DEF D
  <2> QED
    BY <1>4, <2>1, <2>2, FS_Subset
<1>7. ASSUME NEW i \in D, NEW j \in D, i # j PROVE Key(i) # Key(j)
  <2>1. i \in 1..Len(s) /\ j \in 1..Len(s)
    BY <1>4
  <2>2. CASE i < j
    <3>1. i \in 1..(j - 1)
      BY <1>1, <2>1, <2>2
    <3> QED
      BY <3>1
  <2>3. CASE j < i
    <3>1. j \in 1..(i - 1)
      BY <1>1, <2>1, <2>3
    <3> QED
      BY <3>1
  <2> QED
    BY <1>1, <1>7, <2>1, <2>2, <2>3
<1>8. ASSUME NEW h \in DOMAIN s PROVE \E i \in D : Key(i) = Key(h)
  <2> DEFINE T == {i \in DOMAIN s : Key(i) = Key(h)}
  <2>1. 0 \in Int /\ T \in SUBSET Int /\ h \in T /\ \A i \in T : 0 <= i
    BY <1>1
  <2> HIDE DEF T
  <2>2. PICK i \in T : \A j \in T : i <= j
    BY <2>1, LeastExists
  <2>3. i \in 1..Len(s) /\ Key(i) = Key(h) /\ \A j \in DOMAIN s : Key(j) = Key(h) => i <= j
    BY <1>1, <2>2 DEF T
  <2>4. ASSUME NEW j \in 1..(i - 1) PROVE Key(j) # Key(i)
    <3>1. j \in DOMAIN s /\ ~(i <= j)
      BY <1>1, <2>3
    <3> QED
      BY <2>3, <3>1
  <2>5. i \in D
    BY <1>1, <2>3, <2>4
  <2> QED
    BY <2>3, <2>5
<1> HIDE DEF D, Key
<1>9. /\ \A i \in D : u[i].must \in BOOLEAN
      /\ \A i, j \in D : i # j => u[i].key # u[j].key
      /\ \A h \in DOMAIN s : \E i \in D : u[i].key = Key(h)
  <2>1. D \subseteq DOMAIN s
    BY <1>1, <1>4
  <2> QED
    BY <1>2, <1>5, <1>7, <1>8, <2>1
<1> QED
  BY <1>1, <1>4, <1>5, <1>6, <1>9 DEF Key

\* A version of at most half as many skills as there are cents.  The services
\* bound what the AI service suggests (vacancies/ai_extraction.py), not what is
\* entered by hand.
Affordable == \A v \in Version : 2 * Len(v.skills) <= FULL_SCORE_CENTS

\* The skills of a version of which some are wanted.
LEMMA VersionRows ==
  ASSUME NEW v \in Version, NEW u, u = Unique(v.skills), DOMAIN u # {}
  PROVE  Rows(u) /\ (Affordable => Total(u) <= FULL_SCORE_CENTS)
<1> DEFINE s == v.skills
<1>0. s \in SkillRows /\ u = Unique(s)
  BY RankingAssumption DEF SkillRows
<1> HIDE DEF s
<1>1. Rows(u)
  <2>1. DOMAIN u \in SUBSET (1..Len(s)) /\ Len(s) \in Nat
    BY <1>0, UniqueRows
  <2>2. DOMAIN u \in SUBSET Nat
    BY <2>1
  <2> QED
    BY <1>0, <2>2, UniqueRows DEF Rows
<1>2. /\ Total(u) \in Nat /\ Cardinality(DOMAIN u) \in Nat /\ Len(s) \in Nat
      /\ Total(u) <= 2 * Cardinality(DOMAIN u) /\ Cardinality(DOMAIN u) <= Len(s)
  BY <1>0, <1>1, TotalBounded, UniqueRows
<1> QED
  BY <1>1, <1>2 DEF s, Affordable, FULL_SCORE_CENTS

\* All 100 points are handed out, and nobody gets more than a cent more than
\* another skill of the same importance.
LEMMA PointsSum ==
  ASSUME NEW u, Rows(u)
  PROVE  /\ Sum(Points(u)) = FULL_SCORE_CENTS
         /\ \A i, j \in DOMAIN u :
              u[i].must = u[j].must => Points(u)[i] - Points(u)[j] \in {-1, 0, 1}
<1> DEFINE D == DOMAIN u
<1>1. \A i \in D : Cents(u)[i] \in Nat
  BY CentsDivide
<1>2. IsFiniteSet(D) /\ Favoured(u) \in SUBSET D
  BY DEF Rows, Favoured, FirstOnes
<1>3. Cardinality(Favoured(u)) = Left(u) /\ Left(u) \in Nat
  BY <1>2, LeftBounded, RestOrders, FirstOnesCounted, FS_CardinalityType DEF Favoured
<1>4. Sum(Points(u)) = SumOver(Points(u), D)
  BY PointsAre, SumIsOver
<1>5. SumOver(Points(u), D) = SumOver(Cents(u), D) + Left(u) /\ SumOver(Cents(u), D) \in Int
  BY <1>1, <1>2, <1>3, PointsAre, SumBonus, SumSplits
<1>6. Sum(Points(u)) = FULL_SCORE_CENTS
  BY <1>4, <1>5 DEF Left, FULL_SCORE_CENTS
<1>7. ASSUME NEW i \in D, NEW j \in D, u[i].must = u[j].must
      PROVE  Points(u)[i] - Points(u)[j] \in {-1, 0, 1}
  <2>1. Cents(u)[i] = Cents(u)[j]
    BY <1>7 DEF Cents, Units
  <2> QED
    BY <1>1, <2>1, PointsAre
<1> QED
  BY <1>6, <1>7

\* Every skill gets a cent, and a must-have more than a nice-to-have: by
\* division when there are two cents for each unit, else because its remainder
\* is larger and so it comes first where a nice-to-have gets one more.
LEMMA PointsRank ==
  ASSUME NEW u, Rows(u), Total(u) <= FULL_SCORE_CENTS, NEW i \in DOMAIN u
  PROVE  /\ Points(u)[i] \in Nat /\ Points(u)[i] > 0
         /\ \A j \in DOMAIN u : u[i].must /\ ~u[j].must => Points(u)[i] > Points(u)[j]
<1>1. PICK t \in Nat \ {0} : t = Total(u) /\ t <= 10000
  BY TotalBounded DEF FULL_SCORE_CENTS
<1>2. ASSUME NEW j \in DOMAIN u
      PROVE  /\ Points(u)[j] \in Nat /\ Points(u)[j] > 0
             /\ Cents(u)[j] \in Nat \ {0}
             /\ Points(u)[j] \in {Cents(u)[j], Cents(u)[j] + 1}
  <2>1. PICK q \in Nat, r \in Nat : q = Cents(u)[j] /\ r = Rest(u)[j]
    BY CentsDivide
  <2>2. r < t /\ t * q + r >= 10000
    BY <1>1, <2>1, CentsDivide DEF FULL_SCORE_CENTS
  <2>3. q # 0
    BY <1>1, <2>2
  <2>4. Points(u)[j] \in {q, q + 1}
    BY <2>1, PointsAre
  <2> QED
    BY <2>1, <2>3, <2>4
<1>3. ASSUME NEW j \in DOMAIN u, u[i].must, ~u[j].must
      PROVE  Points(u)[i] > Points(u)[j]
  <2>1. PICK q \in Nat \ {0}, r \in Nat : q = Cents(u)[j] /\ r = Rest(u)[j]
    BY <1>2, CentsDivide
  <2>2. PICK q2 \in Nat \ {0}, r2 \in Nat : q2 = Cents(u)[i] /\ r2 = Rest(u)[i]
    BY <1>2, CentsDivide
  <2>3. r < t /\ 10000 = t * q + r
    BY <1>1, <1>3, <2>1, CentsDivide DEF FULL_SCORE_CENTS
  <2>4. r2 < t /\ 20000 = t * q2 + r2
    BY <1>1, <1>3, <2>2, CentsDivide DEF FULL_SCORE_CENTS
  <2>5. (q2 = 2 * q /\ r2 = 2 * r) \/ q2 > 2 * q
    <3>1. t * (q2 - 2 * q) = 2 * r - r2
      BY <2>3, <2>4
    <3>2. PICK k \in Int : k = q2 - 2 * q
      OBVIOUS
    <3>3. t * k = 2 * r - r2
      BY <3>1, <3>2
    <3>4. k > -1
      BY <1>1, <2>4, <3>3
    <3>5. CASE k = 0
      BY <3>2, <3>3, <3>5
    <3>6. CASE k > 0
      BY <3>2, <3>6
    <3> QED
      BY <3>4, <3>5, <3>6
  <2>6. Points(u)[i] \in {q2, q2 + 1} /\ Points(u)[j] \in {q, q + 1}
    BY <1>2, <2>1, <2>2
  <2>7. CASE q2 > q + 1
    BY <2>6, <2>7
  <2>8. CASE ~(q2 > q + 1)
    <3>1. q = 1 /\ q2 = 2 /\ r2 = 2 * r
      BY <2>5, <2>8
    <3>2. CASE j \notin Favoured(u)
      <4>1. Points(u)[j] = q
        BY <2>1, <3>2, PointsAre
      <4> QED
        BY <2>6, <3>1, <4>1
    <3>3. CASE j \in Favoured(u)
      <4>1. r # 0
        <5> SUFFICES ASSUME r = 0 PROVE FALSE
          OBVIOUS
        <5>1. t = 10000
          BY <2>3, <3>1
        <5>2. ASSUME NEW k \in DOMAIN u PROVE Rest(u)[k] = 0
          <6>1. PICK a \in Nat, b \in Nat : a = Cents(u)[k] /\ b = Rest(u)[k]
            BY CentsDivide
          <6>2. Rest(u)[k] < Total(u)
            BY CentsDivide
          <6>3. FULL_SCORE_CENTS * Weights(u)[k] = Total(u) * Cents(u)[k] + Rest(u)[k]
            BY CentsDivide
          <6>4. Weights(u)[k] = 1 \/ Weights(u)[k] = 2
            BY CentsDivide
          <6>5. Total(u) = 10000
            BY <1>1, <5>1
          <6>6. PICK w \in {1, 2} : w = Weights(u)[k]
            BY <6>4
          <6>7. b < 10000 /\ 10000 * w = 10000 * a + b
            BY <6>1, <6>2, <6>3, <6>5, <6>6 DEF FULL_SCORE_CENTS
          <6>8. b = 0
            BY <6>7
          <6> QED
            BY <6>1, <6>8
        <5>3. Left(u) = 0
          BY <5>2, LeftBounded
        <5>4. /\ IsFiniteSet({k \in DOMAIN u : <<k, j>> \in ByRest(u)})
              /\ Before(DOMAIN u, ByRest(u), j) < 0
          BY <3>3, <5>3, FS_Subset DEF Favoured, FirstOnes, Rows
        <5> QED
          BY <5>4, FS_CardinalityType DEF Before
      <4>2. <<i, j>> \in ByRest(u) /\ Orders(ByRest(u), DOMAIN u)
        <5>1. Rest(u)[j] < Rest(u)[i]
          BY <2>1, <2>2, <3>1, <4>1
        <5> QED
          BY <5>1, RestOrders
      <4>3. i \in Favoured(u)
        <5>1. IsFiniteSet(DOMAIN u) /\ Before(DOMAIN u, ByRest(u), j) < Left(u)
          BY <3>3 DEF Rows, Favoured, FirstOnes
        <5>2. /\ Before(DOMAIN u, ByRest(u), i) \in Nat /\ Before(DOMAIN u, ByRest(u), j) \in Nat
              /\ Before(DOMAIN u, ByRest(u), i) < Before(DOMAIN u, ByRest(u), j)
          BY <4>2, <5>1, BeforeGrows
        <5>3. Left(u) \in Int
          BY LeftBounded
        <5> QED
          BY <5>1, <5>2, <5>3 DEF Favoured, FirstOnes
      <4>4. Points(u)[i] = q2 + 1
        BY <2>2, <4>3, PointsAre
      <4> QED
        BY <2>6, <3>1, <4>4
    <3> QED
      BY <3>2, <3>3
  <2> QED
    BY <2>7, <2>8
<1> QED
  BY <1>2, <1>3

\* The part of PointsAddUp that holds of versions of any size.
HundredPoints ==
  LET u == Unique(wanted.skills)
      p == Points(u)
  IN DOMAIN u # {} =>
       /\ Sum(p) = FULL_SCORE_CENTS
       /\ \A i, j \in DOMAIN u :
            /\ u[i].must = u[j].must => p[i] - p[j] \in {-1, 0, 1}
            /\ i # j => u[i].key # u[j].key

\* Whatever a version asks for, however often it names a skill, exactly 100
\* points are handed out, skills of equal importance differ by a cent at most and
\* none counts twice (_allocate_skill_points in matching/scoring.py,
\* unique_requirement_skills in matching/skill_matching.py).
THEOREM RankingHundredPoints == Spec => []HundredPoints
<1>1. Inputs => HundredPoints
  <2> SUFFICES ASSUME Inputs, NEW u, u = Unique(wanted.skills), DOMAIN u # {}
               PROVE  /\ Sum(Points(u)) = FULL_SCORE_CENTS
                      /\ \A i, j \in DOMAIN u :
                           /\ u[i].must = u[j].must => Points(u)[i] - Points(u)[j] \in {-1, 0, 1}
                           /\ i # j => u[i].key # u[j].key
    BY DEF HundredPoints
  <2>1. PICK v \in Version : v = wanted
    BY DEF Inputs
  <2>2. u = Unique(v.skills) /\ v.skills \in SkillRows
    BY <2>1, RankingAssumption DEF SkillRows
  <2>3. Rows(u)
    BY <2>2, VersionRows
  <2>4. \A i, j \in DOMAIN u : i # j => u[i].key # u[j].key
    BY <2>2, UniqueRows
  <2> QED
    BY <2>3, <2>4, PointsSum
<1>2. Spec => []Inputs
  BY InputsInit, InputsStep, PTL DEF Spec
<1> QED
  BY <1>1, <1>2, PTL

\* Where no version asks for more than 5,000 skills, each skill also gets some of
\* the 100 points and a must-have gets more than a nice-to-have, whichever
\* skills have the cents that the division leaves (_allocate_skill_points).
THEOREM RankingPoints == Affordable => (Spec => []PointsAddUp)
<1> SUFFICES ASSUME Affordable PROVE Spec => []PointsAddUp
  OBVIOUS
<1>1. Inputs => PointsAddUp
  <2> SUFFICES ASSUME Inputs, NEW u, u = Unique(wanted.skills), DOMAIN u # {}
               PROVE  /\ Sum(Points(u)) = FULL_SCORE_CENTS
                      /\ \A i, j \in DOMAIN u :
                           /\ Points(u)[i] > 0
                           /\ u[i].must = u[j].must => Points(u)[i] - Points(u)[j] \in {-1, 0, 1}
                           /\ u[i].must /\ ~u[j].must => Points(u)[i] > Points(u)[j]
                           /\ i # j => u[i].key # u[j].key
    BY DEF PointsAddUp
  <2>1. PICK v \in Version : v = wanted
    BY DEF Inputs
  <2>2. u = Unique(v.skills) /\ v.skills \in SkillRows
    BY <2>1, RankingAssumption DEF SkillRows
  <2>3. Rows(u) /\ Total(u) <= FULL_SCORE_CENTS
    BY <2>2, VersionRows
  <2>4. \A i, j \in DOMAIN u : i # j => u[i].key # u[j].key
    BY <2>2, UniqueRows
  <2> QED
    BY <2>3, <2>4, PointsSum, PointsRank
<1>2. Spec => []Inputs
  BY InputsInit, InputsStep, PTL DEF Spec
<1> QED
  BY <1>1, <1>2, PTL

-----------------------------------------------------------------------------
(* Ranks in a shortlist.                                                    *)

\* Tuples of four numbers, compared.
LEMMA FourPrecedes ==
  ASSUME NEW s \in [1..4 -> Int], NEW t \in [1..4 -> Int]
  PROVE  Precedes(s, t) <=> \/ s[1] < t[1]
                            \/ s[1] = t[1] /\ s[2] < t[2]
                            \/ s[1] = t[1] /\ s[2] = t[2] /\ s[3] < t[3]
                            \/ s[1] = t[1] /\ s[2] = t[2] /\ s[3] = t[3] /\ s[4] < t[4]
<1> DEFINE At(i) == (\A j \in 1..(i - 1) : s[j] = t[j]) /\ s[i] < t[i]
<1>1. Precedes(s, t) <=> \E i \in 1..4 : At(i)
  BY DEF Precedes
<1>2. At(1) <=> s[1] < t[1]
  OBVIOUS
<1>3. At(2) <=> s[1] = t[1] /\ s[2] < t[2]
  OBVIOUS
<1>4. At(3) <=> s[1] = t[1] /\ s[2] = t[2] /\ s[3] < t[3]
  OBVIOUS
<1>5. At(4) <=> s[1] = t[1] /\ s[2] = t[2] /\ s[3] = t[3] /\ s[4] < t[4]
  OBVIOUS
<1> HIDE DEF At
<1>6. (\E i \in 1..4 : At(i)) <=> At(1) \/ At(2) \/ At(3) \/ At(4)
  OBVIOUS
<1> QED
  BY <1>1, <1>2, <1>3, <1>4, <1>5, <1>6

\* They are in a strict order, and one of two with different last numbers comes
\* first.
LEMMA FourOrdered ==
  ASSUME NEW s \in [1..4 -> Int], NEW t \in [1..4 -> Int]
  PROVE  /\ ~Precedes(s, s)
         /\ s[4] # t[4] => Precedes(s, t) \/ Precedes(t, s)
         /\ \A r \in [1..4 -> Int] : Precedes(s, t) /\ Precedes(t, r) => Precedes(s, r)
<1>1. ~Precedes(s, s)
  BY FourPrecedes
<1>2. s[4] # t[4] => Precedes(s, t) \/ Precedes(t, s)
  BY FourPrecedes
<1>3. ASSUME NEW r \in [1..4 -> Int], Precedes(s, t), Precedes(t, r) PROVE Precedes(s, r)
  BY <1>3, FourPrecedes
<1> QED
  BY <1>1, <1>2, <1>3

\* The wanted skills that a candidate has.
HasWanted(x) == {Canonical[wanted.skills[i].name] : i \in DOMAIN wanted.skills} \cap Keys(x)

\* More of the wanted skills make a higher score.
LEMMA ScoresRise ==
  ASSUME Affordable, Inputs, NEW c, NEW d,
         HasWanted(d) \subseteq HasWanted(c), HasWanted(c) # HasWanted(d)
  PROVE  Score(c) \in Int /\ Score(d) \in Int /\ Score(d) < Score(c)
<1>1. PICK v \in Version : v = wanted
  BY DEF Inputs
<1>2. PICK s \in SkillRows : s = wanted.skills
  BY <1>1, RankingAssumption DEF SkillRows
<1>3. PICK u : u = Unique(s)
  OBVIOUS
<1>4. PICK h \in DOMAIN s : Canonical[s[h].name] \in Keys(c) /\ Canonical[s[h].name] \notin Keys(d)
  <2>1. PICK k \in HasWanted(c) : k \notin HasWanted(d)
    OBVIOUS
  <2> QED
    BY <1>2, <2>1 DEF HasWanted
<1>5. PICK x \in DOMAIN u : u[x].key = Canonical[s[h].name]
  BY <1>3, UniqueRows
<1>6. Rows(u) /\ Total(u) <= FULL_SCORE_CENTS
  <2>1. u = Unique(v.skills) /\ DOMAIN u # {}
    BY <1>1, <1>2, <1>3, <1>5
  <2> QED
    BY <2>1, VersionRows
<1>7. \A i \in DOMAIN u : Points(u)[i] \in Nat /\ Points(u)[i] > 0
  BY <1>6, PointsRank
<1> DEFINE Gain(y) == [i \in DOMAIN u |-> IF u[i].key \in Keys(y) THEN Points(u)[i] ELSE 0]
<1>8. \A y : Score(y) = SumOver(Gain(y), DOMAIN u)
  <2>1. \A y : Score(y) = Sum(Gain(y))
    BY <1>2, <1>3 DEF Score
  <2>2. \A y : DOMAIN Gain(y) = DOMAIN u
    OBVIOUS
  <2> HIDE DEF Gain
  <2> QED
    BY <2>1, <2>2, SumIsOver
<1>9. ASSUME NEW i \in DOMAIN u
      PROVE  Gain(d)[i] \in Int /\ Gain(c)[i] \in Int /\ Gain(d)[i] <= Gain(c)[i]
  <2>1. u[i].key \in Keys(d) => u[i].key \in Keys(c)
    <3>1. u[i].key = Canonical[s[i].name] /\ DOMAIN u \in SUBSET (1..Len(s))
      BY <1>3, UniqueRows
    <3>2. i \in DOMAIN s
      BY <3>1 DEF SkillRows
    <3> QED
      BY <1>2, <3>1, <3>2 DEF HasWanted
  <2> QED
    BY <1>7, <2>1
<1>10. Gain(d)[x] < Gain(c)[x]
  BY <1>4, <1>5, <1>7
<1>11. IsFiniteSet(DOMAIN u)
  BY <1>6 DEF Rows
<1> HIDE DEF Gain
<1>12. /\ SumOver(Gain(d), DOMAIN u) \in Int /\ SumOver(Gain(c), DOMAIN u) \in Int
       /\ SumOver(Gain(d), DOMAIN u) < SumOver(Gain(c), DOMAIN u)
  BY <1>9, <1>10, <1>11, SumStrict
<1> QED
  BY <1>8, <1>12

\* Every score is a number.
LEMMA ScoreIsNumber ==
  ASSUME Inputs, NEW c
  PROVE  Score(c) \in Int
<1> DEFINE u == Unique(wanted.skills)
           g == [i \in DOMAIN u |-> IF u[i].key \in Keys(c) THEN Points(u)[i] ELSE 0]
<1>1. PICK v \in Version : v = wanted
  BY DEF Inputs
<1>2. u = Unique(v.skills) /\ v.skills \in SkillRows
  BY <1>1, RankingAssumption DEF SkillRows
<1>3. Score(c) = SumOver(g, DOMAIN u)
  BY SumIsOver DEF Score
<1> HIDE DEF u
<1>4. IsFiniteSet(DOMAIN u)
  BY <1>2, UniqueRows
<1>5. ASSUME NEW i \in DOMAIN u PROVE g[i] \in Int
  <2>1. Rows(u)
    BY <1>2, <1>5, VersionRows
  <2>2. Cents(u)[i] \in Nat
    BY <2>1, CentsDivide
  <2>3. Points(u)[i] \in Nat
    BY <2>1, <2>2, PointsAre
  <2> QED
    BY <2>3
<1> HIDE DEF g
<1> QED
  BY <1>3, <1>4, <1>5, SumSplits

\* A ranking key is four numbers, the score first and the primary key last.
LEMMA KeyIsNumbers ==
  ASSUME Inputs, NEW c \in Candidate
  PROVE  /\ RankingKey(c) \in [1..4 -> Int]
         /\ RankingKey(c)[1] = 0 - Score(c) /\ RankingKey(c)[4] = c
<1>1. c \in Int /\ RoleSignal(c) \in Int /\ SenioritySignal(c) \in Int
  BY RankingAssumption DEF RoleSignal, SenioritySignal, Signal
<1>2. Score(c) \in Int
  BY ScoreIsNumber
<1> QED
  BY <1>1, <1>2 DEF RankingKey

\* The order of the eligible candidates, and their ranks in it.
ByKey == {pair \in Eligible \X Eligible : Precedes(RankingKey(pair[1]), RankingKey(pair[2]))}
RankOf(c) == 1 + Before(Eligible, ByKey, c)

\* The primary key leaves no ties.
LEMMA KeysOrder ==
  ASSUME Inputs
  PROVE  Orders(ByKey, Eligible) /\ Eligible \subseteq Candidate /\ IsFiniteSet(Eligible)
<1>1. Eligible \subseteq Candidate /\ IsFiniteSet(Eligible)
  BY FS_Subset, RankingAssumption DEF Eligible
<1>2. PICK key : key = [c \in Eligible |-> RankingKey(c)]
  OBVIOUS
<1>3. \A c \in Eligible : key[c] \in [1..4 -> Int] /\ key[c][4] = c
  BY <1>1, <1>2, KeyIsNumbers
<1>4. \A c, d \in Eligible : <<c, d>> \in ByKey <=> Precedes(key[c], key[d])
  BY <1>2 DEF ByKey
<1>5. Orders(ByKey, Eligible)
  <2>1. \A c \in Eligible : <<c, c>> \notin ByKey
    BY <1>3, <1>4, FourOrdered
  <2>2. \A c, d \in Eligible : c # d => <<c, d>> \in ByKey \/ <<d, c>> \in ByKey
    BY <1>3, <1>4, FourOrdered
  <2>3. \A c, d, e \in Eligible : <<c, d>> \in ByKey /\ <<d, e>> \in ByKey => <<c, e>> \in ByKey
    BY <1>3, <1>4, FourOrdered
  <2> QED
    BY <2>1, <2>2, <2>3 DEF Orders
<1> QED
  BY <1>1, <1>5

\* A shortlist, in these terms.
LEMMA ShortlistIs ==
  Shortlist = [c \in {e \in Eligible : RankOf(e) <= SHORTLIST_LIMIT} |-> RankOf(c)]
<1> DEFINE Rank(c) == 1 + Cardinality({d \in Eligible : Precedes(RankingKey(d), RankingKey(c))})
<1>1. Shortlist = [c \in {e \in Eligible : Rank(e) <= SHORTLIST_LIMIT} |-> Rank(c)]
  BY DEF Shortlist
<1>2. ASSUME NEW c \in Eligible PROVE Rank(c) = RankOf(c)
  <2>1. {d \in Eligible : Precedes(RankingKey(d), RankingKey(c))}
          = {d \in Eligible : <<d, c>> \in ByKey}
    BY DEF ByKey
  <2> QED
    BY <2>1 DEF RankOf, Before
<1> HIDE DEF Rank
<1>3. {e \in Eligible : Rank(e) <= SHORTLIST_LIMIT} = {e \in Eligible : RankOf(e) <= SHORTLIST_LIMIT}
  BY <1>2
<1> QED
  BY <1>1, <1>2, <1>3

\* The entries of a shortlist have the ranks from 1 on, each once
\* (unique_rank_per_match_run), there are as many as MatchRun.shortlisted_count
\* says, and whoever is left out comes after everyone listed.
RanksAreExact ==
  LET many == Cardinality(Eligible)
      count == IF many <= SHORTLIST_LIMIT THEN many ELSE SHORTLIST_LIMIT
  IN /\ Cardinality(DOMAIN Shortlist) = count
     /\ \A c \in DOMAIN Shortlist : Shortlist[c] \in 1..count
     /\ \A c, d \in DOMAIN Shortlist : Shortlist[c] = Shortlist[d] => c = d
     /\ \A c \in DOMAIN Shortlist, d \in Eligible \ DOMAIN Shortlist :
          Precedes(RankingKey(c), RankingKey(d))

\* Whatever ties there are in score, role and seniority, a shortlist numbers its
\* entries without gaps and without ties and cuts off the last ones
\* (generate_shortlist in matching/scoring.py, which saves an entry for every
\* rank of the sorted scores).
THEOREM RankingRanks == Spec => []RanksAreExact
<1>1. Inputs => RanksAreExact
  <2> SUFFICES ASSUME Inputs PROVE RanksAreExact
    OBVIOUS
  <2> DEFINE many == Cardinality(Eligible)
             count == IF many <= SHORTLIST_LIMIT THEN many ELSE SHORTLIST_LIMIT
             Ahead(c) == Before(Eligible, ByKey, c)
  <2>1. Orders(ByKey, Eligible) /\ IsFiniteSet(Eligible) /\ many \in Nat
    BY KeysOrder, FS_CardinalityType
  <2>2. SHORTLIST_LIMIT \in Nat \ {0} /\ count \in 0..many /\ count <= SHORTLIST_LIMIT
    BY <2>1, RankingAssumption
  <2>3. \A c \in Eligible : Ahead(c) \in Nat /\ Ahead(c) < many
    <3>1. FirstOnes(Eligible, ByKey, many) \in SUBSET Eligible
      BY DEF FirstOnes
    <3>2. Cardinality(FirstOnes(Eligible, ByKey, many)) = many
      BY <2>1, FirstOnesCounted
    <3>3. FirstOnes(Eligible, ByKey, many) = Eligible
      BY <2>1, <3>1, <3>2, FS_Subset
    <3>4. ASSUME NEW c \in Eligible PROVE Ahead(c) \in Nat
      <4>1. IsFiniteSet({d \in Eligible : <<d, c>> \in ByKey})
        BY <2>1, FS_Subset
      <4> QED
        BY <4>1, FS_CardinalityType DEF Before
    <3> QED
      BY <3>3, <3>4 DEF FirstOnes
  <2> HIDE DEF count
  <2>4. DOMAIN Shortlist = FirstOnes(Eligible, ByKey, count)
    <3>1. ASSUME NEW c \in Eligible
          PROVE  RankOf(c) <= SHORTLIST_LIMIT <=> Ahead(c) < count
      BY <2>1, <2>2, <2>3 DEF RankOf, count
    <3>2. DOMAIN Shortlist = {c \in Eligible : RankOf(c) <= SHORTLIST_LIMIT}
      BY ShortlistIs
    <3> QED
      BY <3>1, <3>2 DEF FirstOnes
  <2>5. Cardinality(DOMAIN Shortlist) = count
    BY <2>1, <2>2, <2>4, FirstOnesCounted
  <2>6. ASSUME NEW c \in DOMAIN Shortlist
        PROVE  c \in Eligible /\ Shortlist[c] = 1 + Ahead(c) /\ Ahead(c) < count
    BY <2>4, ShortlistIs DEF FirstOnes, RankOf
  <2>7. \A c \in DOMAIN Shortlist : Shortlist[c] \in 1..count
    BY <2>2, <2>3, <2>6
  <2>8. ASSUME NEW c \in DOMAIN Shortlist, NEW d \in DOMAIN Shortlist, c # d
        PROVE  Shortlist[c] # Shortlist[d]
    <3>1. c \in Eligible /\ d \in Eligible /\ (<<c, d>> \in ByKey \/ <<d, c>> \in ByKey)
      BY <2>1, <2>6, <2>8 DEF Orders
    <3>2. Ahead(c) # Ahead(d)
      BY <2>1, <3>1, BeforeGrows
    <3> QED
      BY <2>3, <2>6, <3>1, <3>2
  <2>9. ASSUME NEW c \in DOMAIN Shortlist, NEW d \in Eligible \ DOMAIN Shortlist
        PROVE  Precedes(RankingKey(c), RankingKey(d))
    <3>1. c \in Eligible /\ Ahead(c) < count /\ ~(Ahead(d) < count) /\ count \in Nat
      BY <2>2, <2>4, <2>6 DEF FirstOnes
    <3>2. <<d, c>> \notin ByKey
      <4> SUFFICES ASSUME <<d, c>> \in ByKey PROVE FALSE
        OBVIOUS
      <4>1. Ahead(d) < Ahead(c)
        BY <2>1, <3>1, BeforeGrows
      <4> QED
        BY <2>3, <3>1, <4>1
    <3>3. <<c, d>> \in ByKey
      BY <2>1, <3>1, <3>2 DEF Orders
    <3> QED
      BY <3>3 DEF ByKey
  <2> QED
    BY <2>5, <2>7, <2>8, <2>9 DEF RanksAreExact, count
<1>2. Spec => []Inputs
  BY InputsInit, InputsStep, PTL DEF Spec
<1> QED
  BY <1>1, <1>2, PTL

\* Where no version asks for more than 5,000 skills, whoever has all the wanted
\* skills of another eligible candidate and one more is listed above the other,
\* whatever role, seniority and primary key say: the points of the additional
\* skill make the score higher, and the score comes first in the ranking key
\* (score_candidate_relevance, _ranking_key, generate_shortlist in
\* matching/scoring.py).
THEOREM RankingSkillsFirst == Affordable => (Spec => []MoreSkillsRankHigher)
<1> SUFFICES ASSUME Affordable PROVE Spec => []MoreSkillsRankHigher
  OBVIOUS
<1>1. Inputs => MoreSkillsRankHigher
  <2> SUFFICES ASSUME Inputs, NEW c \in Eligible, NEW d \in DOMAIN Shortlist,
                      HasWanted(d) \subseteq HasWanted(c), HasWanted(c) # HasWanted(d)
               PROVE  c \in DOMAIN Shortlist /\ Shortlist[c] < Shortlist[d]
    BY DEF MoreSkillsRankHigher, HasWanted
  <2>1. d \in Eligible /\ RankOf(d) <= SHORTLIST_LIMIT /\ Shortlist[d] = RankOf(d)
    BY ShortlistIs
  <2>2. Orders(ByKey, Eligible) /\ IsFiniteSet(Eligible) /\ c \in Candidate /\ d \in Candidate
    BY <2>1, KeysOrder
  <2>3. RankingKey(c)[1] < RankingKey(d)[1]
    <3>1. Score(d) < Score(c) /\ Score(c) \in Int /\ Score(d) \in Int
      BY ScoresRise
    <3>2. RankingKey(c)[1] = 0 - Score(c) /\ RankingKey(d)[1] = 0 - Score(d)
      BY <2>2, KeyIsNumbers
    <3> QED
      BY <3>1, <3>2
  <2>4. Precedes(RankingKey(c), RankingKey(d))
    BY <2>2, <2>3, KeyIsNumbers, FourPrecedes
  <2>5. <<c, d>> \in ByKey
    BY <2>1, <2>4 DEF ByKey
  <2>6. /\ Before(Eligible, ByKey, c) \in Nat /\ Before(Eligible, ByKey, d) \in Nat
        /\ Before(Eligible, ByKey, c) < Before(Eligible, ByKey, d)
    BY <2>1, <2>2, <2>5, BeforeGrows
  <2>7. RankOf(c) < RankOf(d) /\ RankOf(c) <= SHORTLIST_LIMIT
    BY <2>1, <2>6, RankingAssumption DEF RankOf
  <2> QED
    BY <2>1, <2>7, ShortlistIs
<1>2. Spec => []Inputs
  BY InputsInit, InputsStep, PTL DEF Spec
<1> QED
  BY <1>1, <1>2, PTL
=============================================================================
