------------------------------- MODULE Ranking -------------------------------
(***************************************************************************)
(* How the candidates of a vacancy are filtered and ranked: the skills a   *)
(* confirmed profile publishes (candidates/ai_extraction.py), the choice   *)
(* among several records of one skill (matching/skill_matching.py), the    *)
(* eligibility rules (matching/evaluation.py), the apportionment of 100    *)
(* points and the ranking key (matching/scoring.py).                       *)
(*                                                                         *)
(* Requirements says where the skills and rules of a version come from,    *)
(* ReviewPipeline what becomes of a shortlist once it is saved; here one   *)
(* confirmed version stays as it is, and Shortlist is what                 *)
(* generate_shortlist would save in this state.  A service is one step.    *)
(***************************************************************************)
EXTENDS Integers, FiniteSets, Sequences, Functions

CONSTANTS
  Candidate,   \* candidates of the vacancy, by primary key
  Doc,         \* CVs; each candidate has one row for each of them
  Name,        \* names of skills, as written and as on file
  Canonical,   \* canonical_skill_key: [Name -> Name]
  Legacy,      \* names on file from before the controlled aliases
  Years,       \* years of experience that a record may tell
  Nobody,      \* nothing recorded, "unknown"
  Content,     \* what an extraction may read in a CV
  Place,       \* locations: <<city>> or <<city, country>>
  Version,     \* confirmed versions to rank for
  SHORTLIST_LIMIT,
  MaxProfile,  \* bound on the profile versions of all candidates
  MaxEdit      \* bound on manual records, corrections and edits

\* What an extraction reads: skills in an order, facts, a place and two signals.
IsReading(x) ==
  /\ x = [skills |-> x.skills, facts |-> x.facts, place |-> x.place, role |-> x.role,
          seniority |-> x.seniority]
  /\ DOMAIN x.skills \subseteq Nat
  /\ x.skills \in [DOMAIN x.skills -> [label : Name, years : Years \cup {Nobody}]]

ASSUME RankingAssumption ==
  /\ Candidate \subseteq Nat /\ IsFiniteSet(Candidate)
  /\ \A v \in Version : v.skills \in Seq([name : Name, must : BOOLEAN])
  /\ Years \subseteq Nat /\ IsFiniteSet(Years)
  /\ \A content \in Content : IsReading(content)
  /\ Nobody \notin Years /\ Nobody \notin [profile : Nat, evidence : BOOLEAN,
                                           years : Years \cup {Nobody}]
  /\ Legacy \subseteq Name
  /\ Canonical \in [Name -> Name]
  /\ \A n \in Name : Canonical[Canonical[n]] = Canonical[n]
  /\ SHORTLIST_LIMIT \in Nat \ {0} /\ MaxProfile \in Nat /\ MaxEdit \in Nat

VARIABLES
  wanted,   \* the version: skills in the order of (importance, position, id),
            \* rules, role family and seniority
  status,   \* Candidate.status
  location, \* Candidate.location
  profiles, \* CandidateProfile rows of each candidate, by version
  records,  \* CandidateSkill rows: [Candidate -> [Name -> row or Nobody]]
  edits

vars == <<wanted, status, location, profiles, records, edits>>

-----------------------------------------------------------------------------
(* The vocabulary and the records of a candidate. *)

\* get_or_create_skill: the canonical name if it is on file, else a name on
\* file that means the same, else the canonical name, now created.
Resolved(label) ==
  LET twins == {n \in Legacy : Canonical[n] = Canonical[label]}
  IN IF twins = {} \/ Canonical[label] \in twins THEN Canonical[label]
     ELSE CHOOSE n \in twins : TRUE

Manual == 0   \* the profile of a record that no profile published
Recorded(c) == {n \in Name : records[c][n] # Nobody}
Keys(c) == {Canonical[n] : n \in Recorded(c)}

Confirmed(c) == {v \in DOMAIN profiles[c] : profiles[c][v].status = "confirmed"}
HasProfile(c) == Confirmed(c) # {}
CurrentVersion(c) == CHOOSE v \in Confirmed(c) : \A u \in Confirmed(c) : u <= v
Current(c) == profiles[c][CurrentVersion(c)].content   \* Candidate.current_profile

\* _candidate_skill_priority: evidence first, then years, then more of them,
\* then the canonical name itself.
YearsOf(r) == IF r.years = Nobody THEN 0 ELSE r.years
\* Mutant: more years come before evidence.
YearsFirst(c, n) ==
  LET r == records[c][n]
  IN <<0 - YearsOf(r), IF r.evidence THEN 0 ELSE 1, IF Canonical[n] = n THEN 0 ELSE 1>>
Priority(c, n) ==
  LET r == records[c][n]
  IN <<IF r.evidence THEN 0 ELSE 1, IF r.years # Nobody THEN 0 ELSE 1,
       0 - YearsOf(r), IF Canonical[n] = n THEN 0 ELSE 1>>

\* Tuples of the same length, compared as Python does.
Precedes(s, t) == \E i \in DOMAIN s : /\ \A j \in 1..(i - 1) : s[j] = t[j]
                                      /\ s[i] < t[i]

\* candidate_skills_by_canonical_key
Best(c) ==
  [k \in Keys(c) |->
     LET same == {n \in Recorded(c) : Canonical[n] = k}
     IN records[c][CHOOSE n \in same :
                     \A m \in same : ~Precedes(Priority(c, m), Priority(c, n))]]

\* unique_requirement_skills: one row for every canonical skill, the first.
Unique(s) ==
  LET Key(i) == Canonical[s[i].name]
  IN [i \in {j \in DOMAIN s : \A h \in 1..(j - 1) : Key(h) # Key(j)} |->
        [key |-> Key(i), must |-> s[i].must]]

-----------------------------------------------------------------------------
(* Eligibility. *)

\* _locations_match: the same place, or one side names the city only.
PlacesMatch(p, q) ==
  \/ p = q
  \/ Head(p) = Head(q) /\ (Len(p) = 1 \/ Len(q) = 1)

\* _evaluate_location: the candidate's own record before the profile's.
PlaceOf(c) == IF location[c] # Nobody THEN location[c]
              ELSE IF HasProfile(c) THEN Current(c).place ELSE Nobody

\* evaluate_rule.  Only a recorded place can fail a rule: other facts that are
\* missing, or years that do not suffice, prove nothing.
PassedIf(proof) == IF proof THEN "passed" ELSE "unknown"
SkillOutcome(c, skill) == PassedIf(Canonical[skill] \in Keys(c))
YearsOutcome(c, years) ==
  PassedIf(\E k \in Keys(c) : Best(c)[k].years # Nobody /\ Best(c)[k].years >= years)
LocationOutcome(c, place) ==
  IF PlaceOf(c) = Nobody THEN "unknown"
  ELSE IF PlacesMatch(PlaceOf(c), place) THEN "passed" ELSE "failed"
FactOutcome(c, fact) == PassedIf(HasProfile(c) /\ fact \in Current(c).facts)
Outcome(c, rule) ==
  CASE rule.kind = "skill"    -> SkillOutcome(c, rule.value)
    [] rule.kind = "years"    -> YearsOutcome(c, rule.value)
    [] rule.kind = "location" -> LocationOutcome(c, rule.value)
    [] rule.kind = "fact"     -> FactOutcome(c, rule.value)

\* _aggregate_outcome
FilterOutcome(c) ==
  LET found == {Outcome(c, rule) : rule \in wanted.rules}
  IN IF "failed" \in found THEN "failed"
     ELSE IF "unknown" \in found THEN "review" ELSE "passed"

\* is_shortlist_eligible, among the active candidates of the vacancy.
Eligible == {c \in Candidate : /\ status[c] = "active" /\ HasProfile(c)
                               /\ FilterOutcome(c) = "passed"}

-----------------------------------------------------------------------------
(* Points and ranks. *)

MUST_HAVE_UNITS == 2
NICE_TO_HAVE_UNITS == 1
FULL_SCORE_CENTS == 10000
Units(row) == IF row.must THEN MUST_HAVE_UNITS ELSE NICE_TO_HAVE_UNITS
Sum(f) == FoldFunction(+, 0, f)

\* Mutant: the cents that the division leaves are not handed out.
RoundedDown(u) ==
  [i \in DOMAIN u |->
     (FULL_SCORE_CENTS * Units(u[i])) \div Sum([j \in DOMAIN u |-> Units(u[j])])]

\* _allocate_skill_points: the cents a skill gets by division, and one more
\* for those with the largest remainders, the first ones among equals.
Points(u) ==
  LET total == Sum([i \in DOMAIN u |-> Units(u[i])])
      cents == [i \in DOMAIN u |-> (FULL_SCORE_CENTS * Units(u[i])) \div total]
      key   == [i \in DOMAIN u |-> <<0 - ((FULL_SCORE_CENTS * Units(u[i])) % total), i>>]
      left  == FULL_SCORE_CENTS - Sum(cents)
  IN [i \in DOMAIN u |->
        IF Cardinality({j \in DOMAIN u : Precedes(key[j], key[i])}) < left
          THEN cents[i] + 1 ELSE cents[i]]

\* score_candidate_relevance
Score(c) ==
  LET u == Unique(wanted.skills)
      p == Points(u)
  IN Sum([i \in DOMAIN u |-> IF u[i].key \in Keys(c) THEN p[i] ELSE 0])

\* compare_discovery_value, as _ranking_key orders it.
Signal(asked, told) == IF asked = Nobody \/ told = Nobody THEN 1
                       ELSE IF asked = told THEN 0 ELSE 2
RoleSignal(c) == Signal(wanted.role, Current(c).role)
SenioritySignal(c) == Signal(wanted.seniority, Current(c).seniority)

\* Mutant: role and seniority are compared first.
RoleFirstKey(c) == <<RoleSignal(c), SenioritySignal(c), 0 - Score(c), c>>

\* _ranking_key, for those who passed the filter.
RankingKey(c) == <<0 - Score(c), RoleSignal(c), SenioritySignal(c), c>>

\* The entries that generate_shortlist saves: the rank of each candidate.
Shortlist ==
  LET Rank(c) == 1 + Cardinality({d \in Eligible : Precedes(RankingKey(d), RankingKey(c))})
  IN [c \in {d \in Eligible : Rank(d) <= SHORTLIST_LIMIT} |-> Rank(c)]

-----------------------------------------------------------------------------
Init ==
  /\ wanted \in Version
  /\ status = [c \in Candidate |-> "active"]
  /\ location = [c \in Candidate |-> Nobody]
  /\ profiles = [c \in Candidate |-> <<>>]
  /\ records = [c \in Candidate |-> [n \in Name |-> Nobody]]
  /\ edits = 0

InDeletion(c) == status[c] = "deletion_requested"

File(c, d, content) ==
  /\ Sum([b \in Candidate |-> Len(profiles[b])]) < MaxProfile
  /\ profiles' = [profiles EXCEPT ![c] =
       Append(@, [doc |-> d, status |-> "draft", content |-> content])]
  /\ UNCHANGED <<wanted, status, location, records>>

\* extract_candidate_profile; the AI service may read anything in a CV.
Extract(c, d, content) ==
  ~InDeletion(c) /\ File(c, d, content) /\ UNCHANGED edits

\* create_corrected_profile_version: from any version, with another location or
\* without some of the skills.
Correct(c, v, retained, place) ==
  LET old == profiles[c][v].content
      kept == {i \in DOMAIN old.skills : old.skills[i].label \in retained}
  IN
  /\ ~InDeletion(c) /\ edits < MaxEdit
  /\ File(c, profiles[c][v].doc,
          [old EXCEPT !.skills = [i \in kept |-> old.skills[i]], !.place = place])
  /\ edits' = edits + 1

\* The checks of confirm_candidate_profile; candidate_profile_conflicts.
Confirmable(c, v) ==
  /\ profiles[c][v].status = "draft" /\ ~InDeletion(c)
  /\ \A u \in Confirmed(c) : u < v
  /\ profiles[c][v].content.place \in {Nobody, location[c]} \/ location[c] = Nobody

\* Mutants: what the CV published before stays; the rows on file are looked up
\* before those of the same CV are deleted.
KeptAll(c, v) == records[c]
TakenBefore(c, v) == Recorded(c)

\* The records that stay when version v is confirmed: all but those that an
\* earlier version of the same CV published.
Kept(c, v) ==
  [n \in Name |->
     IF /\ records[c][n] # Nobody /\ records[c][n].profile # Manual
        /\ profiles[c][records[c][n].profile].doc = profiles[c][v].doc
       THEN Nobody ELSE records[c][n]]

\* Skills that a row stands in the way of: the row is left as it is.
Taken(c, v) == {n \in Name : Kept(c, v)[n] # Nobody}

\* The candidate's records after version v has published its skills.  Of two
\* labels of one skill the first is recorded.
Published(c, v) ==
  LET skills == profiles[c][v].content.skills
      rows(n) == {i \in DOMAIN skills : Resolved(skills[i].label) = n}
      first(n) == CHOOSE i \in rows(n) : \A j \in rows(n) : i <= j
  IN [n \in Name |->
        IF n \in Taken(c, v) \/ rows(n) = {} THEN Kept(c, v)[n]
        ELSE [profile |-> v, evidence |-> TRUE, years |-> skills[first(n)].years]]

\* confirm_candidate_profile
Confirm(c, v) ==
  /\ Confirmable(c, v)
  /\ records' = [records EXCEPT ![c] = Published(c, v)]
  /\ profiles' = [profiles EXCEPT ![c][v].status = "confirmed"]
  /\ UNCHANGED <<wanted, status, location, edits>>

\* review_intake_profiles: the newest version of a CV, if it can be confirmed and
\* the candidate is active.
Latest(c, d) ==
  CHOOSE v \in DOMAIN profiles[c] :
    /\ profiles[c][v].doc = d
    /\ \A u \in DOMAIN profiles[c] : profiles[c][u].doc = d => u <= v
ReadyRows(d) ==
  {c \in Candidate : /\ \E v \in DOMAIN profiles[c] : profiles[c][v].doc = d
                     /\ Confirmable(c, Latest(c, d))
                     /\ status[c] = "active"}

\* confirm_all_eligible_intake_profiles, for a batch that brought CV d of some
\* candidates; profiles with ambiguities or removed content are left out of it.
ConfirmAll(d) ==
  \E chosen \in SUBSET ReadyRows(d) \ {{}} :
    /\ records' = [c \in Candidate |-> IF c \in chosen THEN Published(c, Latest(c, d))
                                      ELSE records[c]]
    /\ profiles' = [c \in Candidate |->
         IF c \in chosen THEN [profiles[c] EXCEPT ![Latest(c, d)].status = "confirmed"]
         ELSE profiles[c]]
    /\ UNCHANGED <<wanted, status, location, edits>>

\* assign_candidate_skill; a record that exists stays as it is.  Records of a
\* legacy name date from before the aliases.
AssignSkill(c, n, evidence, years) ==
  /\ edits < MaxEdit
  /\ n \in Legacy \/ Resolved(n) = n
  /\ records[c][n] = Nobody
  /\ records' = [records EXCEPT ![c][n] =
                   [profile |-> Manual, evidence |-> evidence, years |-> years]]
  /\ edits' = edits + 1
  /\ UNCHANGED <<wanted, status, location, profiles>>

\* update_candidate_record
EditLocation(c, place) ==
  /\ ~InDeletion(c) /\ edits < MaxEdit
  /\ location' = [location EXCEPT ![c] = place]
  /\ edits' = edits + 1
  /\ UNCHANGED <<wanted, status, profiles, records>>

\* request_candidate_deletion, cancel_candidate_deletion
RequestDeletion(c) ==
  /\ ~InDeletion(c) /\ edits < MaxEdit
  /\ status' = [status EXCEPT ![c] = "deletion_requested"]
  /\ edits' = edits + 1
  /\ UNCHANGED <<wanted, location, profiles, records>>

CancelDeletion(c) ==
  /\ InDeletion(c)
  /\ status' = [status EXCEPT ![c] = "active"]
  /\ UNCHANGED <<wanted, location, profiles, records, edits>>

Recruit(c) ==
  \/ \E d \in Doc, content \in Content : Extract(c, d, content)
  \/ \E v \in DOMAIN profiles[c], place \in Place \cup {Nobody} :
       \E retained \in SUBSET {profiles[c][v].content.skills[i].label :
                                 i \in DOMAIN profiles[c][v].content.skills} :
         Correct(c, v, retained, place)
  \/ \E v \in DOMAIN profiles[c] : Confirm(c, v)
  \/ \E n \in Name, evidence \in BOOLEAN, years \in Years \cup {Nobody} :
       AssignSkill(c, n, evidence, years)
  \/ \E place \in Place \cup {Nobody} : EditLocation(c, place)
  \/ RequestDeletion(c) \/ CancelDeletion(c)

Next == (\E c \in Candidate : Recruit(c)) \/ (\E d \in Doc : ConfirmAll(d))

Spec == Init /\ [][Next]_vars

-----------------------------------------------------------------------------
(* Properties. *)

TypeOK ==
  /\ wanted \in Version
  /\ status \in [Candidate -> {"active", "deletion_requested"}]
  /\ location \in [Candidate -> Place \cup {Nobody}]
  /\ \A c \in Candidate : \A v \in DOMAIN profiles[c] :
       /\ profiles[c][v].doc \in Doc
       /\ profiles[c][v].status \in {"draft", "confirmed"}
  /\ \A c \in Candidate : \A n \in Recorded(c) :
       /\ records[c][n].profile \in {Manual} \cup DOMAIN profiles[c]
       /\ records[c][n].evidence \in BOOLEAN
       /\ records[c][n].years \in Years \cup {Nobody}
  /\ edits \in 0..MaxEdit

\* A skill that a profile published is what the newest confirmed version of its
\* CV says, with its years: nothing an earlier version said survives the
\* confirmation of a correction, whatever other CVs and records there are.
RecordsAreCurrent ==
  \A c \in Candidate : \A n \in Recorded(c) :
    LET v == records[c][n].profile
        doc == profiles[c][v].doc
    IN v # Manual =>
         /\ v \in Confirmed(c)
         /\ \A u \in Confirmed(c) : profiles[c][u].doc = doc => u <= v
         /\ \E i \in DOMAIN profiles[c][v].content.skills :
              LET skill == profiles[c][v].content.skills[i]
              IN Canonical[skill.label] = Canonical[n] /\ skill.years = records[c][n].years

\* Every skill of the current profile counts for the candidate, although
\* records of other CVs are in its way and records of its own CV are replaced.
CurrentSkillsCount ==
  \A c \in Candidate : HasProfile(c) =>
    \A i \in DOMAIN Current(c).skills : Canonical[Current(c).skills[i].label] \in Keys(c)

\* Exactly 100 points are handed out: each skill gets some, equal importance
\* differs by a cent at most, a must-have gets more than a nice-to-have and no
\* skill counts twice (algorithm v3 of docs/architecture.md).
PointsAddUp ==
  LET u == Unique(wanted.skills)
      p == Points(u)
  IN DOMAIN u # {} =>
       /\ Sum(p) = FULL_SCORE_CENTS
       /\ \A i, j \in DOMAIN u :
            /\ p[i] > 0
            /\ u[i].must = u[j].must => p[i] - p[j] \in {-1, 0, 1}
            /\ u[i].must /\ ~u[j].must => p[i] > p[j]
            /\ i # j => u[i].key # u[j].key

\* "Only proven eligibility from a confirmed profile enters a shortlist": what a
\* rule asks stands in a manual record or in a confirmed profile, and years that
\* nobody has evidence for do not count beside a record of the skill that has it.
Told(c, k) ==
  \/ \E n \in Recorded(c) : records[c][n].profile = Manual /\ Canonical[n] = k
  \/ \E v \in Confirmed(c) : \E i \in DOMAIN profiles[c][v].content.skills :
       Canonical[profiles[c][v].content.skills[i].label] = k
Foremost(c, n) == \A m \in Recorded(c) :
  Canonical[m] = Canonical[n] /\ records[c][m].evidence => records[c][n].evidence
ListedIsProven ==
  \A c \in DOMAIN Shortlist : \A rule \in wanted.rules :
    /\ rule.kind = "skill" => Told(c, Canonical[rule.value])
    /\ rule.kind = "years" => \E n \in Recorded(c) :
         YearsOf(records[c][n]) >= rule.value /\ Foremost(c, n)
    /\ rule.kind = "location" => PlacesMatch(PlaceOf(c), rule.value)
    /\ rule.kind = "fact" => \E v \in Confirmed(c) : rule.value \in profiles[c][v].content.facts

\* "Passed and needs-review candidates remain eligible for scoring"
\* (docs/architecture.md): a shortlist with free places leaves out an active
\* candidate with a confirmed profile only when a recorded fact fails a rule.
OnlyFailuresAreExcluded ==
  \A c \in Candidate : status[c] = "active" /\ HasProfile(c) =>
    \/ c \in DOMAIN Shortlist \/ FilterOutcome(c) = "failed"
    \/ Cardinality(DOMAIN Shortlist) = SHORTLIST_LIMIT

\* Who has all the wanted skills of another eligible candidate and one more is
\* ranked above, whatever role, seniority and primary key say.
MoreSkillsRankHigher ==
  \A c \in Eligible, d \in DOMAIN Shortlist :
    LET Has(x) == {Canonical[wanted.skills[i].name] : i \in DOMAIN wanted.skills} \cap Keys(x)
    IN Has(d) \subseteq Has(c) /\ Has(c) # Has(d) =>
         c \in DOMAIN Shortlist /\ Shortlist[c] < Shortlist[d]
=============================================================================
