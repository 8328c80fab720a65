----------------------------- MODULE Requirements -----------------------------
(***************************************************************************)
(* One vacancy and the versions of its requirements, written by recruiters *)
(* and by the AI service at once (vacancies/services.py, vacancies/views.py,*)
(* vacancies/ai_extraction.py), with their skill links and eligibility     *)
(* rules (matching/services.py, matching/models.py, matching/views.py) and *)
(* the client company of the vacancy (organizations/services.py).          *)
(*                                                                         *)
(* A request is the record req[r].  Its page is found before its           *)
(* transaction starts (Ask); the transaction takes row locks in the order  *)
(* of Plan, checks what it reads, takes more locks, and commits:           *)
(*                                                                         *)
(*   idle -> [calling ->] asked -> checked -> idle                         *)
(*                                                                         *)
(* Some requests lock the version, others the vacancy, a few both: rows a  *)
(* request has not locked may change between its check and its commit.     *)
(* Other vacancies of the organization appear by the requests on them that *)
(* meet those on this one at the organization and the client company.      *)
(***************************************************************************)
EXTENDS Naturals, FiniteSets, Sequences

CONSTANTS
  Skill, Fact,     \* canonical skills; other structured values (location, ...)
  Role,            \* role families, that only order candidates
  None,            \* no fact, no rule, no snapshot, no version
  Title, Draft0,   \* titles of the vacancy; what the first draft contains
  Form,            \* what a recruiter may post
  Answer,          \* what the AI service may answer
  Requires,        \* skills that the source description calls mandatory
  Prefers,         \* skills that it calls optional
  States,          \* roles that the source states under a title
  Web,             \* requests
  MaxVersion,      \* bound on versions
  MaxRule,         \* bound on transactions that create rules
  MaxAsk           \* bound on requests

RuleValue == Skill \cup Fact
Content == [must : SUBSET Skill, nice : SUBSET Skill, fact : Fact \cup {None},
            role : Role \cup {None}]
Version == 1..MaxVersion

ASSUME RequirementsAssumption ==
  /\ None \notin RuleValue \cup Role \cup Title
  /\ Form \subseteq Content /\ Answer \subseteq Content /\ Draft0 \in Content
  /\ Requires \subseteq Skill /\ Prefers \subseteq Skill
  /\ States \in [Title -> SUBSET Role]
  /\ MaxVersion \in Nat \ {0} /\ MaxRule \in Nat /\ MaxAsk \in Nat

VARIABLES
  vacancy,  \* Vacancy: status, deleted, title, client (linked or not)
  active,   \* ClientCompany.is_active
  version,  \* VacancyRequirements by number
  minted,   \* transactions that have created rules
  held,     \* the rows that every request has locked
  req,      \* the request that every process works on
  asked     \* requests so far

vars == <<vacancy, active, version, minted, held, req, asked>>
tables == <<vacancy, active, version, minted>>

\* A rule is a row with an identity; a skill or a value is required.
Rule == [id : (1..MaxRule) \X RuleValue, val : RuleValue]
\* An extraction snapshot: the title whose source it is filed under, and what
\* was found in a source.
Snapshot == [title : Title, values : Content]
Requirement ==
  [status : {"none", "draft", "confirmed"}, values : Content,
   links : [Skill -> {"none", "must", "nice"}],
   rules : SUBSET Rule, snapshot : Snapshot \cup {None}]

\* sync_requirement_skills: must-have skills first, each skill once.
LinksOf(c) == [s \in Skill |-> CASE s \in c.must -> "must"
                                 [] s \in c.nice \ c.must -> "nice"
                                 [] OTHER -> "none"]
Blank(c, st) == [status |-> st, values |-> c, links |-> LinksOf(c),
                 rules |-> {}, snapshot |-> None]
Nothing == [must |-> {}, nice |-> {}, fact |-> None, role |-> None]

Drafts == {v \in Version : version[v].status = "draft"}
Confirmed == {v \in Version : version[v].status = "confirmed"}
Versions == Drafts \cup Confirmed
Greatest(S) == CHOOSE v \in S : \A w \in S : w <= v
\* current_requirements, the newest confirmed version.
Base == IF Confirmed = {} THEN Blank(Nothing, "none")
        ELSE version[Greatest(Confirmed)]

-----------------------------------------------------------------------------
(* Values and rules of a version. *)

Meaningful(c) == c.must \cup c.nice # {} \/ c.fact # None

\* HardConstraintRule.clean: a required skill is a must-have link.
Fits(links, val) == val \in Skill => links[val] = "must"
Valid(v) == \A x \in v.rules : Fits(v.links, x.val)

\* The structured values that can be made rules.
Options(c) == c.must \cup ({c.fact} \ {None})

\* update_requirements_draft: new values, new links, the same rules.
Filled(v, c) == [v EXCEPT !.values = c, !.links = LinksOf(c)]

\* sync_structured_eligibility_rules: rules that no longer have a skill, or
\* whose value was deselected, go; other values keep the rules they have.
Orphaned(v, c, picked) ==
  {x \in v.rules : IF x.val \in Options(c) THEN x.val \notin picked
                                          ELSE x.val \in Skill}
Added(v, c, picked) ==
  {[id |-> <<minted + 1, a>>, val |-> a] :
     a \in (picked \cap Options(c)) \ {x.val : x \in v.rules}}
Synced(v, c, picked) ==
  [Filled(v, c) EXCEPT !.rules = (@ \ Orphaned(v, c, picked))
                                   \cup Added(v, c, picked)]

\* _requirements_values_for_source: what the source does not state goes.  The
\* title of the vacancy is its first line (_extraction_source).
Grounded(a, t) ==
  LET must == a.must \cap Requires
  IN [a EXCEPT !.must = must, !.nice = (@ \ must) \cap Prefers,
               !.role = IF @ \in States[t] THEN @ ELSE None]

\* _draft_signature: everything that an edit may change, not the title.
Signature(v) == [status |-> v.status, values |-> v.values, rules |-> v.rules]

\* _cached_extraction_values: the first snapshot under the same source.
Filed(t) == {v \in Versions : /\ version[v].snapshot # None
                              /\ version[v].snapshot.title = t}
Cached(t) == IF Filed(t) = {} THEN None
             ELSE version[CHOOSE v \in Filed(t) : \A w \in Filed(t) : v <= w]
                    .snapshot

-----------------------------------------------------------------------------
(* Requests.  Which fields one uses depends on its operation:              *)
(*   ver, form   the version it is about and the values it posts           *)
(*   picked      the values marked as required for eligibility             *)
(*   rule, val   the rule it changes; the value of a new or changed rule   *)
(*   title, client, status, go   the vacancy it asks for; whether the      *)
(*               version is to be confirmed and the vacancy opened         *)
(*   seen, cached   what an extraction read before it called the service   *)
(*   open        whether the check found the vacancy open                  *)

Op == {"create", "edit", "save", "review", "addRule", "setRule", "dropRule",
       "confirm", "copy", "status", "delete", "retitle", "company", "extract",
       "createOther", "retitleOther"}
Idle == [op |-> "none", stage |-> "idle", ver |-> 1, form |-> Nothing,
         picked |-> {}, rule |-> None, val |-> None, title |-> None,
         client |-> FALSE, status |-> "none", go |-> FALSE,
         seen |-> None, cached |-> None, open |-> FALSE]

Exists == vacancy.status # "none"
Visible == Exists /\ ~vacancy.deleted

\* The form of the vacancy: an active client, or the one it has.
Details == {d \in [title : Title, client : BOOLEAN] :
              d.client => active \/ vacancy.client}

\* What the forms of a version, of a rule and of the vacancy post.
Post(op, v, c, p, x) ==
  [Idle EXCEPT !.op = op, !.ver = v, !.form = c, !.picked = p, !.val = x]
PostRule(op, v, id, x) ==
  [Idle EXCEPT !.op = op, !.ver = v, !.rule = id, !.val = x]
PostDetails(op, d) ==
  [Idle EXCEPT !.op = op, !.title = d.title, !.client = d.client]
PostReview(v, c, x, d) ==
  [Idle EXCEPT !.op = "review", !.ver = v, !.form = c, !.picked = RuleValue,
               !.val = x, !.title = d.title, !.client = d.client]
Opening(q) == [q EXCEPT !.go = TRUE]

Creations == {PostDetails("create", d) : d \in {x \in Details : ~Exists}}

\* requirements_edit: with the eligibility controls of the page, to which a
\* rule may be added, or without them.
Edits ==
  {Post("edit", v, c, p, x) : v \in Drafts, c \in Form, p \in {{}, RuleValue},
                              x \in RuleValue \cup {None}}
  \cup {Post("save", v, c, {}, None) : v \in Drafts, c \in Form}

\* requirements_review: saves, adds a rule, or confirms and opens.
Reviews ==
  {PostReview(v, c, x, d) : v \in Drafts, c \in Form, x \in RuleValue \cup {None},
                            d \in Details}
  \cup {Opening(PostReview(v, c, None, d)) : v \in Drafts, c \in Form, d \in Details}

\* The rule editor offers the saved must-have skills.
Offered(v) == {x \in RuleValue : Fits(version[v].links, x)}
RuleAdditions ==
  UNION {{Post("addRule", v, Nothing, {}, x) : x \in Offered(v)} : v \in Drafts}
RuleChanges ==
  UNION {{PostRule("setRule", v, u.id, x) : u \in version[v].rules, x \in Offered(v)}
         : v \in Drafts}
RuleDeletions ==
  UNION {{PostRule("dropRule", v, u.id, None) : u \in version[v].rules} : v \in Drafts}

Confirmations ==
  LET confirm(v) == Post("confirm", v, Nothing, {}, None)
  IN {confirm(v) : v \in Drafts} \cup {Opening(confirm(v)) : v \in Drafts}
Copies == {[Idle EXCEPT !.op = "copy"]}
StatusChanges == {[Idle EXCEPT !.op = "status", !.status = s] :
                    s \in {"open", "paused", "closed"}}
Deletions == {[Idle EXCEPT !.op = "delete"]}
Retitles == {PostDetails("retitle", d) : d \in Details}
CompanyChanges == {[Idle EXCEPT !.op = "company"]}

\* Another vacancy is created for the client company, or its details are edited.
Elsewhere == {[Idle EXCEPT !.op = "retitleOther", !.client = TRUE]} \cup
             IF active THEN {[Idle EXCEPT !.op = "createOther", !.client = TRUE]} ELSE {}

\* _load_extractable_draft and what is read with it, without a lock.
Extractions ==
  {[Idle EXCEPT !.op = "extract", !.ver = v, !.title = vacancy.title,
                !.seen = Signature(version[v]),
                !.cached = Cached(vacancy.title)] : v \in Drafts}

Pages == Creations \cup
         IF Visible THEN Edits \cup Reviews \cup RuleAdditions \cup RuleChanges
                           \cup RuleDeletions \cup Confirmations \cup Copies
                           \cup StatusChanges \cup Deletions \cup Retitles
                           \cup Extractions
         ELSE {}

Ask(r) ==
  /\ req[r] = Idle /\ asked < MaxAsk
  /\ \E q \in Pages \cup CompanyChanges \cup Elsewhere :
       req' = [req EXCEPT ![r] =
         [q EXCEPT !.stage = IF q.op = "extract" /\ q.cached = None
                               THEN "calling" ELSE "asked"]]
  /\ asked' = asked + 1
  /\ UNCHANGED <<tables, held>>

AnswerArrives(r) ==
  /\ req[r].stage = "calling"
  /\ \E a \in Answer :
       req' = [req EXCEPT ![r].stage = "asked", ![r].form = a]
  /\ UNCHANGED <<tables, held, asked>>

-----------------------------------------------------------------------------
(* Locks, in the order the statements take them; select_related locks the  *)
(* joined rows after the row itself.                                       *)

VersionRow(q) == {<<"version", q.ver>>}
VacancyRow == {<<"vacancy">>}
RuleThere(q) == \E x \in version[q.ver].rules : x.id = q.rule
DetailRows(q) ==
  <<VacancyRow, {<<"organization">>},
    IF vacancy.client \/ q.client THEN {<<"client">>} ELSE {}>>
OrphanRows(q) == {<<"rule", q.ver, x.id>> :
                    x \in Orphaned(version[q.ver], q.form, q.picked)}
\* Mutant: a rule is added without a lock on its version.
AddRuleWithoutLock(q) == <<>>
AddRuleRows(q) == <<VersionRow(q)>>
\* Mutant: a rule is changed under a lock on the rule alone.
RuleRowAlone(q) ==
  IF RuleThere(q) THEN <<{<<"rule", q.ver, q.rule>>}>> ELSE <<>>
RuleRows(q) ==
  IF RuleThere(q) THEN <<{<<"rule", q.ver, q.rule>>}, VersionRow(q), VacancyRow>>
  ELSE <<>>
\* Mutant: who opens the vacancy locks it first.
OpenFirstRows(q) ==
  IF q.go THEN <<VacancyRow, VersionRow(q)>> ELSE <<VersionRow(q)>>
ConfirmRows(q) ==
  <<VersionRow(q),
    IF q.stage = "checked" /\ q.go /\ ~q.open THEN VacancyRow ELSE {}>>

Plan(q) ==
  LET checked == q.stage = "checked"
  IN CASE q.op \in {"create", "createOther"} -> <<IF q.client THEN {<<"client">>} ELSE {}>>
       [] q.op = "edit" -> <<VersionRow(q),
                             IF checked THEN OrphanRows(q) ELSE {}>>
       [] q.op = "save" -> <<VersionRow(q)>>
       [] q.op = "review" -> <<VersionRow(q)>> \o
            IF checked THEN DetailRows(q) \o <<OrphanRows(q)>> ELSE <<>>
       [] q.op = "addRule" -> AddRuleRows(q)
       [] q.op \in {"setRule", "dropRule"} -> RuleRows(q)
       [] q.op = "confirm" -> ConfirmRows(q)
       [] q.op \in {"copy", "status", "delete"} -> <<VacancyRow>>
       [] q.op = "retitle" -> DetailRows(q)
       [] q.op = "retitleOther" -> <<{<<"organization">>}, {<<"client">>}>>
       [] q.op = "company" -> <<{<<"client">>}, {<<"organization">>}>>
       [] q.op = "extract" -> <<VersionRow(q), VacancyRow>>

NextRows(r) ==
  LET plan == Plan(req[r])
      open == {i \in DOMAIN plan : ~(plan[i] \subseteq held[r])}
  IN IF open = {} THEN {}
     ELSE plan[CHOOSE i \in open : \A j \in open : i <= j] \ held[r]

Free(row) == \A r \in Web : row \notin held[r]
Running(r) == req[r].stage \in {"asked", "checked"}
AtCommit(r) == req[r].stage = "checked" /\ NextRows(r) = {}

\* The commit checks the foreign keys of the rows it inserts and shares the rows
\* they name: a vacancy, an audit event and a skill that was not known before
\* name the organization.
Inserts == {"create", "createOther", "delete"}
MayInsert == {"edit", "save", "review", "extract"}
ShareRows(r) == IF req[r].op \in Inserts \cup MayInsert THEN {<<"organization">>} ELSE {}
Shares(r) == req[r].op \in Inserts => \A s \in Web \ {r} : ShareRows(r) \cap held[s] = {}

\* Requests that may wait for one another.
Blocks(s, r) ==
  \/ /\ Running(r) /\ NextRows(r) # {}
     /\ \A row \in NextRows(r) : ~Free(row)
     /\ NextRows(r) \cap held[s] # {}
  \/ s # r /\ AtCommit(r) /\ ShareRows(r) \cap held[s] # {}
Deadlocked(S) == S # {} /\ \A r \in S : \E s \in S : Blocks(s, r)

Lock(r) ==
  /\ Running(r)
  /\ \E row \in NextRows(r) :
       Free(row) /\ held' = [held EXCEPT ![r] = @ \cup {row}]
  /\ UNCHANGED <<tables, req, asked>>

-----------------------------------------------------------------------------
(* The checks, and the transactions they let through.                      *)

Transition == [draft |-> {"open"}, open |-> {"paused", "closed"},
               paused |-> {"open", "closed"}, closed |-> {"open"}]

\* change_vacancy_status
MayBecome(s) == /\ ~vacancy.deleted /\ s \in Transition[vacancy.status]
                /\ s = "open" => Confirmed # {}

Openable == ~vacancy.deleted /\ "open" \in Transition[vacancy.status]

\* update_vacancy_details
DetailsFit(q) == ~vacancy.deleted /\ (q.client => active \/ vacancy.client)

\* Values that an extraction leaves in the draft.
Suggested(q) == IF q.cached # None THEN q.cached.values
                ELSE IF Cached(q.title) # None THEN Cached(q.title).values
                ELSE Grounded(q.form, vacancy.title)

\* confirm_requirements_draft
Confirmable(v) == Meaningful(v.values) /\ Valid(Filled(v, v.values))

\* Mutant: a draft that was edited does not count as the existing draft.
NoPristineDraft == \A v \in Drafts : Meaningful(version[v].values)
NoDraft == Drafts = {}

Passes(q) ==
  LET v == version[q.ver]
      draft == v.status = "draft"
  IN CASE q.op = "create" -> ~Exists /\ (q.client => active)
       [] q.op = "edit" ->
            /\ draft /\ ~vacancy.deleted
            /\ Valid(Synced(v, q.form, q.picked))
            /\ q.val # None => Fits(LinksOf(q.form), q.val)
       [] q.op = "save" -> draft /\ ~vacancy.deleted /\ Valid(Filled(v, q.form))
       [] q.op = "review" -> draft /\ ~vacancy.deleted
       [] q.op = "addRule" -> draft /\ Fits(v.links, q.val)
       [] q.op = "setRule" -> RuleThere(q) /\ draft /\ Fits(v.links, q.val)
       [] q.op = "dropRule" -> RuleThere(q) /\ draft
       [] q.op = "confirm" -> draft /\ ~vacancy.deleted /\ Confirmable(v)
       [] q.op = "copy" -> ~vacancy.deleted /\ NoDraft
       [] q.op = "status" -> MayBecome(q.status)
       [] q.op = "delete" -> ~vacancy.deleted
       [] q.op = "retitle" -> DetailsFit(q)
       [] q.op \in {"company", "retitleOther"} -> TRUE
       [] q.op = "createOther" -> active
       [] q.op = "extract" ->
            /\ ~vacancy.deleted /\ Signature(v) = q.seen
            /\ Valid(Filled(v, Suggested(q)))

Check(r) ==
  /\ req[r].stage = "asked" /\ NextRows(r) = {} /\ Passes(req[r])
  /\ req' = [req EXCEPT ![r].stage = "checked",
                        ![r].open = vacancy.status = "open",
                        ![r].ver = IF req[r].op = "copy"
                                     THEN Greatest(Versions) + 1 ELSE @]
  /\ UNCHANGED <<tables, held, asked>>

\* A refusal, an error, a lost deadlock or the end of the process.
Abort(r) ==
  /\ req[r] # Idle
  /\ req' = [req EXCEPT ![r] = Idle] /\ held' = [held EXCEPT ![r] = {}]
  /\ UNCHANGED <<tables, asked>>

Ready(r, ops) == req[r].op \in ops /\ AtCommit(r)
End(r) == /\ req' = [req EXCEPT ![r] = Idle]
          /\ held' = [held EXCEPT ![r] = {}]
          /\ UNCHANGED asked
\* The number of the last rule, counting those in v.
Last(v) == LET ids == {minted} \cup {x.id[1] : x \in v.rules}
           IN CHOOSE n \in ids : \A k \in ids : k <= n
WithRule(v, val) ==
  [v EXCEPT !.rules = @ \cup {[id |-> <<Last(v) + 1, val>>, val |-> val]}]
Write(n, v) == /\ Last(v) <= MaxRule
               /\ version' = [version EXCEPT ![n] = v]
               /\ minted' = Last(v)

CommitCreate(r) ==
  /\ Ready(r, {"create"}) /\ Shares(r) /\ ~Exists
  /\ vacancy' = [status |-> "draft", deleted |-> FALSE,
                 title |-> req[r].title, client |-> req[r].client]
  /\ Write(1, Blank(Draft0, "draft"))
  /\ End(r) /\ UNCHANGED active

\* requirements_edit, with or without the eligibility controls.
CommitEdit(r) ==
  /\ Ready(r, {"edit", "save"})
  /\ LET q == req[r]
         v == version[q.ver]
         synced == Synced(v, q.form, q.picked)
     IN Write(q.ver, CASE q.op = "save" -> Filled(v, q.form)
                       [] q.op = "edit" /\ q.val = None -> synced
                       [] q.op = "edit" /\ q.val # None -> WithRule(synced, q.val))
  /\ End(r) /\ UNCHANGED <<vacancy, active>>

\* requirements_review: the draft, the details of the vacancy, the rules, and
\* perhaps the confirmation.  When a rule is to be added and the details are
\* refused, the draft has been saved all the same, its rules unchecked.
CommitReview(r) ==
  /\ Ready(r, {"review"})
  /\ LET q == req[r]
         v == version[q.ver]
         synced == Synced(v, q.form, q.picked)
     IN \/ /\ DetailsFit(q) /\ Valid(synced) /\ q.val = None
           /\ q.go => Meaningful(q.form)
           /\ Write(q.ver, IF q.go THEN [synced EXCEPT !.status = "confirmed"]
                           ELSE synced)
           /\ vacancy' = [vacancy EXCEPT !.title = q.title, !.client = q.client,
                                         !.status = IF q.go THEN "open" ELSE @]
        \/ /\ DetailsFit(q) /\ Valid(synced) /\ q.val # None
           /\ Fits(synced.links, q.val)
           /\ Write(q.ver, WithRule(synced, q.val))
           /\ vacancy' = [vacancy EXCEPT !.title = q.title, !.client = q.client]
        \/ /\ ~DetailsFit(q) /\ q.val # None
           /\ Write(q.ver, Filled(v, q.form))
           /\ UNCHANGED vacancy
  /\ End(r) /\ UNCHANGED active

CommitRule(r) ==
  /\ Ready(r, {"addRule", "setRule", "dropRule"})
  /\ LET q == req[r]
         v == version[q.ver]
         others == {x \in v.rules : x.id # q.rule}
     IN Write(q.ver,
          CASE q.op = "addRule" -> WithRule(v, q.val)
            [] q.op = "setRule" -> [v EXCEPT !.rules = others \cup
                                      {[id |-> q.rule, val |-> q.val]}]
            [] q.op = "dropRule" -> [v EXCEPT !.rules = others])
  /\ End(r) /\ UNCHANGED <<vacancy, active>>

\* confirm_requirements_draft, confirm_requirements_and_open_vacancy: a vacancy
\* found open is left alone, any other is locked and opened.
CommitConfirm(r) ==
  /\ Ready(r, {"confirm"})
  /\ LET q == req[r]
         v == version[q.ver]
     IN /\ Write(q.ver, [Filled(v, v.values) EXCEPT !.status = "confirmed"])
        /\ IF q.go /\ ~q.open
             THEN /\ Openable
                  /\ vacancy' = [vacancy EXCEPT !.status = "open"]
             ELSE UNCHANGED vacancy
  /\ End(r) /\ UNCHANGED active

\* create_next_requirements_draft: a copy of the current version under the next
\* number, which is unique.
CommitCopy(r) ==
  /\ Ready(r, {"copy"})
  /\ req[r].ver <= MaxVersion /\ req[r].ver \notin Versions
  /\ Write(req[r].ver, [Blank(Base.values, "draft") EXCEPT !.rules = Base.rules])
  /\ End(r) /\ UNCHANGED <<vacancy, active>>

CommitVacancy(r) ==
  /\ Ready(r, {"status", "delete", "retitle"}) /\ Shares(r)
  /\ LET q == req[r]
     IN vacancy' =
          CASE q.op = "status" -> [vacancy EXCEPT !.status = q.status]
            [] q.op = "delete" -> [vacancy EXCEPT !.status = "closed",
                                                  !.deleted = TRUE]
            [] q.op = "retitle" -> [vacancy EXCEPT !.title = q.title,
                                                   !.client = q.client]
  /\ End(r) /\ UNCHANGED <<active, version, minted>>

CommitCompany(r) ==
  /\ Ready(r, {"company"})
  /\ active' = ~active
  /\ End(r) /\ UNCHANGED <<vacancy, version, minted>>

\* The rows of another vacancy are not modelled.
CommitElsewhere(r) ==
  /\ Ready(r, {"createOther", "retitleOther"}) /\ Shares(r)
  /\ End(r) /\ UNCHANGED tables

\* extract_vacancy_requirements: the suggestions go into the draft as it was
\* when the service was asked; the snapshot is filed under the old source.
CommitExtract(r) ==
  /\ Ready(r, {"extract"})
  /\ LET q == req[r]
         values == Suggested(q)
     IN Write(q.ver, [Filled(version[q.ver], values) EXCEPT
                        !.snapshot = [title |-> q.title, values |-> values]])
  /\ End(r) /\ UNCHANGED <<vacancy, active>>

-----------------------------------------------------------------------------
Init ==
  /\ vacancy = [status |-> "none", deleted |-> FALSE, title |-> None,
                client |-> FALSE]
  /\ active = TRUE
  /\ version = [v \in Version |-> Blank(Nothing, "none")]
  /\ minted = 0
  /\ held = [r \in Web |-> {}]
  /\ req = [r \in Web |-> Idle]
  /\ asked = 0

Commit(r) == \/ CommitCreate(r) \/ CommitEdit(r) \/ CommitReview(r)
             \/ CommitRule(r) \/ CommitConfirm(r) \/ CommitCopy(r)
             \/ CommitVacancy(r) \/ CommitCompany(r) \/ CommitExtract(r)
             \/ CommitElsewhere(r)

Next == \E r \in Web : \/ Ask(r) \/ AnswerArrives(r) \/ Lock(r) \/ Check(r)
                       \/ Commit(r) \/ Abort(r)

Spec == Init /\ [][Next]_vars

-----------------------------------------------------------------------------
(* Properties. *)

TypeOK ==
  /\ vacancy \in [status : {"none", "draft", "open", "paused", "closed"},
                  deleted : BOOLEAN, title : Title \cup {None},
                  client : BOOLEAN]
  /\ active \in BOOLEAN
  /\ version \in [Version -> Requirement]
  /\ minted \in 0..MaxRule
  /\ \A r \in Web : held[r] # {} => Running(r)
  /\ \A r, s \in Web : r # s => held[r] \cap held[s] = {}
  /\ asked \in 0..MaxAsk

\* create_next_requirements_draft: a vacancy has one draft at most, and it is
\* the newest version, also when two recruiters ask for one while a third
\* confirms the last.
OneDraft == \A v \in Drafts : v = Greatest(Versions)

\* confirm_requirements_draft: what was confirmed says something, its links are
\* those of its skill lists, and every rule requires a must-have skill, however
\* edits, rule changes and suggestions interleave.
ConfirmedIsSound ==
  \A v \in Confirmed : /\ Meaningful(version[v].values)
                       /\ version[v].links = LinksOf(version[v].values)
                       /\ Valid(version[v])

\* change_vacancy_status, delete_vacancy: an open vacancy has a confirmed
\* version, a deleted one stays closed.
OpenIsConfirmed == /\ vacancy.status \in {"open", "paused"} => Confirmed # {}
                   /\ vacancy.deleted => vacancy.status = "closed"

\* These take a row that others lock later: rule before version, company before
\* organization, or client company before what the new vacancy names.
OutOfOrder(r) == \/ req[r].op \in {"setRule", "dropRule", "company"}
                 \/ req[r].op \in {"create", "createOther"} /\ AtCommit(r)

\* Requests on vacancies and their versions deadlock only when one of them edits
\* a rule or the state of the client company, or is about to commit a new
\* vacancy: what the others lock, and share when they commit, is in one order.
DeadlockNeedsOutOfOrder ==
  \A S \in SUBSET Web : Deadlocked(S) => \E r \in S : OutOfOrder(r)

\* A confirmed version, its links and its rules never change again.
ConfirmedIsFrozen ==
  [][\A v \in Confirmed : version'[v] = version[v]]_vars

=============================================================================
