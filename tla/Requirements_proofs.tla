------------------------- MODULE Requirements_proofs -------------------------
(***************************************************************************)
(* Theorems about Requirements, for any skills, facts, forms, answers of   *)
(* the AI service, requests and bounds.                                    *)
(***************************************************************************)
EXTENDS Requirements, TLAPS

-----------------------------------------------------------------------------
(* The inductive invariant. *)

\* Rows are records with their fields; what the fields hold does not matter here.
IsVacancy(x) ==
  /\ x = [status |-> x.status, deleted |-> x.deleted, title |-> x.title, client |-> x.client]
  /\ x.status \in {"none", "draft", "open", "paused", "closed"}
IsVersion(x) ==
  x = [status |-> x.status, values |-> x.values, links |-> x.links,
       rules |-> x.rules, snapshot |-> x.snapshot]
IsRequest(x) ==
  x = [op |-> x.op, stage |-> x.stage, ver |-> x.ver, form |-> x.form,
       picked |-> x.picked, rule |-> x.rule, val |-> x.val, title |-> x.title,
       client |-> x.client, status |-> x.status, go |-> x.go,
       seen |-> x.seen, cached |-> x.cached, open |-> x.open]
Shape ==
  /\ IsVacancy(vacancy)
  /\ version = [v \in Version |-> version[v]]
  /\ \A v \in Version : IsVersion(version[v])
  /\ held = [r \in Web |-> held[r]]
  /\ req = [r \in Web |-> req[r]]
  /\ \A r \in Web : IsRequest(req[r])

\* A row lock has one holder.
Apart == \A r, s \in Web : r # s => held[r] \cap held[s] = {}

\* Versions are numbered from 1 without gaps once the vacancy exists, and the
\* draft, if there is one, is the last.
Numbered ==
  /\ ~Exists => Versions = {}
  /\ Exists => \E n \in Version : Versions = 1..n
Newest == \A v \in Drafts, w \in Versions : w <= v

\* The operations on one version, and those on the vacancy alone.
OnVersion == {"edit", "save", "review", "addRule", "setRule", "dropRule",
              "confirm", "extract"}
OnVacancy == {"copy", "status", "delete", "retitle"}

\* Only what exists is asked for.
Founded(q) ==
  /\ q.ver \in Nat
  /\ q.op \in OnVersion \cup OnVacancy => Exists
  /\ q.op \in OnVersion => q.ver \in Version
  /\ q.op = "status" => q.status \in {"open", "paused", "closed"}
  /\ q.op = "extract" => q.seen.status = "draft"
Asked == \A r \in Web : Founded(req[r])

\* What a request has checked stands until it commits, since it holds the row.
Stands(r) ==
  LET q == req[r]
  IN /\ q.op \in OnVersion => <<"version", q.ver>> \in held[r] /\ q.ver \in Drafts
     /\ q.op \in OnVacancy => <<"vacancy">> \in held[r]
     /\ q.op = "copy" =>
          Drafts = {} /\ \E n \in Version : Versions = 1..n /\ q.ver = n + 1
     /\ q.op = "confirm" => Confirmable(version[q.ver])
     /\ q.op = "status" =>
          ~vacancy.deleted /\ (q.status \in {"open", "paused"} => Confirmed # {})
Standing == \A r \in Web : req[r].stage = "checked" => Stands(r)

VacancyInv ==
  /\ Shape /\ Apart /\ Numbered /\ Newest /\ Asked /\ Standing
  /\ ConfirmedIsSound /\ OpenIsConfirmed

-----------------------------------------------------------------------------
(* What the pages post. *)

Posts(q, op, v) == IsRequest(q) /\ q.op = op /\ q.ver = v

\* What the forms post.
LEMMA FormsPost ==
  ASSUME NEW q, NEW op, NEW v, NEW c, NEW p, NEW x, NEW id, NEW d, NEW y
  PROVE  /\ q = Post(op, v, c, p, x) => Posts(q, op, v)
         /\ q = PostRule(op, v, id, x) => Posts(q, op, v)
         /\ q = PostDetails(op, d) => Posts(q, op, 1)
         /\ q = PostReview(v, c, x, d) => Posts(q, "review", v)
         /\ q = Opening(y) /\ Posts(y, op, v) => Posts(q, op, v)
<1>1. ASSUME q = Post(op, v, c, p, x) PROVE Posts(q, op, v)
  BY <1>1 DEF Posts, IsRequest, Idle, Post
<1>2. ASSUME q = PostRule(op, v, id, x) PROVE Posts(q, op, v)
  BY <1>2 DEF Posts, IsRequest, Idle, PostRule
<1>3. ASSUME q = PostDetails(op, d) PROVE Posts(q, op, 1)
  BY <1>3 DEF Posts, IsRequest, Idle, PostDetails
<1>4. ASSUME q = PostReview(v, c, x, d) PROVE Posts(q, "review", v)
  BY <1>4 DEF Posts, IsRequest, Idle, PostReview
<1>5. ASSUME q = Opening(y), Posts(y, op, v) PROVE Posts(q, op, v)
  BY <1>5 DEF Posts, IsRequest, Opening
<1> QED
  BY <1>1, <1>2, <1>3, <1>4, <1>5

\* What the review page posts.
LEMMA ReviewsPost ==
  ASSUME NEW q \in Reviews
  PROVE  \E v \in Drafts : Posts(q, "review", v)
<1>1. PICK v \in Drafts : \E c, x, d :
        q \in {PostReview(v, c, x, d), Opening(PostReview(v, c, None, d))}
  BY DEF Reviews
<1> QED
  BY <1>1, FormsPost

\* What the pages of other vacancies post.
LEMMA ElsewherePosts ==
  ASSUME NEW q \in Elsewhere
  PROVE  IsRequest(q) /\ q.op \in {"createOther", "retitleOther"} /\ q.ver = 1
<1>1. PICK op \in {"createOther", "retitleOther"} : q = [Idle EXCEPT !.op = op, !.client = TRUE]
  BY DEF Elsewhere
<1> QED
  BY <1>1 DEF Idle, IsRequest

\* What pages ask for is about a version that exists.
LEMMA PagesAsk ==
  ASSUME Numbered, NEW q \in Pages \cup CompanyChanges \cup Elsewhere
  PROVE  IsRequest(q) /\ Founded(q)
<1>1. ASSUME NEW v \in Drafts PROVE Exists /\ v \in Version /\ v \in Nat
  BY <1>1 DEF Numbered, Versions, Drafts, Version
<1>2. ASSUME NEW v \in Drafts, NEW op \in OnVersion \ {"extract"}, Posts(q, op, v)
      PROVE  IsRequest(q) /\ Founded(q)
  BY <1>1, <1>2 DEF Posts, Founded, OnVersion
<1>3. CASE q \in CompanyChanges \cup Elsewhere
  <2>1. CASE q \in CompanyChanges
    BY <2>1 DEF CompanyChanges, IsRequest, Founded, Idle, OnVersion, OnVacancy
  <2>2. CASE q \in Elsewhere
    BY <2>2, ElsewherePosts DEF Founded, OnVersion, OnVacancy
  <2> QED
    BY <1>3, <2>1, <2>2
<1>4. CASE q \in Creations
  <2>1. Posts(q, "create", 1)
    BY <1>4, FormsPost DEF Creations
  <2> QED
    BY <2>1 DEF Posts, Founded, OnVersion, OnVacancy
<1>5. CASE q \in Edits
  <2>1. PICK v \in Drafts : \E c, p, x : q = Post("edit", v, c, p, x) \/ q = Post("save", v, c, p, x)
    BY <1>5 DEF Edits
  <2>2. Posts(q, "edit", v) \/ Posts(q, "save", v)
    BY <2>1, FormsPost
  <2> QED
    BY <1>2, <2>2 DEF OnVersion
<1>6. CASE q \in Reviews
  <2>1. PICK v \in Drafts : Posts(q, "review", v)
    BY <1>6, ReviewsPost
  <2> QED
    BY <1>2, <2>1 DEF OnVersion
<1>7. CASE q \in RuleAdditions
  <2>1. PICK v \in Drafts : Posts(q, "addRule", v)
    BY <1>7, FormsPost DEF RuleAdditions
  <2> QED
    BY <1>2, <2>1 DEF OnVersion
<1>8. CASE q \in RuleChanges
  <2>1. PICK v \in Drafts : \E id, x : q = PostRule("setRule", v, id, x)
    BY <1>8 DEF RuleChanges
  <2>2. Posts(q, "setRule", v)
    BY <2>1, FormsPost
  <2> QED
    BY <1>2, <2>2 DEF OnVersion
<1>9. CASE q \in RuleDeletions
  <2>1. PICK v \in Drafts : Posts(q, "dropRule", v)
    BY <1>9, FormsPost DEF RuleDeletions
  <2> QED
    BY <1>2, <2>1 DEF OnVersion
<1>10. CASE q \in Confirmations
  <2> DEFINE confirm(v) == Post("confirm", v, Nothing, {}, None)
  <2>1. PICK v \in Drafts : q = confirm(v) \/ q = Opening(confirm(v))
    BY <1>10 DEF Confirmations
  <2>2. Posts(q, "confirm", v)
    BY <2>1, FormsPost
  <2> QED
    BY <1>2, <2>2 DEF OnVersion
<1>11. CASE q \in Extractions
  <2>1. PICK v \in Drafts : \E t, seen, found :
          /\ q = [Idle EXCEPT !.op = "extract", !.ver = v, !.title = t,
                              !.seen = seen, !.cached = found]
          /\ seen = Signature(version[v])
    BY <1>11 DEF Extractions
  <2>2. PICK t, seen, found :
          /\ q = [Idle EXCEPT !.op = "extract", !.ver = v, !.title = t,
                              !.seen = seen, !.cached = found]
          /\ seen = Signature(version[v])
    BY <2>1
  <2>3. IsRequest(q) /\ q.op = "extract" /\ q.ver = v /\ q.seen = seen
    BY <2>2 DEF Idle, IsRequest
  <2>4. seen.status = "draft"
    BY <2>2 DEF Signature, Drafts
  <2> QED
    BY <1>1, <2>3, <2>4 DEF Founded, OnVersion
<1>12. CASE Visible /\ q \in Retitles
  <2>1. Posts(q, "retitle", 1)
    BY <1>12, FormsPost DEF Retitles
  <2> QED
    BY <1>12, <2>1 DEF Posts, Founded, Visible, OnVersion
<1>13. CASE Visible /\ q \in Copies \cup StatusChanges \cup Deletions
  <2>1. CASE q \in Copies \cup Deletions
    BY <1>13, <2>1 DEF Copies, Deletions, Visible, IsRequest, Founded, Idle, OnVersion
  <2>2. CASE q \in StatusChanges
    <3>1. PICK t \in {"open", "paused", "closed"} : q = [Idle EXCEPT !.op = "status", !.status = t]
      BY <2>2 DEF StatusChanges
    <3>2. /\ IsRequest(q) /\ q.op = "status" /\ q.ver = 1
          /\ q.status \in {"open", "paused", "closed"}
      BY <3>1 DEF Idle, IsRequest
    <3> QED
      BY <1>13, <3>2 DEF Visible, Founded, OnVersion
  <2> QED
    BY <1>13, <2>1, <2>2
<1> QED
  BY <1>3, <1>4, <1>5, <1>6, <1>7, <1>8, <1>9, <1>10, <1>11, <1>12, <1>13 DEF Pages

-----------------------------------------------------------------------------
(* Steps that leave the vacancy and its versions alone. *)

\* A request that changes on its own.
LEMMA RequestStep ==
  ASSUME VacancyInv, NEW r \in Web, NEW q,
         UNCHANGED <<vacancy, version, held>>,
         req' = [req EXCEPT ![r] = q],
         IsRequest(q), Founded(q), q.stage = "checked" => Stands(r)'
  PROVE  VacancyInv'
<1>1. req'[r] = q /\ \A s \in Web \ {r} : req'[s] = req[s]
  BY DEF VacancyInv, Shape
<1>2. Shape'
  <2>1. req' = [s \in Web |-> req'[s]]
    BY DEF VacancyInv, Shape
  <2>2. \A s \in Web : IsRequest(req'[s])
    BY <1>1 DEF VacancyInv, Shape
  <2> QED
    BY <2>1, <2>2 DEF VacancyInv, Shape, IsVacancy, IsVersion, IsRequest
<1>3. Apart' /\ Numbered' /\ Newest' /\ ConfirmedIsSound' /\ OpenIsConfirmed'
  BY DEF VacancyInv, Apart, Numbered, Newest, ConfirmedIsSound, OpenIsConfirmed,
         Exists, Versions, Drafts, Confirmed
<1>4. Asked'
  <2>1. \A s \in Web : Founded(req[s])
    BY DEF VacancyInv, Asked
  <2> SUFFICES ASSUME NEW s \in Web PROVE Founded(req[s])'
    BY DEF Asked
  <2> QED
    BY <1>1, <2>1 DEF Founded, Exists
<1>5. Standing'
  <2> SUFFICES ASSUME NEW s \in Web, req'[s].stage = "checked" PROVE Stands(s)'
    BY DEF Standing
  <2>1. CASE s = r
    BY <1>1, <2>1
  <2>2. CASE s # r
    <3>1. Stands(s) /\ req'[s] = req[s]
      BY <1>1, <2>2 DEF VacancyInv, Standing
    <3> QED
      BY <3>1 DEF Stands, Drafts, Confirmed, Versions
  <2> QED
    BY <2>1, <2>2
<1> QED
  BY <1>2, <1>3, <1>4, <1>5 DEF VacancyInv

\* Locking a free row adds it to what is held.
LEMMA LockStep ==
  ASSUME VacancyInv, NEW r \in Web, NEW row, Free(row),
         held' = [held EXCEPT ![r] = @ \cup {row}],
         UNCHANGED <<vacancy, version, req>>
  PROVE  VacancyInv'
<1>1. /\ held' = [s \in Web |-> held'[s]]
      /\ held'[r] = held[r] \cup {row} /\ \A s \in Web \ {r} : held'[s] = held[s]
  BY DEF VacancyInv, Shape
<1>2. Shape'
  BY <1>1 DEF VacancyInv, Shape, IsVacancy, IsVersion, IsRequest
<1>3. Apart'
  BY <1>1 DEF VacancyInv, Apart, Free
<1>4. /\ Numbered' /\ Newest' /\ Asked' /\ ConfirmedIsSound' /\ OpenIsConfirmed'
  BY DEF VacancyInv, Numbered, Newest, Asked, Founded, ConfirmedIsSound,
         OpenIsConfirmed, Exists, Versions, Drafts, Confirmed
<1>5. Standing'
  <2> SUFFICES ASSUME NEW s \in Web, req[s].stage = "checked" PROVE Stands(s)'
    BY DEF Standing
  <2>1. Stands(s) /\ held[s] \subseteq held'[s]
    BY <1>1 DEF VacancyInv, Standing
  <2> QED
    BY <2>1 DEF Stands, Drafts, Confirmed, Versions
<1> QED
  BY <1>2, <1>3, <1>4, <1>5 DEF VacancyInv

-----------------------------------------------------------------------------
(* The end of a request: its rows are released. *)

Ends(r) == /\ req' = [req EXCEPT ![r] = Idle]
           /\ held' = [held EXCEPT ![r] = {}]

\* A request that ends holds nothing and leaves the others.
LEMMA Release ==
  ASSUME VacancyInv, NEW r \in Web, Ends(r), Exists => Exists'
  PROVE  /\ held' = [s \in Web |-> held'[s]] /\ req' = [s \in Web |-> req'[s]]
         /\ \A s \in Web : IsRequest(req'[s])
         /\ Apart' /\ Asked'
         /\ req'[r] = Idle
         /\ \A s \in Web \ {r} : req'[s] = req[s] /\ held'[s] = held[s]
         /\ (\A s \in Web \ {r} : req[s].stage = "checked" => Stands(s)') => Standing'
<1>1. /\ held' = [s \in Web |-> held'[s]] /\ req' = [s \in Web |-> req'[s]]
      /\ req'[r] = Idle /\ held'[r] = {}
      /\ \A s \in Web \ {r} : req'[s] = req[s] /\ held'[s] = held[s]
  BY DEF VacancyInv, Shape, Ends
<1>2. \A s \in Web : IsRequest(req'[s])
  <2> SUFFICES ASSUME NEW s \in Web PROVE IsRequest(req'[s])
    OBVIOUS
  <2>1. CASE s = r
    BY <1>1, <2>1 DEF Idle, IsRequest
  <2>2. CASE s # r
    BY <1>1, <2>2 DEF VacancyInv, Shape
  <2> QED
    BY <2>1, <2>2
<1>3. Apart'
  BY <1>1 DEF VacancyInv, Apart
<1>4. Asked'
  <2>1. \A s \in Web : Founded(req[s])
    BY DEF VacancyInv, Asked
  <2> SUFFICES ASSUME NEW s \in Web PROVE Founded(req[s])'
    BY DEF Asked
  <2>2. CASE s = r
    BY <1>1, <2>2 DEF Idle, Founded, OnVersion, OnVacancy
  <2>3. CASE s # r
    BY <1>1, <2>1, <2>3 DEF Founded
  <2> QED
    BY <2>2, <2>3
<1>5. ASSUME \A s \in Web \ {r} : req[s].stage = "checked" => Stands(s)' PROVE Standing'
  BY <1>1, <1>5 DEF Standing, Idle
<1> QED
  BY <1>1, <1>2, <1>3, <1>4, <1>5

\* A request that ends without writing.
LEMMA EndStep ==
  ASSUME VacancyInv, NEW r \in Web, Ends(r), UNCHANGED <<vacancy, version>>
  PROVE  VacancyInv'
<1>0. Exists => Exists'
  BY DEF Exists
<1>1. Shape' /\ Apart' /\ Asked'
  <2>1. /\ held' = [s \in Web |-> held'[s]] /\ req' = [s \in Web |-> req'[s]]
        /\ \A s \in Web : IsRequest(req'[s])
    BY <1>0, Release
  <2>2. IsVacancy(vacancy) /\ \A v \in Version : IsVersion(version[v])
    BY DEF VacancyInv, Shape
  <2>3. Shape'
    <3>1. version' = [v \in Version |-> version'[v]]
      BY DEF VacancyInv, Shape
    <3>2. \A s \in Web : IsRequest(req[s])'
      BY <2>1 DEF IsRequest
    <3>3. IsVacancy(vacancy)' /\ \A v \in Version : IsVersion(version[v])'
      BY <2>2 DEF IsVacancy, IsVersion
    <3> QED
      BY <2>1, <3>1, <3>2, <3>3 DEF Shape
  <2>4. Apart' /\ Asked'
    BY <1>0, Release
  <2> QED
    BY <2>3, <2>4
<1>2. Numbered' /\ Newest' /\ ConfirmedIsSound' /\ OpenIsConfirmed'
  BY DEF VacancyInv, Numbered, Newest, ConfirmedIsSound, OpenIsConfirmed,
         Exists, Versions, Drafts, Confirmed
<1>3. \A s \in Web \ {r} : req[s].stage = "checked" => Stands(s)'
  <2> SUFFICES ASSUME NEW s \in Web \ {r}, req[s].stage = "checked" PROVE Stands(s)'
    OBVIOUS
  <2>1. Stands(s) /\ req'[s] = req[s] /\ held'[s] = held[s]
    BY <1>0, Release DEF VacancyInv, Standing
  <2> QED
    BY <2>1 DEF Stands, Drafts, Confirmed, Versions
<1> QED
  BY <1>1, <1>2, <1>0, <1>3, Release DEF VacancyInv

-----------------------------------------------------------------------------
(* Transactions that write one version. *)

\* What may be written over a draft: a draft, or a sound confirmed version.
Sound(x) == /\ Meaningful(x.values) /\ x.links = LinksOf(x.values) /\ Valid(x)
Writable(x) == /\ IsVersion(x) /\ x.status \in {"draft", "confirmed"}
               /\ x.status = "confirmed" => Sound(x)

\* The vacancy afterwards: deleted or not as before; open with a confirmation.
Kept(x) ==
  /\ IsVacancy(vacancy') /\ vacancy'.deleted = vacancy.deleted
  /\ \/ vacancy'.status = vacancy.status
     \/ x.status = "confirmed" /\ vacancy'.status = "open" /\ ~vacancy.deleted

\* Two requests never hold the version, or the vacancy, at once.
LEMMA HoldersDiffer ==
  ASSUME VacancyInv, NEW r \in Web, NEW s \in Web, r # s,
         req[r].stage = "checked", req[s].stage = "checked"
  PROVE  /\ req[r].op \in OnVersion /\ req[s].op \in OnVersion
              => req[r].ver # req[s].ver
         /\ ~(req[r].op \in OnVacancy /\ req[s].op \in OnVacancy)
<1>1. \A t \in {r, s} :
        /\ req[t].op \in OnVersion => <<"version", req[t].ver>> \in held[t]
        /\ req[t].op \in OnVacancy => <<"vacancy">> \in held[t]
  BY DEF VacancyInv, Standing, Stands
<1>2. held[r] \cap held[s] = {}
  BY DEF VacancyInv, Apart
<1> QED
  BY <1>1, <1>2

\* The transactions that write one version: it is a draft, and its request
\* holds it.
LEMMA VersionStep ==
  ASSUME VacancyInv, NEW r \in Web, NEW x,
         req[r].op \in OnVersion, req[r].stage = "checked",
         Writable(x), Kept(x),
         version' = [version EXCEPT ![req[r].ver] = x], Ends(r)
  PROVE  VacancyInv' /\ \A v \in Confirmed : version'[v] = version[v]
<1> DEFINE n == req[r].ver
<1>1. n \in Drafts /\ n \in Version /\ Exists
  BY DEF VacancyInv, Standing, Stands, Asked, Founded, Drafts
<1>2. /\ version' = [v \in Version |-> version'[v]]
      /\ version'[n] = x /\ \A v \in Version \ {n} : version'[v] = version[v]
  BY <1>1 DEF VacancyInv, Shape
<1>3. \A v \in Confirmed : version'[v] = version[v]
  BY <1>1, <1>2 DEF Drafts, Confirmed
<1>4. Versions' = Versions /\ Confirmed \subseteq Confirmed' /\ Drafts' \subseteq Drafts
  BY <1>1, <1>2 DEF Versions, Drafts, Confirmed, Writable
<1>5. x.status = "confirmed" => Confirmed' # {}
  BY <1>1, <1>2 DEF Confirmed
<1>6. Exists'
  BY <1>1 DEF Kept, Exists
<1>7. Shape'
  <2>1. /\ held' = [s \in Web |-> held'[s]] /\ req' = [s \in Web |-> req'[s]]
        /\ \A s \in Web : IsRequest(req'[s])
    BY <1>6, Release
  <2>2. \A v \in Version : IsVersion(version'[v])
    BY <1>2 DEF Writable, VacancyInv, Shape
  <2> QED
    BY <2>1, <2>2, <1>2 DEF Kept, Shape, IsVacancy, IsVersion, IsRequest
<1>8. Numbered'
  BY <1>1, <1>4, <1>6 DEF VacancyInv, Numbered
<1>9. Newest'
  BY <1>4 DEF VacancyInv, Newest
<1>10. ConfirmedIsSound'
  <2>1. \A v \in Confirmed : Sound(version[v])
    BY DEF VacancyInv, ConfirmedIsSound, Sound
  <2> SUFFICES ASSUME NEW v \in Confirmed' PROVE Sound(version'[v])
    BY DEF ConfirmedIsSound, Sound, Meaningful, LinksOf, Valid, Fits
  <2> QED
    BY <1>2, <2>1 DEF Confirmed, Writable
<1>11. OpenIsConfirmed'
  BY <1>4, <1>5 DEF Kept, VacancyInv, OpenIsConfirmed
<1>12. \A s \in Web \ {r} : req[s].stage = "checked" => Stands(s)'
  <2> SUFFICES ASSUME NEW s \in Web \ {r}, req[s].stage = "checked" PROVE Stands(s)'
    OBVIOUS
  <2>1. Stands(s) /\ req'[s] = req[s] /\ held'[s] = held[s]
    BY <1>6, Release DEF VacancyInv, Standing
  <2>2. ASSUME req[s].op \in OnVersion
        PROVE  /\ req[s].ver \in Drafts' /\ version'[req[s].ver] = version[req[s].ver]
    <3>1. req[s].ver # n /\ req[s].ver \in Drafts
      BY <2>1, <2>2, HoldersDiffer DEF Stands
    <3> QED
      BY <3>1, <1>2 DEF Drafts
  <2>3. req[s].op # "copy"
    BY <1>1, <2>1 DEF Stands
  <2>4. req[s].op = "confirm" => Confirmable(version[req[s].ver])'
    BY <2>1, <2>2 DEF Stands, OnVersion, Confirmable, Meaningful, Valid, Filled, Fits, LinksOf
  <2> QED
    BY <1>4, <2>1, <2>2, <2>3, <2>4 DEF Stands, Kept
<1>13. Apart' /\ Asked'
  BY <1>6, Release
<1>14. Standing'
  BY <1>6, <1>12, Release
<1> QED
  BY <1>3, <1>7, <1>8, <1>9, <1>10, <1>11, <1>13, <1>14 DEF VacancyInv

\* The facts that a commit starts from.
LEMMA ReadyStands ==
  ASSUME VacancyInv, NEW r \in Web, NEW ops, Ready(r, ops), End(r)
  PROVE  /\ req[r].op \in ops /\ req[r].stage = "checked"
         /\ Stands(r) /\ Founded(req[r]) /\ IsRequest(req[r]) /\ Ends(r)
BY DEF VacancyInv, Standing, Asked, Shape, Ready, AtCommit, End, Ends

\* What fills a draft leaves a draft.
LEMMA FilledIsDraft ==
  ASSUME NEW v, NEW c, NEW rules, NEW x, NEW y, IsVersion(v), v.status = "draft",
         x = Filled(v, c), y = [x EXCEPT !.rules = rules]
  PROVE  \A z \in {x, y} :
           /\ IsVersion(z) /\ z.status = "draft"
           /\ z.values = c /\ z.links = LinksOf(c)
<1>1. IsVersion(x) /\ x.status = "draft" /\ x.values = c /\ x.links = LinksOf(c)
  BY DEF IsVersion, Filled
<1> QED
  BY <1>1 DEF IsVersion

\* A draft stays a draft when its rules change.
LEMMA RulesLeaveDraft ==
  ASSUME NEW v, NEW rules, NEW x, IsVersion(v), v.status = "draft",
         x = [v EXCEPT !.rules = rules]
  PROVE  Writable(x)
<1>1. IsVersion(x) /\ x.status = "draft"
  BY DEF IsVersion
<1> QED
  BY <1>1 DEF Writable

\* requirements_edit writes its draft only.
LEMMA EditWrites ==
  ASSUME VacancyInv, NEW r \in Web, CommitEdit(r)
  PROVE  VacancyInv' /\ \A v \in Confirmed : version'[v] = version[v]
<1> DEFINE q == req[r]
           v == version[q.ver]
<1>1. /\ q.op \in OnVersion /\ q.stage = "checked" /\ Ends(r)
      /\ IsVersion(v) /\ v.status = "draft"
  BY ReadyStands DEF CommitEdit, OnVersion, Stands, Drafts, VacancyInv, Shape
<1>2. PICK x, rules, val, y :
        /\ x = Filled(v, q.form) /\ y = [x EXCEPT !.rules = rules]
        /\ y = Synced(v, q.form, q.picked)
        /\ val = WithRule(y, q.val)
  BY DEF Synced
<1>3. Writable(x) /\ Writable(y)
  BY <1>1, <1>2, FilledIsDraft DEF Writable
<1>4. Writable(val)
  <2>1. IsVersion(y) /\ y.status = "draft"
    BY <1>1, <1>2, FilledIsDraft
  <2>2. PICK more : val = [y EXCEPT !.rules = more]
    BY <1>2 DEF WithRule
  <2> QED
    BY <2>1, <2>2, RulesLeaveDraft
<1>5. PICK z : z \in {x, y, val} /\ version' = [version EXCEPT ![q.ver] = z]
  <2>1. CASE q.op = "save"
    <3>1. version' = [version EXCEPT ![q.ver] = Filled(v, q.form)]
      BY <2>1 DEF CommitEdit, Write
    <3>2. Filled(v, q.form) = x
      BY <1>2
    <3> QED
      BY <3>1, <3>2
  <2>2. CASE q.op = "edit" /\ q.val = None
    BY <1>2, <2>2 DEF CommitEdit, Write
  <2>3. CASE q.op = "edit" /\ q.val # None
    <3>1. version' = [version EXCEPT ![q.ver] =
                        WithRule(Synced(v, q.form, q.picked), q.val)]
      BY <2>3 DEF CommitEdit, Write
    <3>2. WithRule(Synced(v, q.form, q.picked), q.val) = val
      BY <1>2
    <3> QED
      BY <3>1, <3>2
  <2> QED
    BY <2>1, <2>2, <2>3, ReadyStands DEF CommitEdit
<1>6. Writable(z) /\ Kept(z)
  BY <1>3, <1>4, <1>5 DEF CommitEdit, Kept, VacancyInv, Shape, IsVacancy
<1> QED
  BY <1>1, <1>5, <1>6, VersionStep

\* Rule services write the rules of a draft only.
LEMMA RuleWrites ==
  ASSUME VacancyInv, NEW r \in Web, CommitRule(r)
  PROVE  VacancyInv' /\ \A v \in Confirmed : version'[v] = version[v]
<1> DEFINE q == req[r]
           v == version[q.ver]
<1>1. /\ q.op \in OnVersion /\ q.stage = "checked" /\ Ends(r)
      /\ IsVersion(v) /\ v.status = "draft"
  BY ReadyStands DEF CommitRule, OnVersion, Stands, Drafts, VacancyInv, Shape
<1>2. PICK x, rules :
        /\ x = [v EXCEPT !.rules = rules]
        /\ version' = [version EXCEPT ![q.ver] = x]
  <2>1. q.op \in {"addRule", "setRule", "dropRule"}
    BY DEF CommitRule, Ready
  <2>2. CASE q.op = "addRule"
    BY <2>2 DEF CommitRule, Write, WithRule
  <2>3. CASE q.op = "setRule"
    BY <2>3 DEF CommitRule, Write
  <2>4. CASE q.op = "dropRule"
    BY <2>4 DEF CommitRule, Write
  <2> QED
    BY <2>1, <2>2, <2>3, <2>4
<1>3. Writable(x) /\ Kept(x)
  BY <1>1, <1>2, RulesLeaveDraft DEF CommitRule, Kept, VacancyInv, Shape, IsVacancy
<1> QED
  BY <1>1, <1>2, <1>3, VersionStep

\* confirm_requirements_draft confirms a draft that passed its check.
LEMMA ConfirmWrites ==
  ASSUME VacancyInv, NEW r \in Web, CommitConfirm(r)
  PROVE  VacancyInv' /\ \A v \in Confirmed : version'[v] = version[v]
<1> DEFINE q == req[r]
           v == version[q.ver]
<1>1. /\ q.op \in OnVersion /\ q.stage = "checked" /\ Ends(r)
      /\ IsVersion(v) /\ v.status = "draft" /\ Confirmable(v)
  <2>1. q.op = "confirm" /\ q.stage = "checked" /\ Stands(r) /\ Ends(r)
    BY ReadyStands DEF CommitConfirm
  <2> QED
    BY <2>1 DEF OnVersion, Stands, Drafts, VacancyInv, Shape
<1>2. PICK y, x : y = Filled(v, v.values) /\ x = [y EXCEPT !.status = "confirmed"]
  OBVIOUS
<1>3. version' = [version EXCEPT ![q.ver] = x]
  BY <1>2 DEF CommitConfirm, Write
<1>4. Writable(x)
  <2>1. /\ IsVersion(x) /\ x.status = "confirmed"
        /\ x.values = v.values /\ x.links = LinksOf(v.values)
        /\ y.links = x.links /\ y.rules = x.rules
    BY <1>1, <1>2 DEF Filled, IsVersion
  <2>2. Meaningful(v.values) /\ Valid(y)
    BY <1>1, <1>2 DEF Confirmable
  <2> QED
    BY <2>1, <2>2 DEF Writable, Sound, Valid
<1>5. Kept(x)
  <2>1. x.status = "confirmed" /\ IsVacancy(vacancy)
    BY <1>1, <1>2 DEF Filled, IsVersion, VacancyInv, Shape
  <2>2. CASE q.go /\ ~q.open
    BY <2>1, <2>2 DEF CommitConfirm, Openable, Kept, IsVacancy
  <2>3. CASE ~(q.go /\ ~q.open)
    BY <2>1, <2>3 DEF CommitConfirm, Kept, IsVacancy
  <2> QED
    BY <2>2, <2>3
<1> QED
  BY <1>1, <1>3, <1>4, <1>5, VersionStep

\* requirements_review saves the draft, and may confirm and open at once.
LEMMA ReviewWrites ==
  ASSUME VacancyInv, NEW r \in Web, CommitReview(r)
  PROVE  VacancyInv' /\ \A v \in Confirmed : version'[v] = version[v]
<1> DEFINE q == req[r]
           v == version[q.ver]
<1>1. /\ q.op \in OnVersion /\ q.stage = "checked" /\ Ends(r)
      /\ IsVersion(v) /\ v.status = "draft" /\ IsVacancy(vacancy)
  BY ReadyStands DEF CommitReview, OnVersion, Stands, Drafts, VacancyInv, Shape
<1>2. PICK x, rules, y, val, z :
        /\ x = Filled(v, q.form) /\ y = [x EXCEPT !.rules = rules]
        /\ y = Synced(v, q.form, q.picked)
        /\ val = WithRule(y, q.val) /\ z = [y EXCEPT !.status = "confirmed"]
  BY DEF Synced
<1>3. \A u \in {x, y} : /\ IsVersion(u) /\ u.status = "draft"
                        /\ u.values = q.form /\ u.links = LinksOf(q.form)
  BY <1>1, <1>2, FilledIsDraft
<1>4. Writable(x) /\ Writable(y)
  BY <1>3 DEF Writable
<1>5. Writable(val)
  <2>1. PICK more : val = [y EXCEPT !.rules = more]
    BY <1>2 DEF WithRule
  <2> QED
    BY <1>3, <2>1, RulesLeaveDraft
<1>6. CASE DetailsFit(q) /\ Valid(y) /\ q.go /\ Meaningful(q.form)
           /\ version' = [version EXCEPT ![q.ver] = z]
           /\ vacancy' = [vacancy EXCEPT !.title = q.title, !.client = q.client,
                                         !.status = "open"]
  <2>1. /\ IsVersion(z) /\ z.status = "confirmed" /\ z.values = q.form
        /\ z.links = LinksOf(q.form) /\ z.links = y.links /\ z.rules = y.rules
    BY <1>2, <1>3 DEF IsVersion
  <2>2. Writable(z)
    BY <1>6, <2>1 DEF Writable, Sound, Valid
  <2>3. Kept(z)
    BY <1>1, <1>6, <2>1 DEF DetailsFit, Kept, IsVacancy
  <2> QED
    BY <1>1, <1>6, <2>2, <2>3, VersionStep
<1>7. CASE /\ \E u \in {x, y, val} : version' = [version EXCEPT ![q.ver] = u]
           /\ \/ vacancy' = [vacancy EXCEPT !.title = q.title, !.client = q.client]
              \/ vacancy' = vacancy
  <2>1. PICK u \in {x, y, val} : version' = [version EXCEPT ![q.ver] = u]
    BY <1>7
  <2>2. Writable(u) /\ Kept(u)
    BY <1>1, <1>4, <1>5, <1>7 DEF Kept, IsVacancy
  <2> QED
    BY <1>1, <2>1, <2>2, VersionStep
<1> QED
  <2>1. CASE DetailsFit(q) /\ Valid(y) /\ q.val = None
    <3>1. /\ q.go => Meaningful(q.form)
          /\ Write(q.ver, IF q.go THEN [Synced(v, q.form, q.picked) EXCEPT !.status = "confirmed"]
                          ELSE Synced(v, q.form, q.picked))
          /\ vacancy' = [vacancy EXCEPT !.title = q.title, !.client = q.client,
                                        !.status = IF q.go THEN "open" ELSE @]
      BY <2>1 DEF CommitReview
    <3>2. CASE q.go
      <4>1. version' = [version EXCEPT ![q.ver] = z]
        BY <1>2, <3>1, <3>2 DEF Write
      <4>2. vacancy' = [vacancy EXCEPT !.title = q.title, !.client = q.client, !.status = "open"]
        BY <3>1, <3>2
      <4> QED
        BY <1>6, <2>1, <3>1, <3>2, <4>1, <4>2
    <3>3. CASE ~q.go
      <4>1. version' = [version EXCEPT ![q.ver] = y]
        BY <1>2, <3>1, <3>3 DEF Write
      <4>2. vacancy' = [vacancy EXCEPT !.title = q.title, !.client = q.client]
        BY <1>1, <3>1, <3>3 DEF IsVacancy
      <4> QED
        BY <1>7, <4>1, <4>2
    <3> QED
      BY <3>2, <3>3
  <2>2. CASE DetailsFit(q) /\ Valid(y) /\ q.val # None
    <3>1. Write(q.ver, WithRule(Synced(v, q.form, q.picked), q.val))
          /\ vacancy' = [vacancy EXCEPT !.title = q.title, !.client = q.client]
      BY <2>2 DEF CommitReview
    <3>2. version' = [version EXCEPT ![q.ver] = val]
      BY <1>2, <3>1 DEF Write
    <3> QED
      BY <1>7, <3>1, <3>2
  <2>3. CASE ~DetailsFit(q) /\ q.val # None
    <3>1. Write(q.ver, Filled(v, q.form)) /\ vacancy' = vacancy
      BY <2>3 DEF CommitReview
    <3>2. version' = [version EXCEPT ![q.ver] = x]
      BY <1>2, <3>1 DEF Write
    <3> QED
      BY <1>7, <3>1, <3>2
  <2> QED
    BY <1>2, <2>1, <2>2, <2>3 DEF CommitReview

\* extract_vacancy_requirements saves suggestions in the draft it started from.
LEMMA ExtractWrites ==
  ASSUME VacancyInv, NEW r \in Web, CommitExtract(r)
  PROVE  VacancyInv' /\ \A v \in Confirmed : version'[v] = version[v]
<1> DEFINE q == req[r]
           v == version[q.ver]
<1>1. /\ q.op \in OnVersion /\ q.stage = "checked" /\ Ends(r)
      /\ IsVersion(v) /\ v.status = "draft"
  BY ReadyStands DEF CommitExtract, OnVersion, Stands, Drafts, VacancyInv, Shape
<1>2. PICK found, x, y :
        /\ x = Filled(v, Suggested(q)) /\ y = [x EXCEPT !.snapshot = found]
        /\ version' = [version EXCEPT ![q.ver] = y]
  BY DEF CommitExtract, Write
<1>3. IsVersion(x) /\ x.status = "draft"
  BY <1>1, <1>2 DEF Filled, IsVersion
<1>4. Writable(y)
  BY <1>2, <1>3 DEF Writable, IsVersion
<1>5. Kept(y)
  BY DEF CommitExtract, Kept, VacancyInv, Shape, IsVacancy
<1> QED
  BY <1>1, <1>2, <1>4, <1>5, VersionStep

-----------------------------------------------------------------------------
(* Transactions that create a version or write the vacancy alone. *)

\* A new version is a draft.
LEMMA BlankIsDraft ==
  ASSUME NEW c, NEW rules, NEW x, NEW y,
         x = Blank(c, "draft"), y = [x EXCEPT !.rules = rules]
  PROVE  \A z \in {x, y} : IsVersion(z) /\ z.status = "draft"
  BY DEF Blank, IsVersion

\* No other request has checked anything about the vacancy.
Alone(r) == \A s \in Web \ {r} : req[s].stage = "checked" =>
              req[s].op \notin OnVersion \cup OnVacancy

\* There is no draft, and n is the number of the next one.
NextNumber(n) == /\ Drafts = {} /\ n \in Version
                 /\ \E m \in Nat : Versions = 1..m /\ n = m + 1

\* A new draft with the next number, that nobody has asked about yet.
LEMMA NewDraft ==
  ASSUME VacancyInv, NEW r \in Web, NEW x, NEW n,
         IsVersion(x), x.status = "draft", NextNumber(n),
         version' = [version EXCEPT ![n] = x], Ends(r),
         IsVacancy(vacancy'), vacancy'.status # "none",
         vacancy' = vacancy \/ (vacancy'.status = "draft" /\ ~vacancy'.deleted),
         Alone(r)
  PROVE  VacancyInv' /\ \A v \in Confirmed : version'[v] = version[v]
<1>0. PICK m \in Nat : Versions = 1..m /\ n = m + 1 /\ Drafts = {} /\ n \in Version
  BY DEF NextNumber
<1>1. n \in Nat \ {0} /\ n \in 1..MaxVersion /\ MaxVersion \in Nat
  BY <1>0, RequirementsAssumption DEF Version
<1>2. /\ version' = [v \in Version |-> version'[v]]
      /\ version'[n] = x /\ \A v \in Version \ {n} : version'[v] = version[v]
  BY <1>0 DEF VacancyInv, Shape
<1>3. n \notin Confirmed
  BY <1>0, <1>1 DEF Versions
<1>4. /\ Confirmed' = Confirmed /\ Drafts' = {n} /\ Versions' = 1..n
      /\ \A v \in Confirmed : version'[v] = version[v]
  <2>1. Confirmed' = Confirmed /\ Drafts' = {n}
    BY <1>0, <1>2, <1>3 DEF Confirmed, Drafts
  <2>2. \A v \in Confirmed : version'[v] = version[v]
    BY <1>2, <1>3 DEF Confirmed
  <2>3. Confirmed = 1..m
    BY <1>0 DEF Versions
  <2>4. Versions' = 1..n
    BY <1>0, <1>1, <2>1, <2>3 DEF Versions
  <2> QED
    BY <2>1, <2>2, <2>4
<1>5. Exists'
  BY DEF Exists
<1>6. Shape'
  <2>1. /\ held' = [s \in Web |-> held'[s]] /\ req' = [s \in Web |-> req'[s]]
        /\ \A s \in Web : IsRequest(req'[s])
    BY <1>5, Release
  <2>2. \A v \in Version : IsVersion(version'[v])
    BY <1>2 DEF VacancyInv, Shape
  <2> QED
    BY <2>1, <2>2, <1>2 DEF Shape, IsVacancy, IsVersion, IsRequest
<1>7. Numbered' /\ Newest'
  <2>1. Numbered'
    BY <1>0, <1>4, <1>5 DEF Numbered
  <2>2. Newest'
    BY <1>1, <1>4 DEF Newest
  <2> QED
    BY <2>1, <2>2
<1>8. ConfirmedIsSound'
  BY <1>4 DEF VacancyInv, ConfirmedIsSound, Meaningful, LinksOf, Valid, Fits
<1>9. OpenIsConfirmed'
  BY <1>4 DEF VacancyInv, OpenIsConfirmed
<1>10. Apart' /\ Asked'
  BY <1>5, Release
<1>11. Standing'
  <2>1. \A s \in Web \ {r} : req[s].stage = "checked" => Stands(s)'
    <3> SUFFICES ASSUME NEW s \in Web \ {r}, req[s].stage = "checked" PROVE Stands(s)'
      OBVIOUS
    <3>1. req'[s] = req[s] /\ req[s].op \notin OnVersion \cup OnVacancy
      BY <1>5, Release DEF Alone
    <3> QED
      BY <3>1 DEF Stands, OnVersion, OnVacancy
  <2> QED
    BY <1>5, <2>1, Release
<1> QED
  BY <1>4, <1>6, <1>7, <1>8, <1>9, <1>10, <1>11 DEF VacancyInv

\* create_vacancy_with_requirements writes the first version.
LEMMA CreateWrites ==
  ASSUME VacancyInv, NEW r \in Web, CommitCreate(r)
  PROVE  VacancyInv' /\ \A v \in Confirmed : version'[v] = version[v]
<1>1. NextNumber(1)
  BY RequirementsAssumption DEF NextNumber, CommitCreate, VacancyInv, Numbered, Versions, Version
<1>2. PICK x : x = Blank(Draft0, "draft")
  OBVIOUS
<1>3. /\ IsVersion(x) /\ x.status = "draft"
      /\ version' = [version EXCEPT ![1] = x] /\ Ends(r)
  BY <1>2, BlankIsDraft DEF CommitCreate, Write, End, Ends
<1>4. IsVacancy(vacancy') /\ vacancy'.status = "draft" /\ ~vacancy'.deleted
  BY DEF CommitCreate, IsVacancy
<1>5. Alone(r)
  BY DEF Alone, CommitCreate, VacancyInv, Asked, Founded
<1> QED
  BY <1>1, <1>3, <1>4, <1>5, NewDraft

\* create_next_requirements_draft writes the next version, under the lock on
\* the vacancy.
LEMMA CopyWrites ==
  ASSUME VacancyInv, NEW r \in Web, CommitCopy(r)
  PROVE  VacancyInv' /\ \A v \in Confirmed : version'[v] = version[v]
<1> DEFINE n == req[r].ver
<1>1. req[r].op = "copy" /\ req[r].stage = "checked" /\ Stands(r) /\ Founded(req[r]) /\ Ends(r)
  BY ReadyStands DEF CommitCopy
<1>2. Drafts = {} /\ \E m \in Version : Versions = 1..m /\ n = m + 1
  BY <1>1 DEF Stands
<1>3. NextNumber(n)
  <2>1. PICK m \in Version : Versions = 1..m /\ n = m + 1
    BY <1>2
  <2>2. m \in Nat /\ n \in Version
    BY <2>1, RequirementsAssumption DEF CommitCopy, Version
  <2> QED
    BY <1>2, <2>1, <2>2 DEF NextNumber
<1>4. PICK x, y : /\ x = Blank(Base.values, "draft") /\ y = [x EXCEPT !.rules = Base.rules]
  OBVIOUS
<1>5. IsVersion(y) /\ y.status = "draft"
  BY <1>4, BlankIsDraft
<1>6. version' = [version EXCEPT ![n] = y] /\ vacancy' = vacancy
  BY <1>4 DEF CommitCopy, Write
<1>7. IsVacancy(vacancy') /\ vacancy'.status # "none"
  BY <1>1, <1>6 DEF VacancyInv, Shape, Founded, Exists, OnVacancy
<1>8. Alone(r)
  <2> SUFFICES ASSUME NEW s \in Web \ {r}, req[s].stage = "checked"
               PROVE  req[s].op \notin OnVersion \cup OnVacancy
    BY DEF Alone
  <2>1. Stands(s)
    BY DEF VacancyInv, Standing
  <2>2. req[s].op \notin OnVersion
    BY <1>2, <2>1 DEF Stands
  <2>3. req[s].op \notin OnVacancy
    BY <1>1, HoldersDiffer DEF OnVacancy
  <2> QED
    BY <2>2, <2>3
<1> QED
  BY <1>1, <1>3, <1>5, <1>6, <1>7, <1>8, NewDraft

\* Status changes, deletions and edits of the vacancy write no version.
LEMMA VacancyWrites ==
  ASSUME VacancyInv, NEW r \in Web, CommitVacancy(r)
  PROVE  VacancyInv'
<1> DEFINE q == req[r]
<1>1. /\ q.op \in {"status", "delete", "retitle"} /\ q.stage = "checked"
      /\ Stands(r) /\ Founded(q) /\ Ends(r)
  BY ReadyStands DEF CommitVacancy
<1>2. IsVacancy(vacancy) /\ vacancy.status # "none" /\ OpenIsConfirmed
  BY <1>1 DEF VacancyInv, Shape, Founded, OnVacancy, Exists
<1>3. /\ IsVacancy(vacancy') /\ vacancy'.status # "none"
      /\ vacancy'.status \in {"open", "paused"} => Confirmed # {}
      /\ vacancy'.deleted => vacancy'.status = "closed"
  <2>1. CASE q.op = "status"
    <3>1. /\ vacancy' = [vacancy EXCEPT !.status = q.status]
          /\ q.status \in {"open", "paused", "closed"} /\ ~vacancy.deleted
          /\ q.status \in {"open", "paused"} => Confirmed # {}
      BY <1>1, <2>1 DEF CommitVacancy, Stands, Founded
    <3> QED
      BY <1>2, <3>1 DEF IsVacancy
  <2>2. CASE q.op = "delete"
    <3>1. vacancy' = [vacancy EXCEPT !.status = "closed", !.deleted = TRUE]
      BY <2>2 DEF CommitVacancy
    <3> QED
      BY <1>2, <3>1 DEF IsVacancy
  <2>3. CASE q.op = "retitle"
    <3>1. vacancy' = [vacancy EXCEPT !.title = q.title, !.client = q.client]
      BY <2>3 DEF CommitVacancy
    <3> QED
      BY <1>2, <3>1 DEF IsVacancy, OpenIsConfirmed
  <2> QED
    BY <1>1, <2>1, <2>2, <2>3
<1>4. version' = version /\ Drafts' = Drafts /\ Confirmed' = Confirmed /\ Versions' = Versions
  BY DEF CommitVacancy, Drafts, Confirmed, Versions
<1>5. Exists /\ Exists'
  BY <1>2, <1>3 DEF Exists
<1>6. Shape'
  <2>1. /\ held' = [s \in Web |-> held'[s]] /\ req' = [s \in Web |-> req'[s]]
        /\ \A s \in Web : IsRequest(req'[s])
    BY <1>1, <1>5, Release
  <2>2. version' = [v \in Version |-> version'[v]] /\ \A v \in Version : IsVersion(version'[v])
    BY <1>4 DEF VacancyInv, Shape
  <2> QED
    BY <1>3, <2>1, <2>2 DEF Shape, IsVacancy, IsVersion, IsRequest
<1>7. Numbered' /\ Newest'
  BY <1>4, <1>5 DEF VacancyInv, Numbered, Newest
<1>8. ConfirmedIsSound'
  BY <1>4 DEF VacancyInv, ConfirmedIsSound
<1>9. OpenIsConfirmed'
  BY <1>3, <1>4 DEF OpenIsConfirmed
<1>10. Apart' /\ Asked'
  BY <1>1, <1>5, Release
<1>11. Standing'
  <2>1. \A s \in Web \ {r} : req[s].stage = "checked" => Stands(s)'
    <3> SUFFICES ASSUME NEW s \in Web \ {r}, req[s].stage = "checked" PROVE Stands(s)'
      OBVIOUS
    <3>1. Stands(s) /\ req'[s] = req[s] /\ held'[s] = held[s]
      BY <1>1, <1>5, Release DEF VacancyInv, Standing
    <3>2. req[s].op \notin OnVacancy
      BY <1>1, HoldersDiffer DEF OnVacancy
    <3>3. req[s].op # "copy" /\ req[s].op # "status"
      BY <3>2 DEF OnVacancy
    <3> QED
      BY <1>4, <3>1, <3>2, <3>3 DEF Stands
  <2> QED
    BY <1>1, <1>5, <2>1, Release
<1> QED
  BY <1>6, <1>7, <1>8, <1>9, <1>10, <1>11 DEF VacancyInv

-----------------------------------------------------------------------------
(* The check of a request. *)

\* Some member of a non-empty set of places is the first.
LEMMA Earliest ==
  ASSUME NEW S \in SUBSET (1..5), S # {}
  PROVE  \E i \in S : \A j \in S : i <= j
<1>1. \A j \in S : j = 1 \/ j = 2 \/ j = 3 \/ j = 4 \/ j = 5
  OBVIOUS
<1>2. CASE 1 \in S
  BY <1>1, <1>2
<1>3. CASE 1 \notin S /\ 2 \in S
  BY <1>1, <1>3
<1>4. CASE 1 \notin S /\ 2 \notin S /\ 3 \in S
  BY <1>1, <1>4
<1>5. CASE 1 \notin S /\ 2 \notin S /\ 3 \notin S /\ 4 \in S
  BY <1>1, <1>5
<1>6. CASE 1 \notin S /\ 2 \notin S /\ 3 \notin S /\ 4 \notin S
  <2>1. \A j \in S : j = 5
    BY <1>1, <1>6
  <2>2. 5 \in S
    BY <2>1
  <2> QED
    BY <2>1, <2>2
<1> QED
  BY <1>2, <1>3, <1>4, <1>5, <1>6

\* A plan that lacks no row is held.
LEMMA PlanHeld ==
  ASSUME NEW r \in Web, NEW k \in 1..5, DOMAIN Plan(req[r]) = 1..k, NextRows(r) = {}
  PROVE  \A i \in 1..k : Plan(req[r])[i] \subseteq held[r]
<1> DEFINE missing == {i \in DOMAIN Plan(req[r]) : ~(Plan(req[r])[i] \subseteq held[r])}
<1>1. SUFFICES ASSUME missing # {} PROVE FALSE
  OBVIOUS
<1>2. missing \subseteq 1..5
  OBVIOUS
<1>3. \E i \in missing : \A j \in missing : i <= j
  <2> HIDE DEF missing
  <2> QED
    BY <1>1, <1>2, Earliest
<1>4. PICK i \in missing : i = CHOOSE m \in missing : \A j \in missing : m <= j
  BY <1>3
<1>5. NextRows(r) = Plan(req[r])[i] \ held[r]
  BY <1>1, <1>4 DEF NextRows
<1> QED
  BY <1>4, <1>5

\* A request that has locked its plan holds its version or the vacancy.
LEMMA RowsHeld ==
  ASSUME NEW r \in Web, req[r].stage = "asked", NextRows(r) = {}, Passes(req[r])
  PROVE  /\ req[r].op \in OnVersion => <<"version", req[r].ver>> \in held[r]
         /\ req[r].op \in OnVacancy => <<"vacancy">> \in held[r]
<1> DEFINE q == req[r]
<1>1. CASE q.op \in {"save", "addRule"}
  <2>1. Plan(q) = <<VersionRow(q)>>
    BY <1>1 DEF Plan, AddRuleRows
  <2> QED
    BY <1>1, <2>1, PlanHeld DEF VersionRow, OnVacancy
<1>2. CASE q.op \in {"edit", "confirm"}
  <2>1. Plan(q) = <<VersionRow(q), {}>>
    BY <1>2 DEF Plan, ConfirmRows
  <2> QED
    BY <1>2, <2>1, PlanHeld DEF VersionRow, OnVacancy
<1>3. CASE q.op = "review"
  <2>1. Plan(q) = <<VersionRow(q)>>
    BY <1>3 DEF Plan
  <2> QED
    BY <1>3, <2>1, PlanHeld DEF VersionRow, OnVacancy
<1>4. CASE q.op \in {"setRule", "dropRule"}
  <2>1. Plan(q) = <<{<<"rule", q.ver, q.rule>>}, VersionRow(q), VacancyRow>>
    BY <1>4 DEF Plan, RuleRows, Passes
  <2> QED
    BY <1>4, <2>1, PlanHeld DEF VersionRow, OnVacancy
<1>5. CASE q.op = "extract"
  <2>1. Plan(q) = <<VersionRow(q), VacancyRow>>
    BY <1>5 DEF Plan
  <2> QED
    BY <1>5, <2>1, PlanHeld DEF VersionRow, OnVacancy
<1>6. CASE q.op \in {"copy", "status", "delete"}
  <2>1. Plan(q) = <<VacancyRow>>
    BY <1>6 DEF Plan
  <2> QED
    BY <1>6, <2>1, PlanHeld DEF VacancyRow, OnVersion
<1>7. CASE q.op = "retitle"
  <2>1. DOMAIN Plan(q) = 1..3 /\ Plan(q)[1] = VacancyRow
    BY <1>7 DEF Plan, DetailRows
  <2> QED
    BY <1>7, <2>1, PlanHeld DEF VacancyRow, OnVersion
<1> QED
  BY <1>1, <1>2, <1>3, <1>4, <1>5, <1>6, <1>7 DEF OnVersion, OnVacancy

\* What a service checks under its locks.
LEMMA CheckStep ==
  ASSUME VacancyInv, NEW r \in Web, Check(r)
  PROVE  VacancyInv'
<1> DEFINE q == req[r]
<1>1. /\ IsRequest(q) /\ Founded(q) /\ q.stage = "asked" /\ Passes(q)
      /\ q.op \in OnVersion => <<"version", q.ver>> \in held[r]
      /\ q.op \in OnVacancy => <<"vacancy">> \in held[r]
  BY RowsHeld DEF Check, VacancyInv, Shape, Asked
<1>2. PICK n : n = IF q.op = "copy" THEN Greatest(Versions) + 1 ELSE q.ver
  OBVIOUS
<1>3. PICK x : /\ x = [q EXCEPT !.stage = "checked", !.open = (vacancy.status = "open"),
                               !.ver = n]
               /\ req' = [req EXCEPT ![r] = x]
  BY <1>2 DEF Check
<1>4. /\ IsRequest(x) /\ x.stage = "checked" /\ x.op = q.op /\ x.ver = n
      /\ x.status = q.status /\ x.seen = q.seen
  BY <1>1, <1>3 DEF IsRequest
<1>5. q.op = "copy" => \E m \in Version : Versions = 1..m /\ n = m + 1
  <2> SUFFICES ASSUME q.op = "copy" PROVE \E m \in Version : Versions = 1..m /\ n = m + 1
    OBVIOUS
  <2>1. PICK m \in Version : Versions = 1..m
    BY <1>1 DEF Founded, OnVacancy, VacancyInv, Numbered
  <2>2. m \in Nat \ {0}
    BY RequirementsAssumption DEF Version
  <2>3. Greatest(Versions) = m
    BY <2>1, <2>2 DEF Greatest
  <2> QED
    BY <1>2, <2>1, <2>3
<1>6. Founded(x)
  <2>1. n \in Nat
    BY <1>1, <1>2, <1>5, RequirementsAssumption DEF Founded, Version
  <2>2. q.op \in OnVersion => n = q.ver
    BY <1>2 DEF OnVersion
  <2> QED
    BY <1>1, <1>4, <2>1, <2>2 DEF Founded
<1>7. req'[r] = x /\ UNCHANGED <<vacancy, version, held>>
  <2>1. UNCHANGED <<vacancy, version, held>>
    BY DEF Check, tables
  <2>2. req'[r] = x
    BY <1>3 DEF VacancyInv, Shape
  <2> QED
    BY <2>1, <2>2
<1>8. Stands(r)'
  <2>1. q.op \in OnVersion => n = q.ver /\ q.ver \in Drafts
    <3> SUFFICES ASSUME q.op \in OnVersion PROVE n = q.ver /\ version[q.ver].status = "draft"
      BY <1>1 DEF Founded, Drafts
    <3>1. CASE q.op \in {"edit", "save", "review", "addRule", "setRule", "dropRule", "confirm"}
      BY <1>1, <1>2, <3>1 DEF Passes
    <3>2. CASE q.op = "extract"
      BY <1>1, <1>2, <3>2 DEF Passes, Signature, Founded
    <3> QED
      BY <3>1, <3>2 DEF OnVersion
  <2>2. q.op = "copy" => Drafts = {}
    BY <1>1 DEF Passes, NoDraft
  <2>3. q.op = "confirm" => Confirmable(version[q.ver])
    BY <1>1 DEF Passes
  <2>4. q.op = "status" => ~vacancy.deleted /\ (q.status \in {"open", "paused"} => Confirmed # {})
    <3> SUFFICES ASSUME q.op = "status"
                 PROVE  ~vacancy.deleted /\ (q.status \in {"open", "paused"} => Confirmed # {})
      OBVIOUS
    <3>1. MayBecome(q.status)
      BY <1>1 DEF Passes
    <3>2. vacancy.status \in {"draft", "open", "paused", "closed"}
      BY <1>1 DEF VacancyInv, Shape, IsVacancy, Founded, OnVacancy, Exists
    <3>3. q.status = "paused" => vacancy.status = "open"
      BY <3>1, <3>2 DEF MayBecome, Transition
    <3> QED
      BY <3>1, <3>3 DEF MayBecome, VacancyInv, OpenIsConfirmed
  <2>5. /\ x.op \in OnVersion => <<"version", x.ver>> \in held'[r] /\ x.ver \in Drafts'
        /\ x.op \in OnVacancy => <<"vacancy">> \in held'[r]
    BY <1>1, <1>4, <1>7, <2>1 DEF Drafts
  <2>6. x.op = "copy" => Drafts' = {} /\ \E m \in Version : Versions' = 1..m /\ x.ver = m + 1
    BY <1>4, <1>5, <1>7, <2>2 DEF Drafts, Confirmed, Versions
  <2>7. x.op = "confirm" => Confirmable(version'[x.ver])
    BY <1>4, <1>7, <2>1, <2>3 DEF OnVersion
  <2>8. x.op = "status" =>
          ~vacancy'.deleted /\ (x.status \in {"open", "paused"} => Confirmed' # {})
    BY <1>4, <1>7, <2>4 DEF Confirmed
  <2> QED
    BY <1>7, <2>5, <2>6, <2>7, <2>8
       DEF Stands, Confirmable, Meaningful, Valid, Filled, Fits, LinksOf
<1> QED
  BY <1>3, <1>4, <1>6, <1>7, <1>8, RequestStep

-----------------------------------------------------------------------------
(* Every step. *)

\* A page asks.
LEMMA AskStep ==
  ASSUME VacancyInv, NEW r \in Web, Ask(r)
  PROVE  VacancyInv'
<1>1. PICK q \in Pages \cup CompanyChanges \cup Elsewhere, stage \in {"calling", "asked"} :
        req' = [req EXCEPT ![r] = [q EXCEPT !.stage = stage]]
  BY DEF Ask
<1>2. IsRequest(q) /\ Founded(q)
  BY PagesAsk DEF VacancyInv
<1>3. PICK x : x = [q EXCEPT !.stage = stage]
  OBVIOUS
<1>4. /\ IsRequest(x) /\ x.stage = stage /\ x.op = q.op /\ x.ver = q.ver
      /\ x.status = q.status /\ x.seen = q.seen
  BY <1>2, <1>3 DEF IsRequest
<1>5. Founded(x)
  BY <1>2, <1>4 DEF Founded
<1>6. UNCHANGED <<vacancy, version, held>>
  BY DEF Ask, tables
<1> QED
  BY <1>1, <1>3, <1>4, <1>5, <1>6, RequestStep

\* The AI service answers between two transactions.
LEMMA AnswerStep ==
  ASSUME VacancyInv, NEW r \in Web, AnswerArrives(r)
  PROVE  VacancyInv'
<1>1. IsRequest(req[r]) /\ Founded(req[r])
  BY DEF VacancyInv, Shape, Asked
<1>2. PICK a, x : /\ x = [req[r] EXCEPT !.stage = "asked", !.form = a]
                  /\ req' = [req EXCEPT ![r] = x]
  BY DEF AnswerArrives
<1>3. /\ IsRequest(x) /\ x.stage = "asked" /\ x.op = req[r].op /\ x.ver = req[r].ver
      /\ x.status = req[r].status /\ x.seen = req[r].seen
  BY <1>1, <1>2 DEF IsRequest
<1>4. Founded(x)
  BY <1>1, <1>3 DEF Founded
<1>5. UNCHANGED <<vacancy, version, held>>
  BY DEF AnswerArrives, tables
<1> QED
  BY <1>2, <1>3, <1>4, <1>5, RequestStep

\* At the start there is no vacancy.
LEMMA InvInit == Init => VacancyInv
<1> SUFFICES ASSUME Init PROVE VacancyInv
  OBVIOUS
<1>1. /\ version = [v \in Version |-> Blank(Nothing, "none")]
      /\ Drafts = {} /\ Confirmed = {} /\ Versions = {} /\ ~Exists
  BY DEF Init, Blank, Drafts, Confirmed, Versions, Exists
<1>2. Shape
  <2>1. IsVacancy(vacancy)
    BY DEF Init, IsVacancy
  <2>2. \A v \in Version : IsVersion(version[v])
    BY <1>1 DEF Blank, IsVersion
  <2>3. \A r \in Web : IsRequest(req[r])
    BY DEF Init, Idle, IsRequest
  <2> QED
    BY <1>1, <2>1, <2>2, <2>3 DEF Init, Shape
<1>3. Asked
  BY DEF Init, Idle, Asked, Founded, OnVersion, OnVacancy
<1>4. Standing
  BY DEF Init, Idle, Standing
<1>5. Apart
  BY DEF Init, Apart
<1> QED
  BY <1>1, <1>2, <1>3, <1>4, <1>5 DEF VacancyInv, Numbered, Newest, ConfirmedIsSound,
                                      OpenIsConfirmed, Init

\* VacancyInv is inductive, and confirmed versions stay as they are.
LEMMA InvNext ==
  ASSUME VacancyInv, [Next]_vars
  PROVE  VacancyInv' /\ \A v \in Confirmed : version'[v] = version[v]
<1>1. CASE UNCHANGED vars
  <2>1. vacancy' = vacancy /\ version' = version /\ held' = held /\ req' = req
    BY <1>1 DEF vars
  <2>2. Shape' /\ Apart' /\ Numbered' /\ Newest' /\ Asked'
    BY <2>1 DEF VacancyInv, Shape, IsVacancy, IsVersion, IsRequest, Apart, Numbered, Newest,
                Asked, Founded, Exists, Versions, Drafts, Confirmed
  <2>3. Standing' /\ ConfirmedIsSound' /\ OpenIsConfirmed'
    BY <2>1 DEF VacancyInv, Standing, Stands, ConfirmedIsSound, OpenIsConfirmed, Versions,
                Drafts, Confirmed
  <2> QED
    BY <2>1, <2>2, <2>3 DEF VacancyInv
<1>2. ASSUME NEW r \in Web, Ask(r) \/ AnswerArrives(r) \/ Check(r)
      PROVE  VacancyInv' /\ version' = version
  BY <1>2, AskStep, AnswerStep, CheckStep DEF Ask, AnswerArrives, Check, tables
<1>3. ASSUME NEW r \in Web, Lock(r) PROVE VacancyInv' /\ version' = version
  <2>1. PICK row : Free(row) /\ held' = [held EXCEPT ![r] = @ \cup {row}]
    BY <1>3 DEF Lock
  <2>2. UNCHANGED <<vacancy, version, req>>
    BY <1>3 DEF Lock, tables
  <2> QED
    BY <2>1, <2>2, LockStep
<1>4. ASSUME NEW r \in Web, Abort(r) \/ CommitCompany(r) \/ CommitElsewhere(r)
      PROVE  VacancyInv' /\ version' = version
  <2>1. Ends(r) /\ UNCHANGED <<vacancy, version>>
    BY <1>4 DEF Abort, CommitCompany, CommitElsewhere, End, Ends, tables
  <2> QED
    BY <2>1, EndStep
<1>5. ASSUME NEW r \in Web, CommitVacancy(r) PROVE VacancyInv' /\ version' = version
  BY <1>5, VacancyWrites DEF CommitVacancy
<1>6. ASSUME NEW r \in Web,
             \/ CommitCreate(r) \/ CommitEdit(r) \/ CommitReview(r) \/ CommitRule(r)
             \/ CommitConfirm(r) \/ CommitCopy(r) \/ CommitExtract(r)
      PROVE  VacancyInv' /\ \A v \in Confirmed : version'[v] = version[v]
  BY <1>6, CreateWrites, EditWrites, ReviewWrites, RuleWrites, ConfirmWrites, CopyWrites,
     ExtractWrites
<1> QED
  BY <1>1, <1>2, <1>3, <1>4, <1>5, <1>6 DEF Next, Commit

-----------------------------------------------------------------------------
(* Theorems. *)

\* Whatever requests interleave, their locks and checks keep the rows of a
\* vacancy and of its versions in order: VacancyInv is inductive.
THEOREM VacancyInvHolds == Spec => []VacancyInv
<1>1. VacancyInv /\ [Next]_vars => VacancyInv'
  BY InvNext
<1> QED
  BY InvInit, <1>1, PTL DEF Spec

\* create_next_requirements_draft: there is one draft at most and it is the
\* newest version, since a copy holds the vacancy and an edit holds the draft.
THEOREM OneDraftAtMost == Spec => []OneDraft
<1>1. VacancyInv => OneDraft
  <2> SUFFICES ASSUME VacancyInv, NEW v \in Drafts PROVE v = Greatest(Versions)
    BY DEF OneDraft
  <2>1. v \in Versions /\ v \in Nat /\ \A w \in Versions : w <= v /\ w \in Nat
    BY DEF VacancyInv, Newest, Versions, Drafts, Confirmed, Version
  <2>2. \A u \in Versions : (\A w \in Versions : w <= u) <=> u = v
    BY <2>1
  <2>3. (CHOOSE u \in Versions : \A w \in Versions : w <= u) = v
    BY <2>1, <2>2
  <2> QED
    BY <2>3 DEF Greatest
<1> QED
  BY VacancyInvHolds, <1>1, PTL

\* confirm_requirements_draft: what was confirmed is meaningful, linked and
\* valid, although its forms, rules and suggestions are posted concurrently.
THEOREM WhatIsConfirmedIsSound == Spec => []ConfirmedIsSound
<1>1. VacancyInv => ConfirmedIsSound
  BY DEF VacancyInv
<1> QED
  BY VacancyInvHolds, <1>1, PTL

\* change_vacancy_status, requirements_review, confirm_requirements_and_open_
\* vacancy, delete_vacancy: an open vacancy has confirmed requirements and a
\* deleted one stays closed.
THEOREM OpenVacancyIsConfirmed == Spec => []OpenIsConfirmed
<1>1. VacancyInv => OpenIsConfirmed
  BY DEF VacancyInv
<1> QED
  BY VacancyInvHolds, <1>1, PTL

\* A confirmed version, its links and its rules are never written again: every
\* transaction that writes one holds the row of a draft.
THEOREM ConfirmedNeverChanges == Spec => ConfirmedIsFrozen
<1>1. VacancyInv /\ [Next]_vars => [\A v \in Confirmed : version'[v] = version[v]]_vars
  BY InvNext
<1> QED
  BY VacancyInvHolds, <1>1, PTL DEF Spec, ConfirmedIsFrozen

-----------------------------------------------------------------------------
(* Deadlocks.  A request locks rows in the order version, vacancy,         *)
(* organization, client company, rules, unless it edits a rule or the      *)
(* state of the company; and what waits for the organization at its commit *)
(* holds nothing above it, unless it is a new vacancy.  Each of a circle   *)
(* of waiting requests would have to wait for a higher row than the last.  *)

Rank == [version |-> 1, vacancy |-> 2, organization |-> 3, client |-> 4, rule |-> 5]
Level(row) == Rank[row[1]]

Careful(q) == q.op \in Op \ {"setRule", "dropRule", "company"}

\* The rows that a careful request may lock.
Reach(q, row) ==
  \/ q.op \in OnVersion /\ row = <<"version", q.ver>>
  \/ q.op \in {"review", "confirm", "extract"} \cup OnVacancy /\ row = <<"vacancy">>
  \/ q.op \in {"review", "retitle", "retitleOther"} /\ row = <<"organization">>
  \/ /\ q.op \in {"review", "retitle", "create", "createOther", "retitleOther"}
     /\ row = <<"client">>
  \/ q.op \in {"edit", "review"} /\ \E x : row = <<"rule", q.ver, x>>

\* The rows it has locked before it goes for this one.
Above(r, row) ==
  LET q == req[r]
  IN /\ Level(row) > 1 /\ q.op \in OnVersion => <<"version", q.ver>> \in held[r]
     /\ Level(row) > 2 /\ q.op \in {"review", "retitle"} => <<"vacancy">> \in held[r]
     /\ Level(row) > 3 /\ q.op \in {"review", "retitle", "retitleOther"}
          => <<"organization">> \in held[r]
     /\ Level(row) > 4 /\ q.op = "review" /\ (vacancy.client \/ q.client)
          => <<"client">> \in held[r]

Climbs(r) ==
  /\ req[r].op \in Op \/ req[r].stage = "idle"
  /\ ~Running(r) => held[r] = {}
  /\ Careful(req[r]) => \A row \in held[r] : Reach(req[r], row) /\ Above(r, row)
OrderInv == \A r \in Web : Climbs(r)

\* The level of each kind of row.
LEMMA Levels ==
  /\ \A v : Level(<<"version", v>>) = 1
  /\ Level(<<"vacancy">>) = 2 /\ Level(<<"organization">>) = 3 /\ Level(<<"client">>) = 4
  /\ \A v, x : Level(<<"rule", v, x>>) = 5
BY DEF Level, Rank

\* The parts of the longest plan.
LEMMA Five ==
  ASSUME NEW a, NEW b, NEW c, NEW d, NEW e, NEW s, s = <<a>> \o (<<b, c, d>> \o <<e>>)
  PROVE  DOMAIN s = 1..5 /\ s[1] = a /\ s[2] = b /\ s[3] = c /\ s[4] = d /\ s[5] = e
OBVIOUS

\* The next rows are those of the first part of the plan that is not held.
LEMMA FirstMissing ==
  ASSUME NEW r \in Web, NEW k \in 1..5, DOMAIN Plan(req[r]) = 1..k, NextRows(r) # {}
  PROVE  \E i \in 1..k : /\ NextRows(r) = Plan(req[r])[i] \ held[r]
                         /\ \A j \in 1..k : j < i => Plan(req[r])[j] \subseteq held[r]
<1> DEFINE plan == Plan(req[r])
           missing == {i \in DOMAIN plan : ~(plan[i] \subseteq held[r])}
           first == CHOOSE i \in missing : \A j \in missing : i <= j
<1>1. NextRows(r) = IF missing = {} THEN {} ELSE plan[first] \ held[r]
  BY DEF NextRows
<1>2. missing # {} /\ missing \subseteq 1..k
  BY <1>1
<1>3. \E i \in missing : \A j \in missing : i <= j
  <2> HIDE DEF missing
  <2> QED
    BY <1>2, Earliest
<1>4. first \in missing /\ \A j \in missing : first <= j
  BY <1>3
<1>5. NextRows(r) = plan[first] \ held[r]
  BY <1>1, <1>2
<1> HIDE DEF first
<1>6. first \in 1..k /\ \A j \in 1..k : j < first => plan[j] \subseteq held[r]
  BY <1>2, <1>4
<1> QED
  BY <1>5, <1>6

\* The next rows of a careful request are above all it holds.
LEMMA NextReached ==
  ASSUME NEW r \in Web, Careful(req[r]), NEW row \in NextRows(r)
  PROVE  /\ Reach(req[r], row) /\ row \notin held[r] /\ Above(r, row)
         /\ row = <<"client">> /\ req[r].op = "review" => vacancy.client \/ req[r].client
<1> DEFINE q == req[r]
           Goal == /\ Reach(q, row) /\ row \notin held[r] /\ Above(r, row)
                   /\ row = <<"client">> /\ q.op = "review" => vacancy.client \/ q.client
<1>0. NextRows(r) # {}
  OBVIOUS
<1>1. CASE q.op \in {"save", "addRule"}
  <2>1. Plan(q) = <<VersionRow(q)>>
    BY <1>1 DEF Plan, AddRuleRows
  <2>2. row = <<"version", q.ver>> /\ row \notin held[r]
    BY <1>0, <2>1, FirstMissing DEF VersionRow
  <2> QED
    BY <1>1, <2>2, Levels DEF Reach, Above, OnVersion
<1>2. CASE q.op = "edit"
  <2>1. DOMAIN Plan(q) = 1..2 /\ Plan(q)[1] = VersionRow(q) /\ Plan(q)[2] \subseteq OrphanRows(q)
    BY <1>2 DEF Plan
  <2>2. \/ row = <<"version", q.ver>> /\ row \notin held[r]
        \/ row \in OrphanRows(q) /\ row \notin held[r] /\ <<"version", q.ver>> \in held[r]
    BY <1>0, <2>1, FirstMissing DEF VersionRow
  <2>3. row \in OrphanRows(q) => \E x : row = <<"rule", q.ver, x>>
    BY DEF OrphanRows
  <2> QED
    BY <1>2, <2>2, <2>3, Levels DEF Reach, Above, OnVersion
<1>3. CASE q.op \in {"confirm", "extract"}
  <2>1. DOMAIN Plan(q) = 1..2 /\ Plan(q)[1] = VersionRow(q) /\ Plan(q)[2] \subseteq VacancyRow
    BY <1>3 DEF Plan, ConfirmRows
  <2>2. \/ row = <<"version", q.ver>> /\ row \notin held[r]
        \/ row = <<"vacancy">> /\ row \notin held[r] /\ <<"version", q.ver>> \in held[r]
    BY <1>0, <2>1, FirstMissing DEF VersionRow, VacancyRow
  <2> QED
    BY <1>3, <2>2, Levels DEF Reach, Above, OnVersion
<1>4. CASE q.op \in {"copy", "status", "delete"}
  <2>1. Plan(q) = <<VacancyRow>>
    BY <1>4 DEF Plan
  <2>2. row = <<"vacancy">> /\ row \notin held[r]
    BY <1>0, <2>1, FirstMissing DEF VacancyRow
  <2> QED
    BY <1>4, <2>2, Levels DEF Reach, Above, OnVersion, OnVacancy
<1>5. CASE q.op \in {"create", "createOther"}
  <2>1. DOMAIN Plan(q) = 1..1 /\ Plan(q)[1] \subseteq {<<"client">>}
    BY <1>5 DEF Plan
  <2>2. row = <<"client">> /\ row \notin held[r]
    BY <1>0, <2>1, FirstMissing
  <2> QED
    BY <1>5, <2>2, Levels DEF Reach, Above, OnVersion
<1>6. CASE q.op = "retitle"
  <2>1. /\ DOMAIN Plan(q) = 1..3 /\ Plan(q)[1] = VacancyRow /\ Plan(q)[2] = {<<"organization">>}
        /\ Plan(q)[3] \subseteq {<<"client">>}
    BY <1>6 DEF Plan, DetailRows
  <2>2. /\ row \notin held[r]
        /\ \/ row = <<"vacancy">>
           \/ row = <<"organization">> /\ <<"vacancy">> \in held[r]
           \/ row = <<"client">> /\ <<"vacancy">> \in held[r] /\ <<"organization">> \in held[r]
    BY <1>0, <2>1, FirstMissing DEF VacancyRow
  <2> QED
    BY <1>6, <2>2, Levels DEF Reach, Above, OnVersion, OnVacancy
<1>7. CASE q.op = "review" /\ q.stage # "checked"
  <2>1. DOMAIN Plan(q) = 1..1 /\ Plan(q)[1] = VersionRow(q)
    BY <1>7 DEF Plan
  <2>2. row = <<"version", q.ver>> /\ row \notin held[r]
    BY <1>0, <2>1, FirstMissing DEF VersionRow
  <2> QED
    BY <1>7, <2>2, Levels DEF Reach, Above, OnVersion
<1>8. CASE q.op = "review" /\ q.stage = "checked"
  <2> DEFINE client == IF vacancy.client \/ q.client THEN {<<"client">>} ELSE {}
  <2>1. Plan(q) = <<VersionRow(q)>> \o (<<VacancyRow, {<<"organization">>}, client>>
                                           \o <<OrphanRows(q)>>)
    BY <1>8 DEF Plan, DetailRows
  <2>2. /\ DOMAIN Plan(q) = 1..5 /\ Plan(q)[1] = VersionRow(q) /\ Plan(q)[2] = VacancyRow
        /\ Plan(q)[3] = {<<"organization">>} /\ Plan(q)[4] = client /\ Plan(q)[5] = OrphanRows(q)
    <3> HIDE DEF client
    <3> QED
      BY <2>1, Five
  <2>3. PICK i \in 1..5 : /\ NextRows(r) = Plan(q)[i] \ held[r]
                          /\ \A j \in 1..5 : j < i => Plan(q)[j] \subseteq held[r]
    BY <1>0, <2>2, FirstMissing
  <2>4. /\ row \notin held[r] /\ row \in Plan(q)[i]
        /\ i > 1 => <<"version", q.ver>> \in held[r]
        /\ i > 2 => <<"vacancy">> \in held[r]
        /\ i > 3 => <<"organization">> \in held[r]
        /\ i > 4 => client \subseteq held[r]
    BY <2>2, <2>3 DEF VersionRow, VacancyRow
  <2>5. CASE i = 1
    BY <1>8, <2>2, <2>4, <2>5, Levels DEF Reach, Above, OnVersion, VersionRow
  <2>6. CASE i = 2
    BY <1>8, <2>2, <2>4, <2>6, Levels DEF Reach, Above, OnVersion, VacancyRow
  <2>7. CASE i = 3
    BY <1>8, <2>2, <2>4, <2>7, Levels DEF Reach, Above, OnVersion
  <2>8. CASE i = 4
    BY <1>8, <2>2, <2>4, <2>8, Levels DEF Reach, Above, OnVersion
  <2>9. CASE i = 5
    <3>1. PICK x : row = <<"rule", q.ver, x>>
      BY <2>2, <2>4, <2>9 DEF OrphanRows
    <3> QED
      BY <1>8, <2>4, <2>9, <3>1, Levels DEF Reach, Above, OnVersion
  <2> QED
    BY <2>5, <2>6, <2>7, <2>8, <2>9
<1>9. CASE q.op = "retitleOther"
  <2>1. Plan(q) = <<{<<"organization">>}, {<<"client">>}>>
    BY <1>9 DEF Plan
  <2>2. /\ row \notin held[r]
        /\ \/ row = <<"organization">>
           \/ row = <<"client">> /\ <<"organization">> \in held[r]
    BY <1>0, <2>1, FirstMissing
  <2> QED
    BY <1>9, <2>2, Levels DEF Reach, Above, OnVersion, OnVacancy
<1> QED
  BY <1>1, <1>2, <1>3, <1>4, <1>5, <1>6, <1>7, <1>8, <1>9 DEF Careful, Op

\* The rows a request can reach, by their level.
LEMMA ReachLevels ==
  ASSUME NEW q, NEW row, Reach(q, row)
  PROVE  /\ Level(row) \in 1..5
         /\ Level(row) = 1 => row = <<"version", q.ver>>
         /\ Level(row) = 2 => row = <<"vacancy">>
         /\ Level(row) = 3 => row = <<"organization">>
         /\ Level(row) = 4 => row = <<"client">>
         /\ Level(row) = 5 => /\ q.op \in {"edit", "review"}
                             /\ \E x : row = <<"rule", q.ver, x>>
<1>1. CASE row = <<"version", q.ver>>
  BY <1>1, Levels
<1>2. CASE row \in {<<"vacancy">>, <<"organization">>, <<"client">>}
  BY <1>2, Levels
<1>3. CASE q.op \in {"edit", "review"} /\ \E x : row = <<"rule", q.ver, x>>
  BY <1>3, Levels
<1> QED
  BY <1>1, <1>2, <1>3 DEF Reach

\* What a careful request waits for is not below what it holds.
LEMMA WaitsAbove ==
  ASSUME NEW r \in Web, Climbs(r), Careful(req[r]), NEW next \in NextRows(r),
         NEW row \in held[r]
  PROVE  Level(row) <= Level(next)
<1>1. /\ Reach(req[r], next) /\ next \notin held[r]
      /\ next = <<"client">> /\ req[r].op = "review" => vacancy.client \/ req[r].client
  BY NextReached
<1>2. Reach(req[r], row) /\ Above(r, row)
  BY DEF Climbs
<1>3. Level(row) \in 1..5 /\ Level(next) \in 1..5
  BY <1>1, <1>2, Levels DEF Reach
<1>4. CASE next = <<"version", req[r].ver>> /\ req[r].op \in OnVersion
  BY <1>1, <1>2, <1>3, <1>4, Levels DEF Above
<1>5. CASE next = <<"vacancy">> /\ req[r].op \in {"review", "retitle"}
  BY <1>1, <1>2, <1>3, <1>5, Levels DEF Above
<1>6. CASE next = <<"vacancy">> /\ req[r].op \in {"confirm", "extract", "copy", "status", "delete"}
  BY <1>2, <1>3, <1>6, Levels DEF Reach
<1>7. CASE next = <<"organization">> /\ req[r].op \in {"review", "retitle", "retitleOther"}
  BY <1>1, <1>2, <1>3, <1>7, Levels DEF Above
<1>8. CASE next = <<"client">> /\ req[r].op = "review"
  BY <1>1, <1>2, <1>3, <1>8, Levels DEF Above
<1>9. CASE next = <<"client">> /\ req[r].op \in {"create", "createOther", "retitle",
                                                "retitleOther"}
  BY <1>2, <1>3, <1>9, Levels DEF Reach, OnVersion, OnVacancy
<1>10. CASE \E x : next = <<"rule", req[r].ver, x>>
  BY <1>3, <1>10, Levels
<1> QED
  BY <1>1, <1>4, <1>5, <1>6, <1>7, <1>8, <1>9, <1>10 DEF Reach, OnVacancy

\* A review that may commit holds the vacancy and the organization.
LEMMA ReviewHolds ==
  ASSUME NEW r \in Web, req[r].op = "review", AtCommit(r)
  PROVE  <<"vacancy">> \in held[r] /\ <<"organization">> \in held[r]
<1> DEFINE q == req[r]
           client == IF vacancy.client \/ q.client THEN {<<"client">>} ELSE {}
<1>1. Plan(q) = <<VersionRow(q)>> \o (<<VacancyRow, {<<"organization">>}, client>>
                                         \o <<OrphanRows(q)>>)
  BY DEF AtCommit, Plan, DetailRows
<1>2. DOMAIN Plan(q) = 1..5 /\ Plan(q)[2] = VacancyRow /\ Plan(q)[3] = {<<"organization">>}
  <2> HIDE DEF client
  <2> QED
    BY <1>1, Five
<1>3. \A i \in 1..5 : Plan(q)[i] \subseteq held[r]
  BY <1>2, PlanHeld DEF AtCommit
<1> QED
  BY <1>2, <1>3 DEF VacancyRow

\* What is asked for is one of the operations.
LEMMA PagesOperate ==
  ASSUME NEW q \in Pages \cup CompanyChanges \cup Elsewhere
  PROVE  q.op \in Op
<1>1. ASSUME NEW op \in Op, NEW v, Posts(q, op, v) PROVE q.op \in Op
  BY <1>1 DEF Posts
<1>2. CASE q \in CompanyChanges \cup Copies \cup StatusChanges \cup Deletions \cup Extractions
  BY <1>2 DEF CompanyChanges, Copies, StatusChanges, Deletions, Extractions, Idle, Op
<1>3. CASE q \in Creations \cup Retitles
  BY <1>1, <1>3, FormsPost DEF Creations, Retitles, Op
<1>4. CASE q \in Edits
  <2>1. PICK v, c, p, x : q = Post("edit", v, c, p, x) \/ q = Post("save", v, c, p, x)
    BY <1>4 DEF Edits
  <2> QED
    BY <1>1, <2>1, FormsPost DEF Op
<1>5. CASE q \in Reviews
  <2>1. PICK v \in Drafts : Posts(q, "review", v)
    BY <1>5, ReviewsPost
  <2> QED
    BY <1>1, <2>1 DEF Op
<1>6. CASE q \in RuleAdditions
  <2>1. PICK v \in Drafts : Posts(q, "addRule", v)
    BY <1>6, FormsPost DEF RuleAdditions
  <2> QED
    BY <1>1, <2>1 DEF Op
<1>7. CASE q \in RuleChanges \cup RuleDeletions
  <2>1. PICK v, id, x : q = PostRule("setRule", v, id, x) \/ q = PostRule("dropRule", v, id, x)
    BY <1>7 DEF RuleChanges, RuleDeletions
  <2> QED
    BY <1>1, <2>1, FormsPost DEF Op
<1>8. CASE q \in Confirmations
  <2> DEFINE confirm(v) == Post("confirm", v, Nothing, {}, None)
  <2>1. PICK v \in Drafts : q = confirm(v) \/ q = Opening(confirm(v))
    BY <1>8 DEF Confirmations
  <2>2. Posts(confirm(v), "confirm", v)
    BY FormsPost
  <2>3. Posts(q, "confirm", v)
    BY <2>1, <2>2, FormsPost
  <2> QED
    BY <1>1, <2>3 DEF Op
<1>9. CASE q \in Elsewhere
  BY <1>9, ElsewherePosts DEF Op
<1> QED
  BY <1>2, <1>3, <1>4, <1>5, <1>6, <1>7, <1>8, <1>9 DEF Pages

\* A request goes on climbing while it keeps its operation and its version,
\* its rows do not change and the client of the vacancy it reviews does not.
LEMMA ClimbsOn ==
  ASSUME NEW r \in Web, Climbs(r), held'[r] = held[r],
         req'[r].op = req[r].op, req'[r].client = req[r].client,
         req'[r].stage = req[r].stage \/ (Running(r) /\ Running(r)'),
         req[r].op \in OnVersion => req'[r].ver = req[r].ver,
         req[r].op = "review" /\ (\E v, x : <<"rule", v, x>> \in held[r])
           => vacancy'.client = vacancy.client
  PROVE  Climbs(r)'
<1>0. /\ req'[r].op \in Op \/ req'[r].stage = "idle"
      /\ Running(r)' = Running(r) /\ Careful(req'[r]) = Careful(req[r])
      /\ ~Running(r) => held[r] = {}
  BY DEF Climbs, Careful, Running
<1> SUFFICES ASSUME Careful(req[r]), NEW row \in held[r]
             PROVE  Reach(req'[r], row) /\ Above(r, row)'
  BY <1>0 DEF Climbs
<1>1. Reach(req[r], row) /\ Above(r, row)
  BY DEF Climbs
<1>2. Reach(req'[r], row)
  BY <1>1 DEF Reach, OnVersion
<1>3. Level(row) > 4 => \E v, x : row = <<"rule", v, x>>
  BY <1>1, Levels DEF Reach
<1>4. Above(r, row)'
  BY <1>1, <1>3 DEF Above
<1> QED
  BY <1>2, <1>4

\* A request that does not move keeps its place.
LEMMA StaysPut ==
  ASSUME OrderInv, NEW r \in Web, held'[r] = held[r], req'[r] = req[r],
         req[r].op = "review" /\ (\E v, x : <<"rule", v, x>> \in held[r])
           => vacancy'.client = vacancy.client
  PROVE  Climbs(r)'
<1>1. Climbs(r) /\ Running(r)' = Running(r)
  BY DEF OrderInv, Running
<1> QED
  BY <1>1, ClimbsOn

\* A page asks without a lock.
LEMMA OrderAsk ==
  ASSUME VacancyInv, OrderInv, NEW r \in Web, Ask(r)
  PROVE  OrderInv'
<1>1. PICK q \in Pages \cup CompanyChanges \cup Elsewhere, stage \in {"calling", "asked"} :
        req' = [req EXCEPT ![r] = [q EXCEPT !.stage = stage]]
  BY DEF Ask
<1>2. IsRequest(q) /\ q.op \in Op
  BY PagesAsk, PagesOperate DEF VacancyInv
<1>3. req'[r] = [q EXCEPT !.stage = stage] /\ \A s \in Web \ {r} : req'[s] = req[s]
  BY <1>1 DEF VacancyInv, Shape
<1>4. req'[r].op \in Op
  BY <1>2, <1>3 DEF IsRequest
<1>5. held' = held /\ vacancy' = vacancy /\ ~Running(r)
  BY DEF Ask, tables, Running, Idle
<1>6. Climbs(r)'
  <2>1. held'[r] = {}
    BY <1>5 DEF OrderInv, Climbs
  <2> QED
    BY <1>4, <2>1 DEF Climbs
<1>7. \A s \in Web \ {r} : Climbs(s)'
  BY <1>3, <1>5, StaysPut
<1> QED
  BY <1>6, <1>7 DEF OrderInv

\* An answer comes between two transactions.
LEMMA OrderAnswer ==
  ASSUME VacancyInv, OrderInv, NEW r \in Web, AnswerArrives(r)
  PROVE  OrderInv'
<1>1. IsRequest(req[r]) /\ ~Running(r) /\ Climbs(r) /\ req[r].stage = "calling"
  BY DEF VacancyInv, Shape, AnswerArrives, Running, OrderInv
<1>2. PICK a : req' = [req EXCEPT ![r].stage = "asked", ![r].form = a]
  BY DEF AnswerArrives
<1>3. req'[r].op = req[r].op /\ \A s \in Web \ {r} : req'[s] = req[s]
  BY <1>1, <1>2 DEF VacancyInv, Shape, IsRequest
<1>4. held' = held /\ vacancy' = vacancy
  BY DEF AnswerArrives, tables
<1>5. Climbs(r)'
  <2>1. held'[r] = {} /\ req'[r].op \in Op
    BY <1>1, <1>3, <1>4 DEF Climbs
  <2> QED
    BY <2>1 DEF Climbs
<1>6. \A s \in Web \ {r} : Climbs(s)'
  BY <1>3, <1>4, StaysPut
<1> QED
  BY <1>5, <1>6 DEF OrderInv

\* A check locks nothing.
LEMMA OrderCheck ==
  ASSUME VacancyInv, OrderInv, NEW r \in Web, Check(r)
  PROVE  OrderInv'
<1>1. IsRequest(req[r]) /\ Climbs(r) /\ req[r].stage = "asked"
  BY DEF VacancyInv, Shape, Check, OrderInv
<1>2. PICK n, open : /\ req' = [req EXCEPT ![r].stage = "checked", ![r].open = open, ![r].ver = n]
                     /\ req[r].op \in OnVersion => n = req[r].ver
  <2>1. req[r].op \in OnVersion => req[r].op # "copy"
    BY DEF OnVersion
  <2> QED
    BY <2>1 DEF Check
<1>3. PICK x : /\ x = [req[r] EXCEPT !.stage = "checked", !.open = open, !.ver = n]
               /\ req' = [req EXCEPT ![r] = x]
  BY <1>2
<1>4. /\ x.op = req[r].op /\ x.client = req[r].client /\ x.stage = "checked" /\ x.ver = n
      /\ req'[r] = x /\ \A s \in Web \ {r} : req'[s] = req[s]
  BY <1>1, <1>3 DEF VacancyInv, Shape, IsRequest
<1>5. held' = held /\ vacancy' = vacancy
  BY DEF Check, tables
<1>6. Climbs(r)'
  BY <1>1, <1>2, <1>4, <1>5, ClimbsOn DEF Running
<1>7. \A s \in Web \ {r} : Climbs(s)'
  BY <1>4, <1>5, StaysPut
<1> QED
  BY <1>6, <1>7 DEF OrderInv

\* Locking goes upwards.
LEMMA OrderLock ==
  ASSUME VacancyInv, OrderInv, NEW r \in Web, Lock(r)
  PROVE  OrderInv'
<1>1. PICK row \in NextRows(r) : held' = [held EXCEPT ![r] = @ \cup {row}]
  BY DEF Lock
<1>2. /\ held'[r] = held[r] \cup {row} /\ \A s \in Web \ {r} : held'[s] = held[s]
      /\ req' = req /\ vacancy' = vacancy /\ Running(r) /\ Climbs(r)
  BY <1>1 DEF VacancyInv, Shape, Lock, tables, OrderInv
<1>3. \A s \in Web \ {r} : Climbs(s)'
  BY <1>2, StaysPut
<1>4. Climbs(r)'
  <2> SUFFICES ASSUME Careful(req[r]), NEW next \in held'[r]
               PROVE  Reach(req[r], next) /\ Above(r, next)'
    BY <1>2 DEF Climbs, Careful, Running
  <2>1. Reach(req[r], next) /\ Above(r, next)
    BY <1>1, <1>2, NextReached DEF Climbs
  <2> QED
    BY <1>2, <2>1 DEF Above
<1> QED
  BY <1>3, <1>4 DEF OrderInv

\* The end of a request: what it held is free, and the client of a vacancy that
\* a review has locked stays.
LEMMA OrderEnd ==
  ASSUME VacancyInv, OrderInv, NEW r \in Web, Ends(r),
         vacancy'.client = vacancy.client \/ ~Exists \/ <<"vacancy">> \in held[r]
  PROVE  OrderInv'
<1>1. /\ held'[r] = {} /\ req'[r] = Idle
      /\ \A s \in Web \ {r} : held'[s] = held[s] /\ req'[s] = req[s]
  BY DEF VacancyInv, Shape, Ends
<1>2. Climbs(r)'
  BY <1>1 DEF Climbs, Idle
<1>3. ASSUME NEW s \in Web \ {r}, req[s].op = "review",
             NEW v, NEW x, <<"rule", v, x>> \in held[s]
      PROVE  vacancy'.client = vacancy.client
  <2>1. Exists
    BY <1>3 DEF VacancyInv, Asked, Founded, OnVersion
  <2>2. <<"vacancy">> \in held[s]
    <3>1. Climbs(s) /\ Careful(req[s])
      BY <1>3 DEF OrderInv, Careful, Op
    <3>2. Above(s, <<"rule", v, x>>)
      BY <1>3, <3>1 DEF Climbs
    <3>3. Level(<<"rule", v, x>>) > 2
      BY Levels
    <3> QED
      BY <1>3, <3>2, <3>3 DEF Above
  <2>3. <<"vacancy">> \notin held[r]
    BY <1>3, <2>2 DEF VacancyInv, Apart
  <2> QED
    BY <2>1, <2>3
<1>4. \A s \in Web \ {r} : Climbs(s)'
  BY <1>1, <1>3, StaysPut
<1> QED
  BY <1>2, <1>4 DEF OrderInv

\* A commit releases all locks; the others are where they were.
LEMMA OrderCommit ==
  ASSUME VacancyInv, OrderInv, NEW r \in Web, Commit(r)
  PROVE  OrderInv'
<1> DEFINE Still == vacancy'.client = vacancy.client \/ ~Exists \/ <<"vacancy">> \in held[r]
<1>1. IsVacancy(vacancy)
  BY DEF VacancyInv, Shape
<1>2. CASE CommitCreate(r)
  BY <1>2, OrderEnd DEF CommitCreate, End, Ends
<1>3. CASE \/ CommitEdit(r) \/ CommitRule(r) \/ CommitCopy(r) \/ CommitCompany(r)
           \/ CommitExtract(r) \/ CommitElsewhere(r)
  BY <1>3, OrderEnd DEF CommitEdit, CommitRule, CommitCopy, CommitCompany, CommitExtract,
                        CommitElsewhere, tables, End, Ends
<1>4. CASE CommitReview(r)
  BY <1>4, ReviewHolds, OrderEnd DEF CommitReview, Ready, End, Ends
<1>5. CASE CommitConfirm(r)
  <2>1. Still
    BY <1>1, <1>5 DEF CommitConfirm, IsVacancy
  <2> QED
    BY <1>5, <2>1, OrderEnd DEF CommitConfirm, End, Ends
<1>6. CASE CommitVacancy(r)
  <2>1. req[r].op \in {"status", "delete", "retitle"} /\ req[r].stage = "checked"
    BY <1>6 DEF CommitVacancy, Ready, AtCommit
  <2>2. <<"vacancy">> \in held[r]
    BY <2>1 DEF VacancyInv, Standing, Stands, OnVacancy
  <2> QED
    BY <1>6, <2>2, OrderEnd DEF CommitVacancy, End, Ends
<1> QED
  BY <1>2, <1>3, <1>4, <1>5, <1>6 DEF Commit

\* At the start nothing is locked.
LEMMA OrderInit == Init => OrderInv
BY DEF Init, Idle, OrderInv, Climbs

\* The lock order is kept by every step.
LEMMA OrderNext == VacancyInv /\ OrderInv /\ [Next]_vars => OrderInv'
<1> SUFFICES ASSUME VacancyInv, OrderInv, [Next]_vars PROVE OrderInv'
  OBVIOUS
<1>1. CASE UNCHANGED vars
  BY <1>1, StaysPut DEF vars, OrderInv
<1>2. ASSUME NEW r \in Web, Abort(r) PROVE OrderInv'
  BY <1>2, OrderEnd DEF Abort, Ends, tables
<1> QED
  BY <1>1, <1>2, OrderAsk, OrderAnswer, OrderLock, OrderCheck, OrderCommit DEF Next

\* The rows that a request waits for, at a lock or at its commit.
Awaits(r, x) == \/ x \in NextRows(r)
                \/ AtCommit(r) /\ x \in ShareRows(r)
Steady(r) == Careful(req[r]) /\ ~OutOfOrder(r)

\* Where two edits of one version meet, they meet at the version: who waits for
\* a rule holds the version of the rule.
LEMMA RulesAside ==
  ASSUME Apart, OrderInv, NEW r \in Web, NEW s \in Web, r # s, Steady(r), Steady(s),
         NEW x \in held[s], Awaits(r, x)
  PROVE  Level(x) < 5
<1>1. Reach(req[s], x) /\ Above(s, x)
  BY DEF OrderInv, Climbs, Steady
<1>2. Level(x) \in 1..5
  BY <1>1, ReachLevels
<1>3. CASE x \in NextRows(r)
  <2>1. Reach(req[r], x) /\ Above(r, x)
    BY <1>3, NextReached DEF Steady
  <2> SUFFICES ASSUME Level(x) = 5 PROVE FALSE
    BY <1>2
  <2>2. PICK k, l : x = <<"rule", req[r].ver, k>> /\ x = <<"rule", req[s].ver, l>>
    BY <1>1, <2>1, ReachLevels
  <2>3. req[r].op \in {"edit", "review"} /\ req[s].op \in {"edit", "review"}
    BY <1>1, <2>1, ReachLevels
  <2>4. <<"version", req[r].ver>> \in held[r] /\ <<"version", req[s].ver>> \in held[s]
    BY <1>1, <2>1, <2>3 DEF Above, OnVersion
  <2>5. req[r].ver = req[s].ver
    BY <2>2
  <2> QED
    BY <2>4, <2>5 DEF Apart
<1>4. CASE x \in ShareRows(r)
  BY <1>4, Levels DEF ShareRows
<1> QED
  BY <1>3, <1>4 DEF Awaits

\* In a circle of waiting requests every row is above the one before.
LEMMA Ascent ==
  ASSUME Apart, OrderInv, NEW r \in Web, NEW s \in Web, NEW t \in Web, r # s, s # t,
         Steady(r), Steady(s), Steady(t),
         NEW x \in held[s], Awaits(r, x), NEW y \in held[t], Awaits(s, y)
  PROVE  Level(x) \in 1..4 /\ Level(y) \in 1..4 /\ Level(x) < Level(y)
<1>1. Reach(req[s], x) /\ Climbs(s) /\ Reach(req[t], y)
  BY DEF OrderInv, Climbs, Steady
<1>2. Level(x) \in 1..4 /\ Level(y) \in 1..4
  <2>1. Level(x) \in 1..5 /\ Level(y) \in 1..5
    BY <1>1, ReachLevels
  <2> QED
    BY <2>1, RulesAside
<1>3. CASE y \in NextRows(s)
  <2>1. Reach(req[s], y) /\ y \notin held[s] /\ Level(x) <= Level(y)
    BY <1>1, <1>3, NextReached, WaitsAbove DEF Steady
  <2>2. x # y
    BY <2>1
  <2>3. Level(x) # Level(y)
    <3>1. CASE Level(x) = 1
      BY <1>1, <2>1, <2>2, <3>1, ReachLevels
    <3>2. CASE Level(x) \in {2, 3, 4}
      BY <1>1, <2>1, <2>2, <3>2, ReachLevels
    <3> QED
      BY <1>2, <3>1, <3>2
  <2> QED
    BY <1>2, <2>1, <2>3
<1>4. CASE AtCommit(s) /\ y \in ShareRows(s)
  <2>1. y = <<"organization">> /\ req[s].op \in Inserts \cup MayInsert
    BY <1>4 DEF ShareRows
  <2>2. req[s].op \in {"delete", "edit", "save", "review", "extract"}
    BY <1>4, <2>1 DEF Inserts, MayInsert, Steady, OutOfOrder
  <2>3. req[s].op # "review"
    <3>1. ASSUME req[s].op = "review" PROVE FALSE
      <4>1. <<"organization">> \in held[s]
        BY <1>4, <3>1, ReviewHolds
      <4> QED
        BY <2>1, <4>1 DEF Apart
    <3> QED
      BY <3>1
  <2>4. x # <<"organization">> /\ x # <<"client">>
    BY <1>1, <2>2, <2>3, Levels DEF Reach
  <2>5. Level(x) \in {1, 2}
    BY <1>1, <1>2, <2>4, ReachLevels
  <2> QED
    BY <1>2, <2>1, <2>5, Levels
<1> QED
  BY <1>3, <1>4 DEF Awaits

\* select_for_update and select_related, and the foreign keys checked at the
\* commit: however many transactions on a vacancy (vacancies/services.py,
\* matching/services.py, organizations/services.py) wait for one another, one of
\* them edits a rule or the state of the client company, or is committing a new
\* vacancy.
THEOREM VacancyDeadlocks == Spec => []DeadlockNeedsOutOfOrder
<1>1. Spec => [](VacancyInv /\ OrderInv)
  <2>1. VacancyInv /\ OrderInv /\ [Next]_vars => (VacancyInv /\ OrderInv)'
    BY InvNext, OrderNext
  <2>2. Init => VacancyInv /\ OrderInv
    BY InvInit, OrderInit
  <2> QED
    BY <2>1, <2>2, PTL DEF Spec
<1>2. VacancyInv /\ OrderInv => DeadlockNeedsOutOfOrder
  <2> SUFFICES ASSUME VacancyInv, OrderInv, NEW S \in SUBSET Web, Deadlocked(S),
                      \A r \in S : ~OutOfOrder(r)
               PROVE  FALSE
    BY DEF DeadlockNeedsOutOfOrder
  <2> DEFINE Link(r, s, x) == r # s /\ x \in held[s] /\ Awaits(r, x)
  <2>1. \A r \in S : \E s \in S : \E x : Link(r, s, x)
    <3> SUFFICES ASSUME NEW r \in S PROVE \E s \in S : \E x : Link(r, s, x)
      OBVIOUS
    <3>1. PICK s \in S : Blocks(s, r)
      BY DEF Deadlocked
    <3>2. CASE NextRows(r) \cap held[s] # {}
      <4>1. PICK x : x \in NextRows(r) /\ x \in held[s]
        BY <3>2
      <4>2. r # s
        <5>1. NextRows(r) \cap held[r] = {}
          BY DEF NextRows
        <5> QED
          BY <4>1, <5>1
      <4> QED
        BY <4>1, <4>2 DEF Awaits
    <3>3. CASE s # r /\ AtCommit(r) /\ ShareRows(r) \cap held[s] # {}
      BY <3>3 DEF Awaits
    <3> QED
      BY <3>1, <3>2, <3>3 DEF Blocks
  <2>2. \A r \in S : Steady(r)
    <3> SUFFICES ASSUME NEW r \in S PROVE Careful(req[r])
      BY DEF Steady
    <3>1. \E s \in S : Blocks(s, r)
      BY DEF Deadlocked
    <3>2. req[r].op \in Op
      BY <3>1 DEF OrderInv, Climbs, Blocks, AtCommit, Running
    <3> QED
      BY <3>2 DEF Careful, OutOfOrder
  <2> DEFINE At(n) == \E r \in S, s \in S : \E x : Link(r, s, x) /\ Level(x) = n
  <2>3. ASSUME NEW n, At(n) PROVE n \in 1..4 /\ \E m \in 1..4 : n < m /\ At(m)
    <3>0. PICK r \in S, s \in S : \E x : Link(r, s, x) /\ Level(x) = n
      BY <2>3
    <3>1. PICK x : Link(r, s, x) /\ Level(x) = n
      BY <3>0
    <3>2. PICK t \in S : \E y : Link(s, t, y)
      BY <2>1
    <3>4. PICK y : Link(s, t, y)
      BY <3>2
    <3>3. Level(x) \in 1..4 /\ Level(y) \in 1..4 /\ Level(x) < Level(y)
      BY <2>2, <3>1, <3>4, Ascent DEF VacancyInv
    <3> QED
      BY <3>1, <3>3, <3>4
  <2>4. \E n : At(n)
    <3>1. PICK r \in S : TRUE
      BY DEF Deadlocked
    <3>2. PICK s \in S : \E x : Link(r, s, x)
      BY <2>1
    <3> QED
      BY <3>2
  <2> HIDE DEF At
  <2>5. ~At(4)
    BY <2>3
  <2>6. ~At(3)
    BY <2>3, <2>5
  <2>7. ~At(2)
    BY <2>3, <2>5, <2>6
  <2>8. ~At(1)
    BY <2>3, <2>5, <2>6, <2>7
  <2> QED
    BY <2>3, <2>4, <2>5, <2>6, <2>7, <2>8
<1> QED
  BY <1>1, <1>2, PTL
=============================================================================
