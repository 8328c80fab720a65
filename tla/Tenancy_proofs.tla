--------------------------- MODULE Tenancy_proofs ---------------------------
(***************************************************************************)
(* Theorems about Tenancy, for any users, requests, files and bounds.      *)
(***************************************************************************)
EXTENDS Tenancy, TLAPS

-----------------------------------------------------------------------------
(* The inductive invariant. *)

\* A request that the lock has let in holds it, so there is one at a time.
LockHeld ==
  \A r \in Request : req[r].stage \in {"locked", "decided"} =>
    lock = r /\ req[r].op \notin Unlocked

\* Only the command purges, and who changes a membership names its user.
Posted ==
  /\ req[Timer].op \in {"none", "purge"}
  /\ \A r \in Request :
       req[r].op \in {"addAdmin", "addRecruiter", "grant", "revoke"} => req[r].who \in User
  /\ \A r \in Request : req[r].op = "upload" => req[r].arg \in File

\* Memberships stay until the purge.
Enlisted == org # "purged" =>
  \A r \in Request : req[r].op \in {"grant", "revoke"} => member[req[r].who] # NoMember

\* What a request found stands until it commits.
Sound(r) ==
  /\ Exists
  /\ req[r].op \in {"addAdmin", "addRecruiter"} => member[req[r].who] = NoMember
  /\ req[r].op = "revoke" => Dispensable(req[r].who)
  /\ req[r].op \in {"suspend", "recover"} => rows \subseteq files
  /\ req[r].op = "purge" => deadline = "passed" /\ ~policy.hold /\ ~exempt
Decisions == \A r \in Request : req[r].stage = "decided" => Sound(r)

\* Files go only after the window has ended; by then nobody edits the policy or
\* an exception any more.
Whole == deadline # "passed" => rows \subseteq files
Quiet == deadline = "passed" => \A r \in Request : req[r].op \notin Unlocked

TenantInv ==
  /\ TypeOK /\ LockHeld /\ Posted /\ Enlisted
  /\ Decisions /\ Whole /\ Quiet /\ AdminRemains

-----------------------------------------------------------------------------
\* A request that stops being one leaves the others as they are, the lock included.
LEMMA Leaving ==
  ASSUME TypeOK, LockHeld, Posted, NEW r \in Request, Leave(r)
  PROVE  /\ req' \in [Request -> RequestRow] /\ lock' \in Request \cup {NoOne}
         /\ LockHeld' /\ Posted'
         /\ req'[r].stage = "idle" /\ req'[r].op = "none"
         /\ \A s \in Request \ {r} : req'[s] = req[s]
<1>1. Idle \in RequestRow /\ Idle.stage = "idle" /\ Idle.op = "none"
  BY DEF Idle, RequestRow
<1>2. /\ req' \in [Request -> RequestRow]
      /\ req'[r] = Idle /\ \A s \in Request \ {r} : req'[s] = req[s]
  BY <1>1 DEF Leave, TypeOK
<1>3. lock' \in Request \cup {NoOne} /\ (lock # r => lock' = lock)
  BY DEF Leave, TypeOK
<1>4. LockHeld'
  <2> SUFFICES ASSUME NEW s \in Request, req'[s].stage \in {"locked", "decided"}
               PROVE  lock' = s /\ req'[s].op \notin Unlocked
    BY DEF LockHeld
  <2>1. s # r /\ req'[s] = req[s]
    BY <1>1, <1>2
  <2> QED
    BY <1>3, <2>1 DEF LockHeld
<1>5. Timer \in Request
  BY DEF Request
<1>6. Posted'
  BY <1>1, <1>2, <1>5 DEF Posted
<1> QED
  BY <1>1, <1>2, <1>3, <1>4, <1>6

\* While one request has decided, no other request has.
LEMMA OneDecides ==
  ASSUME LockHeld, NEW r \in Request, req[r].stage \in {"locked", "decided"},
         NEW s \in Request, req[s].stage \in {"locked", "decided"}
  PROVE  s = r
BY DEF LockHeld

\* A commit of request r: it kept the lock to itself, so nobody else has decided,
\* and what remains to show is what its writes do to the tenant.
LEMMA CommitStep ==
  ASSUME TenantInv, NEW r \in Request, req[r].stage = "decided", Leave(r),
         TypeOK', Whole', AdminRemains', deadline' = "passed" => deadline = "passed",
         org' # "purged" => \A u \in User : member[u] # NoMember => member'[u] # NoMember
  PROVE  TenantInv'
<1>1. LockHeld' /\ Posted' /\ req'[r].stage = "idle" /\ req'[r].op = "none"
  BY Leaving DEF TenantInv
<1>2. \A s \in Request \ {r} : req'[s] = req[s]
  BY Leaving DEF TenantInv
<1>3. Decisions'
  <2> SUFFICES ASSUME NEW s \in Request, req'[s].stage = "decided"
               PROVE  FALSE
    BY DEF Decisions
  <2>1. s # r /\ req[s].stage = "decided"
    BY <1>1, <1>2
  <2> QED
    BY <2>1, OneDecides DEF TenantInv
<1>4. Quiet'
  BY <1>1, <1>2 DEF Quiet, Unlocked, TenantInv
<1>5. Enlisted'
  <2>1. org # "purged"
    BY DEF TenantInv, Decisions, Sound, Exists
  <2> QED
    BY <1>1, <1>2, <2>1 DEF Enlisted, Posted, TenantInv
<1> QED
  BY <1>1, <1>3, <1>4, <1>5 DEF TenantInv

\* A step of request r to q that leaves the tables alone: q must hold the lock if
\* it is past it, and be sound if it has decided.
Kept == UNCHANGED <<tenant, rules, blobs, mishaps>>
Grant(r) == lock' = lock \/ (lock = NoOne /\ lock' = r)
Fit(r, q) ==
  /\ q \in RequestRow
  /\ q.stage \in {"locked", "decided"} => lock' = r /\ q.op \notin Unlocked
  /\ r = Timer => q.op \in {"none", "purge"}
  /\ q.op \in {"addAdmin", "addRecruiter", "grant", "revoke"} => q.who \in User
  /\ q.op = "upload" => q.arg \in File
  /\ q.op \in {"grant", "revoke"} /\ org # "purged" => member[q.who] # NoMember
  /\ q.op \in Unlocked => deadline # "passed"
  /\ q.stage = "decided" =>
       /\ Exists
       /\ q.op \in {"addAdmin", "addRecruiter"} => member[q.who] = NoMember
       /\ q.op = "revoke" => Dispensable(q.who)
       /\ q.op \in {"suspend", "recover"} => rows \subseteq files
       /\ q.op = "purge" => deadline = "passed" /\ ~policy.hold /\ ~exempt

\* A request that goes on to the next stage.
LEMMA StageStep ==
  ASSUME TenantInv, NEW r \in Request, NEW q, Fit(r, q), Kept, Grant(r),
         req' = [req EXCEPT ![r] = q]
  PROVE  TenantInv'
<1> USE DEF Kept
<1>1. req' \in [Request -> RequestRow] /\ req'[r] = q
      /\ \A s \in Request \ {r} : req'[s] = req[s]
  BY DEF TenantInv, TypeOK, Fit
<1>2. lock' \in Request \cup {NoOne}
  BY DEF TenantInv, TypeOK, Grant
<1>3. TypeOK'
  BY <1>1, <1>2 DEF TenantInv, TypeOK, tenant, rules, blobs
<1>4. LockHeld'
  <2> SUFFICES ASSUME NEW s \in Request, req'[s].stage \in {"locked", "decided"}
               PROVE  lock' = s /\ req'[s].op \notin Unlocked
    BY DEF LockHeld
  <2>1. CASE s = r
    BY <1>1, <2>1 DEF Fit
  <2>2. CASE s # r
    <3>1. lock = s /\ req[s].op \notin Unlocked
      BY <1>1, <2>2 DEF LockHeld, TenantInv
    <3>2. s # NoOne
      BY TenancyAssumption DEF Request
    <3> QED
      BY <1>1, <2>2, <3>1, <3>2 DEF Grant
  <2> QED
    BY <2>1, <2>2
<1>5. Posted'
  BY <1>1 DEF Posted, TenantInv, Request, Fit
<1>6. Decisions'
  <2> SUFFICES ASSUME NEW s \in Request, req'[s].stage = "decided"
               PROVE  Sound(s)'
    BY DEF Decisions
  <2>1. CASE s = r
    BY <1>1, <2>1 DEF Fit, Sound, Exists, Dispensable, OtherAdmins, tenant, rules, blobs
  <2>2. CASE s # r
    BY <1>1, <2>2 DEF TenantInv, Decisions, Sound, Exists, Dispensable, OtherAdmins,
                      tenant, rules, blobs
  <2> QED
    BY <2>1, <2>2
<1>7. Whole' /\ AdminRemains'
  BY DEF TenantInv, Whole, AdminRemains, Exists, tenant, rules, blobs
<1>8. Quiet' /\ Enlisted'
  BY <1>1 DEF TenantInv, Quiet, Enlisted, Fit, tenant
<1> QED
  BY <1>3, <1>4, <1>5, <1>6, <1>7, <1>8 DEF TenantInv

-----------------------------------------------------------------------------
(* One lemma for each kind of step. *)

\* provision_organization: an owner and an organization.
LEMMA ProvisionStep ==
  ASSUME TenantInv, NEW u \in User, NEW w \in Staff, Provision(u, w)
  PROVE  TenantInv'
<1>1. w \in User
  BY TenancyAssumption
<1>2. TypeOK'
  <2>1. account' \in [User -> {"none", "temporary", "ready"}]
    BY <1>1 DEF TenantInv, TypeOK, Provision, Linked
  <2>2. Admin \in Membership /\ member' \in [User -> Membership]
    BY <1>1 DEF TenantInv, TypeOK, Provision, Admin, Membership
  <2>3. policy' \in Policy
    BY TenancyAssumption DEF Provision, Policy
  <2> QED
    BY <2>1, <2>2, <2>3 DEF TenantInv, TypeOK, Provision, blobs
<1>3. LockHeld' /\ Posted' /\ Whole' /\ Quiet'
  BY DEF TenantInv, Provision, LockHeld, Posted, Whole, Quiet, blobs
<1>4. Decisions'
  BY DEF TenantInv, Provision, Decisions, Sound, Exists
<1>6. Enlisted'
  BY DEF TenantInv, TypeOK, Posted, Enlisted, Provision, Admin, NoMember
<1>5. AdminRemains'
  <2>1. member'[w] = Admin
    BY <1>1 DEF TenantInv, TypeOK, Provision
  <2> QED
    BY <1>1, <2>1 DEF AdminRemains
<1> QED
  BY <1>2, <1>3, <1>4, <1>5, <1>6 DEF TenantInv

\* A managed account gets its own password.
LEMMA PasswordStep ==
  ASSUME TenantInv, NEW u \in User, ChangePassword(u)
  PROVE  TenantInv'
<1>1. TypeOK'
  BY DEF TenantInv, TypeOK, ChangePassword, rules, blobs
<1>2. LockHeld' /\ Posted' /\ Enlisted' /\ Whole' /\ Quiet' /\ AdminRemains'
  BY DEF TenantInv, Enlisted, ChangePassword, LockHeld, Posted, Whole, Quiet, AdminRemains, Exists, blobs
<1>3. Decisions'
  BY DEF TenantInv, ChangePassword, Decisions, Sound, Exists, Dispensable, OtherAdmins,
         rules, blobs
<1> QED
  BY <1>1, <1>2, <1>3 DEF TenantInv

\* What a page posts is well formed, and only the page of an organization in use
\* edits its policy.
LEMMA PagesPost ==
  ASSUME TypeOK, NEW u \in User, NEW q \in Pages(u)
  PROVE  /\ q \in RequestRow /\ q.stage = "checked"
         /\ q.op \in {"addAdmin", "addRecruiter", "grant", "revoke"} => q.who \in User
         /\ q.op = "upload" => q.arg \in File
         /\ q.op \in {"grant", "revoke"} => member[q.who] # NoMember
         /\ q.op \in Unlocked => deadline # "passed"
<1>1. PICK op \in UserOp, w \in User \cup {NoOne}, x \in File \cup {"none", "on", "off"} :
        /\ q = Post(u, op, w, x)
        /\ op \in {"addAdmin", "addRecruiter", "grant", "revoke"} => w \in User
        /\ op = "upload" => x \in File
        /\ op \in {"grant", "revoke"} => member[w].role # "none"
        /\ op \in Unlocked => org = "active"
  <2>1. Staff \subseteq User
    BY TenancyAssumption
  <2>2. CASE q \in AdministratorAdditions(u)
    BY <2>1, <2>2 DEF AdministratorAdditions, UserOp, Unlocked
  <2>3. CASE q \in RecruiterAdditions(u)
    BY <2>1, <2>3 DEF RecruiterAdditions, UserOp, Unlocked
  <2>4. CASE q \in AdministratorChanges(u)
    BY <2>1, <2>4 DEF AdministratorChanges, Having, UserOp, Unlocked
  <2>5. CASE q \in RecruiterChanges(u)
    BY <2>1, <2>5 DEF RecruiterChanges, Having, UserOp, Unlocked
  <2>6. CASE q \in PlatformSuspensions(u)
    BY <2>6 DEF PlatformSuspensions, UserOp, Unlocked
  <2>7. CASE q \in TenantSuspensions(u)
    BY <2>7 DEF TenantSuspensions, UserOp, Unlocked
  <2>8. CASE q \in Recoveries(u)
    BY <2>8 DEF Recoveries, UserOp, Unlocked
  <2>9. CASE q \in RetentionPages(u)
    BY <2>9 DEF RetentionPages, Administers, UserOp, Unlocked
  <2>10. CASE q \in Uploads(u)
    BY <2>10 DEF Uploads, UserOp, Unlocked
  <2> QED
    BY <2>2, <2>3, <2>4, <2>5, <2>6, <2>7, <2>8, <2>9, <2>10 DEF Pages
<1>2. /\ q \in RequestRow /\ q.stage = "checked" /\ q.op = op /\ q.who = w /\ q.arg = x
  BY <1>1 DEF Post, Idle, RequestRow
<1> QED
  BY <1>1, <1>2 DEF TypeOK, NoMember

\* A page checks the permission and asks.
LEMMA AskStep ==
  ASSUME TenantInv, NEW r \in Web, NEW u \in User, Ask(r, u)
  PROVE  TenantInv'
<1>1. PICK q \in Pages(u) : req' = [req EXCEPT ![r] = q]
  BY DEF Ask
<1>2. r \in Request /\ r # Timer
  BY TenancyAssumption DEF Request
<1>3. Kept /\ lock' = lock
  BY DEF Ask, Kept
<1>4. TypeOK
  BY DEF TenantInv
<1>5. /\ q \in RequestRow /\ q.stage = "checked"
      /\ q.op \in {"addAdmin", "addRecruiter", "grant", "revoke"} => q.who \in User
      /\ q.op = "upload" => q.arg \in File
      /\ q.op \in {"grant", "revoke"} => member[q.who] # NoMember
      /\ q.op \in Unlocked => deadline # "passed"
  BY <1>4, PagesPost
<1>6. Fit(r, q) /\ Grant(r)
  BY <1>2, <1>3, <1>5 DEF Fit, Grant
<1> QED
  BY <1>1, <1>2, <1>3, <1>6, StageStep

\* The daily command starts a purge.
LEMMA StartPurgeStep ==
  ASSUME TenantInv, StartPurge
  PROVE  TenantInv'
<1> DEFINE q == [Idle EXCEPT !.op = "purge", !.stage = "checked"]
<1>1. q \in RequestRow /\ q.stage = "checked" /\ q.op = "purge"
  BY DEF Idle, RequestRow
<1>2. Timer \in Request
  BY DEF Request
<1>3. /\ req' = [req EXCEPT ![Timer] = q]
      /\ Kept /\ lock' = lock
  BY DEF StartPurge, Kept
<1> HIDE DEF q
<1>4. Fit(Timer, q) /\ Grant(Timer)
  BY <1>1, <1>3 DEF Fit, Grant, Unlocked
<1> QED
  BY <1>1, <1>2, <1>3, <1>4, StageStep

\* A request takes the lock on the organization.
LEMMA LockStep ==
  ASSUME TenantInv, NEW r \in Request, Lock(r)
  PROVE  TenantInv'
<1> DEFINE q == [req[r] EXCEPT !.stage = "locked"]
<1>1. req[r] \in RequestRow /\ req[r].op \notin Unlocked
  BY DEF TenantInv, TypeOK, Lock
<1>2. q \in RequestRow /\ q.stage = "locked" /\ q.op = req[r].op /\ q.who = req[r].who
      /\ q.arg = req[r].arg
  BY <1>1 DEF RequestRow
<1>3. req' = [req EXCEPT ![r] = q]
  BY DEF Lock, Stage
<1>4. lock = NoOne /\ lock' = r /\ Kept
  BY DEF Lock, Kept
<1>5. r = Timer => q.op \in {"none", "purge"}
  BY <1>2 DEF TenantInv, Posted
<1>6. /\ q.op \in {"addAdmin", "addRecruiter", "grant", "revoke"} => q.who \in User
      /\ q.op = "upload" => q.arg \in File
      /\ q.op \in {"grant", "revoke"} /\ org # "purged" => member[q.who] # NoMember
  BY <1>2 DEF TenantInv, Posted, Enlisted
<1> HIDE DEF q
<1>7. Fit(r, q) /\ Grant(r)
  BY <1>1, <1>2, <1>4, <1>5, <1>6 DEF Fit, Grant
<1> QED
  BY <1>3, <1>4, <1>7, StageStep

\* A refused request, or one that fails and is rolled back.
LEMMA BreakOff ==
  ASSUME TenantInv, NEW r \in Request, Leave(r), UNCHANGED <<tenant, rules, blobs>>,
         mishaps' \in 0..MaxMishap
  PROVE  TenantInv'
<1>1. /\ req' \in [Request -> RequestRow] /\ lock' \in Request \cup {NoOne}
      /\ LockHeld' /\ Posted'
      /\ req'[r].stage = "idle" /\ req'[r].op = "none"
      /\ \A s \in Request \ {r} : req'[s] = req[s]
  BY Leaving DEF TenantInv
<1>2. TypeOK' /\ Whole' /\ AdminRemains'
  BY <1>1 DEF TenantInv, TypeOK, Whole, AdminRemains, Exists, tenant, rules, blobs
<1>3. Decisions'
  BY <1>1 DEF TenantInv, Decisions, Sound, Exists, Dispensable, OtherAdmins,
              tenant, rules, blobs
<1>4. Quiet' /\ Enlisted'
  BY <1>1 DEF TenantInv, Quiet, Enlisted, Unlocked, tenant
<1> QED
  BY <1>1, <1>2, <1>3, <1>4 DEF TenantInv

\* The checks under the lock establish what the commits rely on.
LEMMA DecideStep ==
  ASSUME TenantInv, NEW r \in Request, Decide(r)
  PROVE  TenantInv'
<1>1. /\ req[r] \in RequestRow /\ rows \subseteq File
      /\ lock = r /\ req[r].op \notin Unlocked
  BY DEF TenantInv, TypeOK, LockHeld, Decide
<1>2. CASE /\ Allowed(r)
           /\ req' = [req EXCEPT ![r].stage = "decided",
                                 ![r].left = IF req[r].op = "purge" THEN rows ELSE {}]
           /\ UNCHANGED <<tenant, rules, blobs, lock, mishaps>>
  <2> DEFINE q == [req[r] EXCEPT !.stage = "decided",
                                 !.left = IF req[r].op = "purge" THEN rows ELSE {}]
  <2>1. /\ q \in RequestRow /\ q.stage = "decided"
        /\ q.op = req[r].op /\ q.who = req[r].who /\ q.arg = req[r].arg
    BY <1>1 DEF RequestRow
  <2>2. req' = [req EXCEPT ![r] = q]
    BY <1>2 DEF TenantInv, TypeOK
  <2>3. lock' = r /\ lock' = lock /\ Kept
    BY <1>1, <1>2 DEF Kept
  <2>4. /\ r = Timer => q.op \in {"none", "purge"}
        /\ q.op \in {"addAdmin", "addRecruiter", "grant", "revoke"} => q.who \in User
        /\ q.op = "upload" => q.arg \in File
        /\ q.op \in {"grant", "revoke"} /\ org # "purged" => member[q.who] # NoMember
    BY <2>1 DEF TenantInv, Posted, Enlisted
  <2>5. /\ Exists
        /\ q.op \in {"addAdmin", "addRecruiter"} => member[q.who] = NoMember
        /\ q.op = "revoke" => Dispensable(q.who)
        /\ q.op = "suspend" => org = "active"
        /\ q.op = "recover" => WindowOpen
        /\ q.op = "purge" => deadline = "passed" /\ ~Held
    BY <1>2, <2>1 DEF Allowed
  <2>6. /\ q.op \in {"suspend", "recover"} => rows \subseteq files
        /\ q.op = "purge" => deadline = "passed" /\ ~policy.hold /\ ~exempt
    BY <2>5 DEF TenantInv, TypeOK, Whole, WindowOpen, Held
  <2> HIDE DEF q
  <2>7. Fit(r, q) /\ Grant(r)
    BY <1>1, <2>1, <2>3, <2>4, <2>5, <2>6 DEF Fit, Grant
  <2> QED
    BY <2>2, <2>3, <2>7, StageStep
<1>3. CASE ~Allowed(r) /\ Refuse(r)
  <2>1. Leave(r) /\ UNCHANGED <<tenant, rules, blobs>> /\ mishaps' \in 0..MaxMishap
    BY <1>3 DEF Refuse, TenantInv, TypeOK
  <2> QED
    BY <2>1, BreakOff
<1> QED
  BY <1>2, <1>3 DEF Decide

\* A membership is added.
LEMMA CommitAddStep ==
  ASSUME TenantInv, NEW r \in Request, CommitAdd(r)
  PROVE  TenantInv'
<1>1. /\ req[r].stage = "decided" /\ Leave(r) /\ Sound(r) /\ req[r].who \in User
      /\ member[req[r].who] = NoMember
  BY DEF TenantInv, CommitAdd, Decided, Decisions, Posted, Sound
<1>2. TypeOK'
  <2>1. account' \in [User -> {"none", "temporary", "ready"}]
    BY <1>1 DEF TenantInv, TypeOK, CommitAdd, Linked
  <2>2. member' \in [User -> Membership]
    BY <1>1 DEF TenantInv, TypeOK, CommitAdd, Membership
  <2>3. req' \in [Request -> RequestRow] /\ lock' \in Request \cup {NoOne}
    BY <1>1, Leaving DEF TenantInv
  <2> QED
    BY <2>1, <2>2, <2>3 DEF TenantInv, TypeOK, CommitAdd, rules, blobs
<1>3. Whole'
  BY DEF TenantInv, Whole, CommitAdd, blobs
<1>4. AdminRemains'
  <2>1. PICK u \in User : member[u] = Admin
    BY <1>1 DEF TenantInv, AdminRemains, Sound
  <2>2. u # req[r].who
    BY <1>1, <2>1 DEF Admin, NoMember
  <2>3. member'[u] = Admin
    BY <2>1, <2>2 DEF TenantInv, TypeOK, CommitAdd
  <2> QED
    BY <2>3 DEF AdminRemains
<1>5. \A u \in User : member[u] # NoMember => member'[u] # NoMember
  BY <1>1 DEF TenantInv, TypeOK, CommitAdd, NoMember
<1>6. deadline' = deadline
  BY DEF CommitAdd
<1> QED
  BY <1>1, <1>2, <1>3, <1>4, <1>5, <1>6, CommitStep

\* A membership is activated or deactivated.
LEMMA CommitAccessStep ==
  ASSUME TenantInv, NEW r \in Request, CommitAccess(r)
  PROVE  TenantInv'
<1>1. /\ req[r].stage = "decided" /\ Leave(r) /\ Sound(r) /\ req[r].who \in User
      /\ req[r].op \in {"grant", "revoke"}
      /\ req[r].op = "revoke" => Dispensable(req[r].who)
  BY DEF TenantInv, CommitAccess, Decided, Decisions, Posted, Sound
<1>2. TypeOK'
  <2>1. member' \in [User -> Membership]
    <3>1. member[req[r].who] \in Membership /\ member[req[r].who] # NoMember
      BY <1>1 DEF TenantInv, TypeOK, Enlisted, Sound, Exists
    <3>2. [member[req[r].who] EXCEPT !.active = req[r].op = "grant"] \in Membership
      BY <3>1 DEF Membership, NoMember
    <3> QED
      BY <3>2 DEF TenantInv, TypeOK, CommitAccess
  <2>2. req' \in [Request -> RequestRow] /\ lock' \in Request \cup {NoOne}
    BY <1>1, Leaving DEF TenantInv
  <2> QED
    BY <2>1, <2>2 DEF TenantInv, TypeOK, CommitAccess, rules, blobs
<1>3. Whole'
  BY DEF TenantInv, Whole, CommitAccess, blobs
<1>4. AdminRemains'
  <2>1. PICK a \in User : member[a] = Admin /\ (req[r].op = "revoke" => a # req[r].who)
    <3>1. PICK u \in User : member[u] = Admin
      BY <1>1 DEF TenantInv, AdminRemains, Sound
    <3>2. CASE req[r].op = "revoke" /\ u = req[r].who
      BY <1>1, <3>1, <3>2 DEF Dispensable, OtherAdmins, Admin
    <3> QED
      BY <3>1, <3>2
  <2>2. member'[a] = Admin
    <3>1. CASE a # req[r].who
      BY <2>1, <3>1 DEF TenantInv, TypeOK, CommitAccess
    <3>2. CASE a = req[r].who
      <4>1. member'[a] = [Admin EXCEPT !.active = TRUE]
        BY <1>1, <2>1, <3>2 DEF TenantInv, TypeOK, CommitAccess
      <4> QED
        BY <4>1 DEF Admin
    <3> QED
      BY <3>1, <3>2
  <2> QED
    BY <2>2 DEF AdminRemains
<1>5. ASSUME NEW u \in User, member[u] # NoMember
      PROVE  member'[u] # NoMember
  <2>1. member[u] \in [role : {"admin", "recruiter"}, active : BOOLEAN]
    BY <1>5 DEF TenantInv, TypeOK, Membership
  <2>2. member'[u] = member[u] \/ member'[u] = [member[u] EXCEPT !.active = req[r].op = "grant"]
    BY DEF TenantInv, TypeOK, CommitAccess
  <2>3. member'[u].role = member[u].role
    BY <2>1, <2>2
  <2> QED
    BY <2>1, <2>3 DEF NoMember
<1>6. deadline' = deadline
  BY DEF CommitAccess
<1> QED
  BY <1>1, <1>2, <1>3, <1>4, <1>5, <1>6, CommitStep

\* The organization is suspended.
LEMMA CommitSuspendStep ==
  ASSUME TenantInv, NEW r \in Request, CommitSuspend(r)
  PROVE  TenantInv'
<1>1. /\ req[r].stage = "decided" /\ Leave(r) /\ Sound(r)
      /\ UNCHANGED <<account, member, rules, blobs, mishaps>>
      /\ org' = "suspended" /\ deadline' = "ahead"
  BY DEF TenantInv, CommitSuspend, Decided, Decisions
<1>2. req' \in [Request -> RequestRow] /\ lock' \in Request \cup {NoOne}
  BY <1>1, Leaving DEF TenantInv
<1>3. TypeOK'
  BY <1>1, <1>2 DEF TenantInv, TypeOK, rules, blobs
<1>4. Whole'
  <2>1. rows \subseteq files
    BY <1>1 DEF Sound, CommitSuspend, Decided
  <2> QED
    BY <1>1, <2>1 DEF Whole, blobs
<1>5. AdminRemains'
  BY <1>1 DEF TenantInv, AdminRemains, Sound
<1> QED
  BY <1>1, <1>3, <1>4, <1>5, CommitStep

\* The organization is recovered within the window.
LEMMA CommitRecoverStep ==
  ASSUME TenantInv, NEW r \in Request, CommitRecover(r)
  PROVE  TenantInv'
<1>1. /\ req[r].stage = "decided" /\ Leave(r) /\ Sound(r)
      /\ UNCHANGED <<account, member, rules, blobs, mishaps>>
      /\ org' = "active" /\ deadline' = "none"
  BY DEF TenantInv, CommitRecover, Decided, Decisions
<1>2. req' \in [Request -> RequestRow] /\ lock' \in Request \cup {NoOne}
  BY <1>1, Leaving DEF TenantInv
<1>3. TypeOK'
  BY <1>1, <1>2 DEF TenantInv, TypeOK, rules, blobs
<1>4. Whole'
  <2>1. rows \subseteq files
    BY <1>1 DEF Sound, CommitRecover, Decided
  <2> QED
    BY <1>1, <2>1 DEF Whole, blobs
<1>5. AdminRemains'
  BY <1>1 DEF TenantInv, AdminRemains, Sound
<1> QED
  BY <1>1, <1>3, <1>4, <1>5, CommitStep

\* A file and its row are saved.
LEMMA CommitUploadStep ==
  ASSUME TenantInv, NEW r \in Request, CommitUpload(r)
  PROVE  TenantInv'
<1>1. /\ req[r].stage = "decided" /\ Leave(r)
      /\ UNCHANGED <<tenant, rules, mishaps>>
      /\ rows' = rows \cup {req[r].arg} /\ files' = files \cup {req[r].arg}
      /\ req[r].op = "upload"
  BY DEF CommitUpload, Decided
<1>2. req' \in [Request -> RequestRow] /\ lock' \in Request \cup {NoOne}
  BY <1>1, Leaving DEF TenantInv
<1>3. req[r].arg \in File
  BY <1>1 DEF TenantInv, Posted
<1>4. TypeOK'
  BY <1>1, <1>2, <1>3 DEF TenantInv, TypeOK, tenant, rules
<1>5. Whole' /\ AdminRemains'
  BY <1>1 DEF TenantInv, Whole, AdminRemains, Exists, tenant
<1> QED
  BY <1>1, <1>4, <1>5, CommitStep DEF tenant

\* The purge deletes every row.
LEMMA CommitPurgeStep ==
  ASSUME TenantInv, NEW r \in Request, CommitPurge(r)
  PROVE  TenantInv'
<1>1. /\ req[r].stage = "decided" /\ Leave(r) /\ org' = "purged" /\ deadline' = "none"
      /\ member' = [u \in User |-> NoMember] /\ rows' = {}
      /\ policy' = [version |-> 0, hold |-> FALSE] /\ exempt' = FALSE
      /\ UNCHANGED <<account, files, mishaps>>
  BY DEF CommitPurge, Decided
<1>2. req' \in [Request -> RequestRow] /\ lock' \in Request \cup {NoOne}
  BY <1>1, Leaving DEF TenantInv
<1>3. member' \in [User -> Membership] /\ policy' \in Policy
  BY <1>1, TenancyAssumption DEF Membership, Policy
<1>4. TypeOK'
  BY <1>1, <1>2, <1>3 DEF TenantInv, TypeOK
<1>5. Whole' /\ AdminRemains'
  BY <1>1 DEF Whole, AdminRemains, Exists
<1> QED
  BY <1>1, <1>4, <1>5, CommitStep

\* The policy and its exceptions are edited without the lock, but never while a
\* purge has decided: that needs a window which has ended.
LEMMA EditStep ==
  ASSUME TenantInv, NEW r \in Request, req[r].op \in Unlocked, Leave(r),
         policy' \in Policy, exempt' \in BOOLEAN, UNCHANGED <<tenant, blobs, mishaps>>
  PROVE  TenantInv'
<1>1. /\ req' \in [Request -> RequestRow] /\ lock' \in Request \cup {NoOne}
      /\ LockHeld' /\ Posted'
      /\ req'[r].stage = "idle" /\ req'[r].op = "none"
      /\ \A s \in Request \ {r} : req'[s] = req[s]
  BY Leaving DEF TenantInv
<1>2. deadline # "passed"
  BY DEF TenantInv, Quiet
<1>3. TypeOK' /\ Whole' /\ AdminRemains'
  BY <1>1 DEF TenantInv, TypeOK, Whole, AdminRemains, Exists, tenant, blobs
<1>4. Decisions'
  <2> SUFFICES ASSUME NEW s \in Request, req'[s].stage = "decided"
               PROVE  Sound(s)'
    BY DEF Decisions
  <2>1. req'[s] = req[s] /\ Sound(s)
    BY <1>1 DEF TenantInv, Decisions
  <2> QED
    BY <1>2, <2>1 DEF Sound, Exists, Dispensable, OtherAdmins, tenant, blobs
<1>5. Quiet' /\ Enlisted'
  BY <1>1 DEF TenantInv, Quiet, Enlisted, Unlocked, tenant
<1> QED
  BY <1>1, <1>3, <1>4, <1>5 DEF TenantInv

\* A retention policy is saved, without the lock on the organization.
LEMMA UpdatePolicyStep ==
  ASSUME TenantInv, NEW r \in Request, UpdatePolicy(r)
  PROVE  TenantInv'
<1>1. policy' \in Policy
  <2>1. policy \in Policy /\ policy.version \in 0..MaxPolicy
    BY DEF TenantInv, TypeOK, Policy
  <2>2. CASE /\ policy.version < MaxPolicy
             /\ policy' = [version |-> policy.version + 1, hold |-> req[r].arg = "on"]
    <3>1. policy.version + 1 \in 0..MaxPolicy
      BY <2>1, <2>2, TenancyAssumption
    <3>2. (req[r].arg = "on") \in BOOLEAN
      OBVIOUS
    <3> QED
      BY <2>2, <3>1, <3>2 DEF Policy
  <2> QED
    BY <2>1, <2>2 DEF UpdatePolicy
<1>2. req[r].op \in Unlocked /\ exempt' \in BOOLEAN
  BY DEF TenantInv, TypeOK, UpdatePolicy, Unlocked
<1> QED
  BY <1>1, <1>2, EditStep DEF UpdatePolicy

\* An exception is saved, without that lock.
LEMMA SaveExceptionStep ==
  ASSUME TenantInv, NEW r \in Request, SaveException(r)
  PROVE  TenantInv'
<1>1. policy' \in Policy /\ exempt' \in BOOLEAN /\ req[r].op \in Unlocked
  BY DEF TenantInv, TypeOK, SaveException, Unlocked
<1> QED
  BY <1>1, EditStep DEF SaveException

\* A file is erased only after the window, so the rows need not have theirs.
LEMMA EraseFileStep ==
  ASSUME TenantInv, NEW r \in Request, EraseFile(r)
  PROVE  TenantInv'
<1>1. PICK f \in req[r].left :
        /\ files' = files \ {f}
        /\ req' = [req EXCEPT ![r].left = @ \ {f}]
  BY DEF EraseFile
<1>2. /\ req[r].stage = "decided" /\ req[r].op = "purge"
      /\ UNCHANGED <<tenant, rules, rows, lock, mishaps>>
  BY DEF EraseFile, Decided
<1>3. Sound(r) /\ deadline = "passed"
  BY <1>2 DEF TenantInv, Decisions, Sound
<1>4. req[r] \in RequestRow
  BY DEF TenantInv, TypeOK
<1>5. /\ req'[r] \in RequestRow
      /\ req'[r].stage = req[r].stage /\ req'[r].op = req[r].op
      /\ req'[r].who = req[r].who /\ req'[r].arg = req[r].arg
      /\ \A s \in Request \ {r} : req'[s] = req[s]
      /\ req' \in [Request -> RequestRow]
  <2> DEFINE q == [req[r] EXCEPT !.left = @ \ {f}]
  <2>1. /\ q \in RequestRow /\ q.stage = req[r].stage /\ q.op = req[r].op
        /\ q.who = req[r].who /\ q.arg = req[r].arg
    BY <1>4 DEF RequestRow
  <2>2. req' = [req EXCEPT ![r] = q]
    BY <1>1
  <2> HIDE DEF q
  <2> QED
    BY <2>1, <2>2 DEF TenantInv, TypeOK
<1>6. \A s \in Request : /\ req'[s].stage = req[s].stage /\ req'[s].op = req[s].op
                         /\ req'[s].who = req[s].who /\ req'[s].arg = req[s].arg
  BY <1>5
<1>7. TypeOK'
  BY <1>1, <1>2, <1>5 DEF TenantInv, TypeOK, tenant, rules
<1>8. LockHeld' /\ Posted' /\ Enlisted' /\ Quiet' /\ AdminRemains'
  <2>1. Posted'
    BY <1>1, <1>5, <1>6 DEF TenantInv, Posted, Request
  <2> QED
    BY <1>2, <1>6, <2>1 DEF TenantInv, LockHeld, Enlisted, Quiet, AdminRemains, Exists, tenant
<1>9. Decisions'
  <2> SUFFICES ASSUME NEW s \in Request, req'[s].stage = "decided"
               PROVE  Sound(s)'
    BY DEF Decisions
  <2>1. s = r
    BY <1>2, <1>6, OneDecides DEF TenantInv
  <2> QED
    BY <1>2, <1>3, <1>6, <2>1 DEF Sound, Exists, Dispensable, OtherAdmins, tenant, rules
<1>10. Whole'
  BY <1>2, <1>3 DEF Whole, tenant
<1> QED
  BY <1>7, <1>8, <1>9, <1>10 DEF TenantInv

\* A purge breaks off.
LEMMA PurgeFailsStep ==
  ASSUME TenantInv, NEW r \in Request, PurgeFails(r)
  PROVE  TenantInv'
<1>1. mishaps' \in 0..MaxMishap
  BY TenancyAssumption DEF TenantInv, TypeOK, PurgeFails
<1> QED
  BY <1>1, BreakOff DEF PurgeFails

\* The recovery window passes.
LEMMA WindowEndsStep ==
  ASSUME TenantInv, WindowEnds
  PROVE  TenantInv'
<1>1. /\ deadline = "ahead" /\ deadline' = "passed"
      /\ UNCHANGED <<org, account, member, rules, blobs, lock, req, mishaps>>
      /\ \A r \in Web : req[r].op \notin Unlocked \cup {"upload"}
  BY DEF WindowEnds
<1>2. TypeOK'
  BY <1>1 DEF TenantInv, TypeOK, rules, blobs
<1>3. LockHeld' /\ Posted' /\ Enlisted' /\ Whole' /\ AdminRemains'
  BY <1>1 DEF TenantInv, LockHeld, Posted, Enlisted, Whole, AdminRemains, Exists
<1>4. Quiet'
  BY <1>1 DEF TenantInv, Posted, Quiet, Request, Unlocked
<1>5. Decisions'
  BY <1>1 DEF TenantInv, Decisions, Sound, Exists, Dispensable, OtherAdmins, rules, blobs
<1> QED
  BY <1>2, <1>3, <1>4, <1>5 DEF TenantInv

-----------------------------------------------------------------------------
(* The invariant holds of every behaviour. *)

\* At the start there is no organization.
LEMMA TenantInit == Init => TenantInv
<1> SUFFICES ASSUME Init PROVE TenantInv
  OBVIOUS
<1>1. Idle \in RequestRow /\ Idle.stage = "idle" /\ Idle.op = "none"
  BY DEF Idle, RequestRow
<1>2. Timer \in Request
  BY DEF Request
<1>3. TypeOK
  <2>1. policy \in Policy
    BY TenancyAssumption DEF Init, Policy
  <2>2. member \in [User -> Membership] /\ account \in [User -> {"none", "temporary", "ready"}]
    BY DEF Init, Membership
  <2>3. req \in [Request -> RequestRow] /\ mishaps \in 0..MaxMishap
    BY <1>1, TenancyAssumption DEF Init
  <2> QED
    BY <2>1, <2>2, <2>3 DEF Init, TypeOK
<1>4. LockHeld /\ Posted /\ Enlisted /\ Decisions /\ Whole /\ Quiet /\ AdminRemains
  BY <1>1, <1>2 DEF Init, LockHeld, Posted, Enlisted, Decisions, Whole, Quiet, AdminRemains,
                    Exists, Unlocked
<1> QED
  BY <1>3, <1>4 DEF TenantInv

\* TenantInv is inductive.
LEMMA TenantNext == TenantInv /\ [Next]_vars => TenantInv'
<1> SUFFICES ASSUME TenantInv, [Next]_vars PROVE TenantInv'
  OBVIOUS
<1>1. ASSUME NEW u \in User, NEW w \in Staff, Provision(u, w) PROVE TenantInv'
  BY <1>1, ProvisionStep
<1>2. ASSUME NEW u \in User, ChangePassword(u) PROVE TenantInv'
  BY <1>2, PasswordStep
<1>3. ASSUME NEW r \in Web, NEW u \in User, Ask(r, u) PROVE TenantInv'
  BY <1>3, AskStep
<1>4. CASE StartPurge
  BY <1>4, StartPurgeStep
<1>5. ASSUME NEW r \in Request, Step(r) PROVE TenantInv'
  <2>1. CASE Lock(r)
    BY <2>1, LockStep
  <2>2. CASE Decide(r)
    BY <2>2, DecideStep
  <2>3. CASE Commit(r)
    BY <2>3, CommitAddStep, CommitAccessStep, CommitSuspendStep, CommitRecoverStep,
       CommitUploadStep, CommitPurgeStep, UpdatePolicyStep, SaveExceptionStep DEF Commit
  <2>4. CASE EraseFile(r)
    BY <2>4, EraseFileStep
  <2>5. CASE PurgeFails(r)
    BY <2>5, PurgeFailsStep
  <2> QED
    BY <1>5, <2>1, <2>2, <2>3, <2>4, <2>5 DEF Step
<1>6. CASE WindowEnds
  BY <1>6, WindowEndsStep
<1>7. CASE UNCHANGED vars
  BY <1>7 DEF vars, tenant, rules, blobs, TenantInv, TypeOK, LockHeld, Posted, Enlisted,
              Decisions, Sound, Whole, Quiet, AdminRemains, Exists, Dispensable, OtherAdmins
<1> QED
  BY <1>1, <1>2, <1>3, <1>4, <1>5, <1>6, <1>7 DEF Next

\* TenantInv holds in every reachable state: whoever is past the lock on the
\* organization row holds it, and what it found under the lock stands until it
\* commits (organizations/services.py, audit/lifecycle.py).
LEMMA TenantInvariant == Spec => []TenantInv
<1> QED
  BY TenantInit, TenantNext, PTL DEF Spec

-----------------------------------------------------------------------------
(* The theorems. *)

\* The rows of the tenant and the requests keep their types, and the organization
\* has a deadline exactly while it is suspended (the check constraint
\* organization_deletion_state_consistent).
THEOREM TenantTypeCorrect == Spec => []TypeOK
<1>1. TenantInv => TypeOK
  BY DEF TenantInv
<1> QED
  BY <1>1, TenantInvariant, PTL

\* set_organization_membership_active: however many changes of memberships are
\* under way, the organization keeps an active administrator until its purge.
THEOREM AdminAlwaysRemains == Spec => []AdminRemains
<1>1. TenantInv => AdminRemains
  BY DEF TenantInv
<1> QED
  BY <1>1, TenantInvariant, PTL

\* purge_organization and cancel_organization_deletion: an organization in use has
\* the files of all its rows, whatever purges broke off.
THEOREM RecoveredTenantIsWhole == Spec => []RecoveredIsWhole
<1>1. TenantInv => RecoveredIsWhole
  BY DEF TenantInv, TypeOK, Whole, RecoveredIsWhole
<1> QED
  BY <1>1, TenantInvariant, PTL

\* purge_organization: no tenant is purged under a legal hold or an exception,
\* although neither is read nor written under a common lock.
THEOREM HoldsBlockPurge == Spec => HoldBlocksPurge
<1>1. ASSUME TenantInv, [Next]_vars, org' = "purged", org # "purged"
      PROVE  ~policy.hold /\ ~exempt
  <2>1. PICK r \in Request : CommitPurge(r)
    <3>1. org' # org
      BY <1>1
    <3>2. ASSUME NEW r \in Request, Step(r), ~CommitPurge(r) PROVE org' = org \/ org' # "purged"
      BY <3>2 DEF Step, Commit, Lock, Decide, Refuse, CommitAdd, CommitAccess, CommitSuspend,
                  CommitRecover, CommitUpload, UpdatePolicy, SaveException, EraseFile,
                  PurgeFails, tenant
    <3>3. CASE \E u \in User, w \in Staff : Provision(u, w)
      BY <1>1, <3>3 DEF Provision
    <3>4. CASE \E r \in Request : Step(r)
      BY <1>1, <3>1, <3>2, <3>4
    <3> QED
      BY <1>1, <3>1, <3>3, <3>4 DEF Next, ChangePassword, Ask, StartPurge, WindowEnds, vars,
                                    tenant
  <2>2. Sound(r) /\ req[r].op = "purge"
    BY <1>1, <2>1 DEF CommitPurge, Decided, TenantInv, Decisions
  <2> QED
    BY <2>2 DEF Sound
<1>2. TenantInv /\ [Next]_vars =>
        [org' = "purged" => org = "purged" \/ (~policy.hold /\ ~exempt)]_vars
  BY <1>1
<1> QED
  BY <1>2, TenantInvariant, PTL DEF Spec, HoldBlocksPurge

=============================================================================
