------------------------------- MODULE Tenancy -------------------------------
(***************************************************************************)
(* One tenant from its provisioning to its purge: the organization, its    *)
(* memberships and managed accounts (organizations/services.py,            *)
(* organizations/permissions.py, organizations/views.py), its retention    *)
(* policy and its staged deletion (audit/lifecycle.py).                    *)
(*                                                                         *)
(* A request is the record req[r].  Its permission is checked before its   *)
(* transaction starts; the transaction then locks the organization row,    *)
(* looks again at what it needs, and commits:                              *)
(*                                                                         *)
(*   idle -> checked -> locked -> decided -> idle                          *)
(*                                                                         *)
(* select_for_update() with select_related("organization") locks the       *)
(* joined organization too, so a change of a membership holds that lock    *)
(* like every other change of the tenant but one: the retention policy and *)
(* its exceptions are saved without it.                                    *)
(***************************************************************************)
EXTENDS Naturals, FiniteSets

CONSTANTS
  User,
  Owner,      \* platform owners
  Staff,      \* bound: who may be given a membership
  Web,        \* requests that users make
  Timer,      \* the daily process_organization_deletions command
  File,       \* private files: accepted documents and staged intake items
  NoOne,      \* the user of no request
  MaxPolicy,  \* bound on versions of the retention policy
  MaxMishap   \* bound on purges that fail

ASSUME TenancyAssumption ==
  /\ Owner \subseteq User /\ Staff \subseteq User
  /\ Timer \notin Web
  /\ NoOne \notin User \cup Web \cup {Timer}
  /\ MaxPolicy \in Nat \ {0} /\ MaxMishap \in Nat

VARIABLES
  org,       \* Organization: "none" before and "purged" after its row exists
  deadline,  \* purge_after: "none", "ahead" or "passed"
  account,   \* User: "none", "temporary" (must_change_password) or "ready"
  member,    \* OrganizationMembership of each user
  policy,    \* OrganizationRetentionPolicy: policy_version and legal_hold
  exempt,    \* an active RetentionException with scope organization
  rows,      \* CandidateDocument and CandidateIntakeItem rows with a file
  files,     \* what private storage holds
  lock,      \* the request that holds the organization row
  req,       \* the request that every process works on
  mishaps

tenant == <<org, deadline, account, member>>
rules  == <<policy, exempt>>
blobs  == <<rows, files>>
vars   == <<tenant, rules, blobs, lock, req, mishaps>>

Request == Web \cup {Timer}
NoMember == [role |-> "none", active |-> FALSE]
Membership == {NoMember} \cup [role : {"admin", "recruiter"}, active : BOOLEAN]
Admin == [role |-> "admin", active |-> TRUE]
Policy == [version : 0..MaxPolicy, hold : BOOLEAN]

UserOp == {"addAdmin", "addRecruiter", "grant", "revoke", "suspend", "recover",
           "policy", "exempt", "upload"}
\* The operations that act without the lock on the organization row.
Unlocked == {"policy", "exempt"}

Idle == [op |-> "none", by |-> NoOne, who |-> NoOne, arg |-> "none",
         stage |-> "idle", left |-> {}]

RequestRow == [op : UserOp \cup {"none", "purge"},
               by : User \cup {NoOne}, who : User \cup {NoOne},
               arg : File \cup {"none", "on", "off"},
               stage : {"idle", "checked", "locked", "decided"},
               left : SUBSET File]

TypeOK ==
  /\ org \in {"none", "active", "suspended", "purged"}
  /\ deadline \in {"none", "ahead", "passed"}
  /\ account \in [User -> {"none", "temporary", "ready"}]
  /\ member \in [User -> Membership]
  /\ policy \in Policy
  /\ exempt \in BOOLEAN
  /\ rows \subseteq File /\ files \subseteq File
  /\ lock \in Request \cup {NoOne}
  /\ req \in [Request -> RequestRow]
  /\ mishaps \in 0..MaxMishap
  \* the check constraint organization_deletion_state_consistent
  /\ org = "suspended" <=> deadline # "none"

Init ==
  /\ org = "none" /\ deadline = "none"
  /\ account \in [User -> {"none", "ready"}]
  /\ \A u \in Owner : account[u] = "ready"
  /\ member = [u \in User |-> NoMember]
  /\ policy = [version |-> 0, hold |-> FALSE]
  /\ exempt = FALSE
  /\ rows = {} /\ files = {}
  /\ lock = NoOne
  /\ req = [r \in Request |-> Idle]
  /\ mishaps = 0

-----------------------------------------------------------------------------
(* Permissions.  A user with a temporary password is sent to the password  *)
(* form by a middleware, whatever he asks for.                             *)

SignedIn(u) == account[u] = "ready"
IsOwner(u) == SignedIn(u) /\ u \in Owner
HasAccess(u) == SignedIn(u) /\ org = "active" /\ member[u].active
Administers(u) == SignedIn(u) /\ org = "active" /\ member[u] = Admin
Recovers(u) == /\ SignedIn(u) /\ org = "suspended"
               /\ u \in Owner \/ member[u] = Admin

Exists == org \in {"active", "suspended"}

-----------------------------------------------------------------------------
(* Provisioning: nobody else sees the organization before it is committed. *)

Linked(w) == [account EXCEPT ![w] = IF @ = "none" THEN "temporary" ELSE @]

Provision(u, w) ==
  /\ org = "none" /\ IsOwner(u)
  /\ org' = "active"
  /\ account' = Linked(w)
  /\ member' = [member EXCEPT ![w] = Admin]
  /\ policy' = [version |-> 1, hold |-> FALSE]
  /\ UNCHANGED <<deadline, exempt, blobs, lock, req, mishaps>>

ChangePassword(u) ==
  /\ account[u] = "temporary"
  /\ account' = [account EXCEPT ![u] = "ready"]
  /\ UNCHANGED <<org, deadline, member, rules, blobs, lock, req, mishaps>>

-----------------------------------------------------------------------------
(* Requests. *)

Stage(r, s) == req' = [req EXCEPT ![r].stage = s]
Leave(r) == /\ req' = [req EXCEPT ![r] = Idle]
            /\ lock' = IF lock = r THEN NoOne ELSE lock
Refuse(r) == Leave(r) /\ UNCHANGED <<tenant, rules, blobs, mishaps>>

\* What the pages let user u post.  Rows and permissions are looked up before
\* the transaction begins.
Post(u, op, w, x) ==
  [Idle EXCEPT !.op = op, !.by = u, !.who = w, !.arg = x, !.stage = "checked"]
Having(role) == {w \in Staff : member[w].role = role}

AdministratorAdditions(u) ==
  {Post(u, "addAdmin", w, "none") : w \in {x \in Staff : IsOwner(u)}}
RecruiterAdditions(u) ==
  {Post(u, "addRecruiter", w, "none") : w \in {x \in Staff : Administers(u)}}
AdministratorChanges(u) ==
  {Post(u, op, w, "none") : op \in {"grant", "revoke"},
                            w \in {x \in Having("admin") : IsOwner(u)}}
RecruiterChanges(u) ==
  {Post(u, op, w, "none") : op \in {"grant", "revoke"},
                            w \in {x \in Having("recruiter") : Administers(u)}}
PlatformSuspensions(u) == {Post(u, "suspend", w, "none") :
                             w \in {x \in {NoOne} : IsOwner(u) /\ org = "active"}}
TenantSuspensions(u) ==
  {Post(u, "suspend", w, "none") : w \in {x \in {NoOne} : Administers(u)}}
Recoveries(u) ==
  {Post(u, "recover", w, "none") : w \in {x \in {NoOne} : Recovers(u)}}
\* retention_dashboard has both forms.
RetentionPages(u) ==
  {Post(u, op, NoOne, x) : op \in {y \in Unlocked : Administers(u)}, x \in {"on", "off"}}
\* An upload writes a file of its own name.
Taken(x) == \E r \in Request : req[r].op = "upload" /\ req[r].arg = x
Uploads(u) == {Post(u, "upload", NoOne, x) :
                 x \in {y \in File \ rows : HasAccess(u) /\ ~Taken(y)}}

Pages(u) ==
  AdministratorAdditions(u) \cup RecruiterAdditions(u) \cup AdministratorChanges(u)
    \cup RecruiterChanges(u) \cup PlatformSuspensions(u) \cup TenantSuspensions(u)
    \cup Recoveries(u) \cup RetentionPages(u) \cup Uploads(u)

Ask(r, u) ==
  /\ req[r] = Idle /\ Exists
  /\ \E q \in Pages(u) : req' = [req EXCEPT ![r] = q]
  /\ UNCHANGED <<tenant, rules, blobs, lock, mishaps>>

\* Mutant: like the other commands, it looks at active organizations only.
DueWhileActive == org = "active" /\ deadline = "passed"
\* The daily command looks for organizations whose window has ended.
Due == org = "suspended" /\ deadline = "passed"

StartPurge ==
  /\ req[Timer] = Idle /\ Due
  /\ req' = [req EXCEPT ![Timer] = [Idle EXCEPT !.op = "purge",
                                                !.stage = "checked"]]
  /\ UNCHANGED <<tenant, rules, blobs, lock, mishaps>>

\* Mutant: a change of a membership locks the membership row alone.
LockMembershipOnly(r) ==
  /\ req[r].stage = "checked" /\ req[r].op \notin Unlocked
  /\ lock = NoOne \/ req[r].op = "revoke"
  /\ lock' = IF req[r].op = "revoke" THEN lock ELSE r
  /\ Stage(r, "locked")
  /\ UNCHANGED <<tenant, rules, blobs, mishaps>>

Lock(r) ==
  /\ req[r].stage = "checked" /\ req[r].op \notin Unlocked
  /\ lock = NoOne
  /\ lock' = r
  /\ Stage(r, "locked")
  /\ UNCHANGED <<tenant, rules, blobs, mishaps>>

OtherAdmins(w) == {u \in User \ {w} : member[u] = Admin}

\* The service makes sure that the administrator is not the last one.
Dispensable(w) == member[w].role = "admin" => OtherAdmins(w) # {}

\* Mutant: the recovery does not compare purge_after with the clock.
WindowIgnored == deadline # "none"
WindowOpen == deadline = "ahead"
\* Mutant: exceptions for the organization itself are not looked up.
HeldByPolicy == policy.hold
Held == policy.hold \/ exempt

\* What the service finds once it holds the lock.
Allowed(r) ==
  LET q == req[r]
  IN /\ Exists
     /\ CASE q.op \in {"addAdmin", "addRecruiter"} ->
               org = "active" /\ member[q.who] = NoMember
          [] q.op = "grant" -> ~member[q.who].active
          [] q.op = "revoke" -> member[q.who].active /\ Dispensable(q.who)
          [] q.op = "suspend" -> org = "active"
          [] q.op = "recover" -> org = "suspended" /\ WindowOpen
          [] q.op = "upload" -> TRUE
          [] q.op = "purge" ->
               org = "suspended" /\ deadline = "passed" /\ ~Held

Decide(r) ==
  /\ req[r].stage = "locked"
  /\ \/ /\ Allowed(r)
        /\ req' = [req EXCEPT ![r].stage = "decided",
                              ![r].left = IF req[r].op = "purge"
                                            THEN rows ELSE {}]
        /\ UNCHANGED <<tenant, rules, blobs, lock, mishaps>>
     \/ ~Allowed(r) /\ Refuse(r)

Decided(r, ops) == req[r].stage = "decided" /\ req[r].op \in ops

CommitAdd(r) ==
  /\ Decided(r, {"addAdmin", "addRecruiter"})
  /\ account' = Linked(req[r].who)
  /\ member' = [member EXCEPT ![req[r].who] =
       [role |-> IF req[r].op = "addAdmin" THEN "admin" ELSE "recruiter",
        active |-> TRUE]]
  /\ Leave(r)
  /\ UNCHANGED <<org, deadline, rules, blobs, mishaps>>

CommitAccess(r) ==
  /\ Decided(r, {"grant", "revoke"})
  /\ member' = [member EXCEPT ![req[r].who].active = req[r].op = "grant"]
  /\ Leave(r)
  /\ UNCHANGED <<org, deadline, account, rules, blobs, mishaps>>

CommitSuspend(r) ==
  /\ Decided(r, {"suspend"})
  /\ org' = "suspended" /\ deadline' = "ahead"
  /\ Leave(r)
  /\ UNCHANGED <<account, member, rules, blobs, mishaps>>

\* Mutant: the deadline outlives the recovery.
RecoverKeepsDeadline(r) ==
  /\ Decided(r, {"recover"})
  /\ org' = "active"
  /\ Leave(r)
  /\ UNCHANGED <<deadline, account, member, rules, blobs, mishaps>>

CommitRecover(r) ==
  /\ Decided(r, {"recover"})
  /\ org' = "active" /\ deadline' = "none"
  /\ Leave(r)
  /\ UNCHANGED <<account, member, rules, blobs, mishaps>>

\* CvIntake has the steps of an upload; here its row and file appear at once.
CommitUpload(r) ==
  /\ Decided(r, {"upload"})
  /\ rows' = rows \cup {req[r].arg} /\ files' = files \cup {req[r].arg}
  /\ Leave(r)
  /\ UNCHANGED <<tenant, rules, mishaps>>

\* The form carries the whole policy, the hold included, as its user saw it;
\* the version counts the saves that change something.
UpdatePolicy(r) ==
  /\ req[r].op = "policy" /\ req[r].stage = "checked"
  /\ LET hold == req[r].arg = "on"
     IN \/ /\ hold # policy.hold /\ policy.version < MaxPolicy
           /\ policy' = [version |-> policy.version + 1, hold |-> hold]
        \/ /\ hold = policy.hold \/ policy.version = MaxPolicy
           /\ UNCHANGED policy
  /\ Leave(r)
  /\ UNCHANGED <<tenant, exempt, blobs, mishaps>>

SaveException(r) ==
  /\ req[r].op = "exempt" /\ req[r].stage = "checked"
  /\ exempt' = (req[r].arg = "on")
  /\ Leave(r)
  /\ UNCHANGED <<tenant, policy, blobs, mishaps>>

-----------------------------------------------------------------------------
(* The purge erases the files one after the other and then, in the same    *)
(* transaction, every row of the tenant; storage takes no part in the      *)
(* rollback when a file cannot be erased.                                  *)

EraseFile(r) ==
  /\ Decided(r, {"purge"})
  /\ \E f \in req[r].left :
       /\ files' = files \ {f}
       /\ req' = [req EXCEPT ![r].left = @ \ {f}]
  /\ UNCHANGED <<tenant, rules, rows, lock, mishaps>>

\* A storage or database error or a crash, before or after a file is gone.
PurgeFails(r) ==
  /\ Decided(r, {"purge"})
  /\ mishaps < MaxMishap
  /\ mishaps' = mishaps + 1
  /\ Leave(r)
  /\ UNCHANGED <<tenant, rules, blobs>>

CommitPurge(r) ==
  /\ Decided(r, {"purge"}) /\ req[r].left = {}
  /\ org' = "purged" /\ deadline' = "none"
  /\ member' = [u \in User |-> NoMember]
  /\ rows' = {}
  /\ policy' = [version |-> 0, hold |-> FALSE] /\ exempt' = FALSE
  /\ Leave(r)
  /\ UNCHANGED <<account, files, mishaps>>

\* The window is a day or longer: what was admitted before the suspension and
\* needs an active organization has ended by then.
WindowEnds ==
  /\ deadline = "ahead"
  /\ \A r \in Web : req[r].op \notin Unlocked \cup {"upload"}
  /\ deadline' = "passed"
  /\ UNCHANGED <<org, account, member, rules, blobs, lock, req, mishaps>>

-----------------------------------------------------------------------------
Commit(r) == \/ CommitAdd(r) \/ CommitAccess(r) \/ CommitSuspend(r)
             \/ CommitRecover(r) \/ CommitUpload(r) \/ CommitPurge(r)
             \/ UpdatePolicy(r) \/ SaveException(r)

Step(r) == Lock(r) \/ Decide(r) \/ Commit(r) \/ EraseFile(r) \/ PurgeFails(r)

Next == \/ \E u \in User, w \in Staff : Provision(u, w)
        \/ \E u \in User : ChangePassword(u)
        \/ \E r \in Web, u \in User : Ask(r, u)
        \/ StartPurge
        \/ \E r \in Request : Step(r)
        \/ WindowEnds

\* The command runs daily, the window ends in time, requests go on, and a
\* request that waits for the row gets it (PostgreSQL queues for row locks).
Fairness == /\ WF_vars(StartPurge) /\ WF_vars(WindowEnds)
            /\ \A r \in Request : /\ SF_vars(Lock(r))
                                  /\ WF_vars(Decide(r) \/ EraseFile(r))
                                  /\ WF_vars(Commit(r))

Spec == Init /\ [][Next]_vars /\ Fairness

-----------------------------------------------------------------------------
(* Properties. *)

\* set_organization_membership_active: an organization always keeps an active
\* administrator, also while it is suspended and only he can recover it,
\* however many administrators are deactivated at once.
AdminRemains == Exists => \E u \in User : member[u] = Admin

\* purge_organization, cancel_organization_deletion: an organization that is
\* in use, one that was recovered included, has the files of all its rows: a
\* purge that broke off half-way is never followed by a recovery.
RecoveredIsWhole == org = "active" => rows \subseteq files

\* purge_organization reads the hold and the exceptions without a lock; still
\* no tenant is purged under a legal hold or an exception.
HoldBlocksPurge ==
  [][org' = "purged" => org = "purged" \/ (~policy.hold /\ ~exempt)]_vars

\* A suspension ends: the tenant is recovered or purged, unless it is held.
SuspensionEnds ==
  org = "suspended" /\ ~Held ~> org # "suspended" \/ Held

=============================================================================
