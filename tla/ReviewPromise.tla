---------------------------- MODULE ReviewPromise ----------------------------
(***************************************************************************)
(* What the review of a candidate promises (docs/architecture.md): the     *)
(* assessments, decisions and drafts on a shortlist entry are numbered     *)
(* snapshots that nobody rewrites; each is made for the newest of what it  *)
(* rests on; and a message is approved or used at a moment at which the    *)
(* candidate may be contacted and is as he was assessed.  Every request is *)
(* one step here: row locks, the calls of the AI service, the reads of a   *)
(* shortlist and whatever else lies between check and write are out of     *)
(* sight.                                                                  *)
(***************************************************************************)
EXTENDS Integers, Sequences

CONSTANTS
  Run,     \* match runs; the candidate has one entry in each at most
  Profile  \* versions of his profile

VARIABLES
  reachable,    \* he is active and may be contacted
  current,      \* runs whose shortlist and newest assessment are of him as he is
  purged,       \* he has been deleted for good
  assessments,  \* the rows on his entry in each run, as in ReviewPipeline
  decisions,
  drafts,
  approved,
  used

world == <<reachable, current, purged>>
chain == <<assessments, decisions, drafts, approved, used>>
vars == <<world, chain>>

\* The number of the newest draft.
Newest(r) == CHOOSE v \in {0} \cup {d.version : d \in drafts[r]} :
               \A d \in drafts[r] : d.version <= v

Init ==
  /\ reachable \in BOOLEAN /\ current = {} /\ purged = FALSE
  /\ assessments = [r \in Run |-> <<>>] /\ decisions = [r \in Run |-> <<>>]
  /\ drafts = [r \in Run |-> {}] /\ approved = [r \in Run |-> {}]
  /\ used = [r \in Run |-> <<>>]

-----------------------------------------------------------------------------

Assess(r, p) ==
  /\ ~purged
  /\ assessments' = [assessments EXCEPT ![r] = Append(@, p)]
  /\ current' = current \cup {r}
  /\ UNCHANGED <<reachable, purged, decisions, drafts, approved, used>>

Decide(r) ==
  /\ ~purged /\ assessments[r] # <<>>
  /\ decisions' = [decisions EXCEPT ![r] = Append(@, Len(assessments[r]))]
  /\ UNCHANGED <<world, assessments, drafts, approved, used>>

\* A draft is generated for the newest decision or continues the newest draft,
\* which was made for that decision.
Write(r, parent) == LET d == Len(decisions[r]) IN
  /\ ~purged /\ d # 0
  /\ parent # 0 => \E e \in drafts[r] : e.version = parent /\ e.decision = d
  /\ drafts' = [drafts EXCEPT ![r] = @ \cup
                  {[version |-> Newest(r) + 1, decision |-> d, parent |-> parent]}]
  /\ UNCHANGED <<world, assessments, decisions, approved, used>>

\* Draft d is the newest, for the newest decision, about the newest assessment,
\* and he is still the one it speaks of.
Releasable(r, d) ==
  /\ reachable /\ r \in current /\ ~purged
  /\ d.version = Newest(r)
  /\ d.decision = Len(decisions[r])
  /\ decisions[r][d.decision] = Len(assessments[r])

Approve(r, d) ==
  /\ Releasable(r, d)
  /\ approved' = [approved EXCEPT ![r] = @ \cup {d.version}]
  /\ UNCHANGED <<world, assessments, decisions, drafts, used>>

Use(r, d) ==
  /\ Releasable(r, d)
  /\ approved' = [approved EXCEPT ![r] = @ \cup {d.version}]
  /\ used' = [used EXCEPT ![r] = Append(@, d.version)]
  /\ UNCHANGED <<world, assessments, decisions, drafts>>

\* Retention takes drafts with approvals and uses, or all that stands on an
\* entry.  (What it should spare is another matter.)
Prune(r) ==
  /\ \E D \in SUBSET drafts[r] : drafts' = [drafts EXCEPT ![r] = @ \ D]
  /\ \E A \in SUBSET approved[r] : approved' = [approved EXCEPT ![r] = @ \ A]
  /\ \E k \in 0 .. Len(used[r]) : used' = [used EXCEPT ![r] = SubSeq(@, k + 1, Len(@))]
  /\ UNCHANGED <<world, assessments, decisions>>

Empty(S) ==
  /\ assessments' = [r \in Run |-> IF r \in S THEN <<>> ELSE assessments[r]]
  /\ decisions' = [r \in Run |-> IF r \in S THEN <<>> ELSE decisions[r]]
  /\ drafts' = [r \in Run |-> IF r \in S THEN {} ELSE drafts[r]]
  /\ approved' = [r \in Run |-> IF r \in S THEN {} ELSE approved[r]]
  /\ used' = [r \in Run |-> IF r \in S THEN <<>> ELSE used[r]]
  /\ current' = current \ S

Erase(r) == Empty({r}) /\ UNCHANGED <<reachable, purged>>

\* A purge takes everything, and nothing is written after it.
Purge == purged' = TRUE /\ reachable' = FALSE /\ Empty(Run)

\* He, his documents or the vacancy change: nothing on the entry does.
Turn ==
  /\ reachable' \in BOOLEAN /\ current' \in SUBSET Run
  /\ purged => ~reachable'
  /\ UNCHANGED <<purged, chain>>

Next ==
  \/ Turn \/ Purge
  \/ \E r \in Run : \/ \E p \in Profile : Assess(r, p)
                    \/ Decide(r) \/ Prune(r) \/ Erase(r)
                    \/ \E parent \in {0, Newest(r)} : Write(r, parent)
                    \/ \E d \in drafts[r] : Approve(r, d) \/ Use(r, d)

Spec == Init /\ [][Next]_vars
=============================================================================
