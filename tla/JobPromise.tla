----------------------------- MODULE JobPromise -----------------------------
(***************************************************************************)
(* What a recruiter is promised about a batch (docs/architecture.md,       *)
(* "Durable background batches"), with workers, leases and restarts out of *)
(* sight: a submitted target waits until it is done or needs attention,    *)
(* every waiting target is settled in the end, a retry puts all and only   *)
(* the exceptions of one job back, and what is done stays done.            *)
(***************************************************************************)
CONSTANTS Job, Task, JobOf

VARIABLE state  \* of each target

State == {"absent", "waiting", "done", "exception"}

Init == state = [t \in Task |-> "absent"]

\* All targets of a job appear together.
Submit(j) ==
  /\ \A t \in Task : JobOf[t] = j => state[t] = "absent"
  /\ state' = [t \in Task |-> IF JobOf[t] = j THEN "waiting" ELSE state[t]]

Settle(t) ==
  /\ state[t] = "waiting"
  /\ \E s \in {"done", "exception"} : state' = [state EXCEPT ![t] = s]

Requeue(j) ==
  state' = [t \in Task |-> IF JobOf[t] = j /\ state[t] = "exception"
                           THEN "waiting" ELSE state[t]]

Next ==
  \/ \E j \in Job : Submit(j) \/ Requeue(j)
  \/ \E t \in Task : Settle(t)

Safety == Init /\ [][Next]_state

Spec == Safety /\ \A t \in Task : WF_state(Settle(t))
=============================================================================
