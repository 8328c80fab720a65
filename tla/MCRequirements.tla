---------------------------- MODULE MCRequirements ----------------------------
(* Values for the constants of Requirements: one skill, one other value. *)
EXTENDS Requirements, TLC

CONSTANTS python, remote, engineer, dev, chef, r1, r2

C(m, n, f) == [must |-> m, nice |-> n, fact |-> f, role |-> None]
OneSkill == {python}
OneFact == {remote}
TwoTitles == {dev, chef}
Empty == C({}, {}, None)
Forms == {C({python}, {}, None), C({}, {python}, remote)}
OneRole == {engineer}
Answers == {[C({python}, {}, remote) EXCEPT !.role = engineer]}
StatesEngineer == [t \in TwoTitles |-> IF t = dev THEN {engineer} ELSE {}]
TwoRequests == {r1, r2}
Symmetry == Permutations(TwoRequests)
=============================================================================
