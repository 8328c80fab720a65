-------------------------- MODULE MCReviewPipeline --------------------------
(* Instances of ReviewPipeline for TLC. *)
EXTENDS ReviewPipeline, TLC

CONSTANTS recruiter, admin, home, away

TwoActors == {recruiter, admin}
TwoFacts == {home, away}
OneRun == {1}
TwoRuns == {1, 2}

\* The first profile suits the first requirements at home, the second profile
\* suits both anywhere, but cannot be confirmed away from home.
SomeSuits == {<<1, 1, home>>} \cup ({1, 2} \X {2} \X TwoFacts)
SomeClash == {<<away, 2>>}

Actors == Permutations(TwoActors)
=============================================================================
