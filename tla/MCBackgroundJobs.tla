-------------------------- MODULE MCBackgroundJobs --------------------------
(***************************************************************************)
(* An instance of BackgroundJobs for TLC: two workers, one job of two      *)
(* tasks with different targets.                                           *)
(***************************************************************************)
EXTENDS BackgroundJobs, TLC

CONSTANTS w1, w2, j1, cv, entry

OneJobOf    == 1 :> j1 @@ 2 :> j1
OneTargetOf == 1 :> cv @@ 2 :> entry

AllJobs == [w \in Worker |-> Job]
=============================================================================
