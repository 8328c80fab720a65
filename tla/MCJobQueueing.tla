--------------------------- MODULE MCJobQueueing ---------------------------
(***************************************************************************)
(* Instances of JobQueueing for TLC.                                       *)
(***************************************************************************)
EXTENDS JobQueueing, TLC

CONSTANTS a, b

\* Two CVs of one candidate.
OneOwner == 1 :> a @@ 2 :> a
BothCvs == {{1, 2}}

\* A CV of one candidate, then one of another.
TwoOwners == 1 :> b @@ 2 :> a
=============================================================================
