----------------------------- MODULE MCCvIntake -----------------------------
(***************************************************************************)
(* Instances of CvIntake for TLC.                                          *)
(***************************************************************************)
EXTENDS CvIntake, TLC

CONSTANTS batch1, hashA, hashB, personP, personQ

\* Two uploads of one batch.  The first and the direct upload are the same
\* bytes; the second has an identity key of each of two people.
OneBatch == [i \in Item |-> batch1]
SharedHash == [d \in Item \cup Direct |-> IF d = 2 THEN hashB ELSE hashA]
SharedIds == [c \in Item \cup Known |-> CASE c = 0 -> {personQ} [] c = 1 -> {personP} [] c = 2 -> {personP, personQ}]

Actors == Permutations(Actor)
=============================================================================
