------------------------------ MODULE MCTenancy ------------------------------
(* Values for the constants of Tenancy: one platform owner, two people. *)
EXTENDS Tenancy, TLC

CONSTANTS owner, ann, bob, w1, w2

ThreeUsers == {owner, ann, bob}
OneOwner == {owner}
TwoPeople == {ann, bob}
TwoTabs == {w1, w2}
=============================================================================
