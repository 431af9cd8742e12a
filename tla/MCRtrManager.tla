---------------------------- MODULE MCRtrManager ----------------------------
(***************************************************************************)
(* Instances of RtrManager for TLC.                                        *)
(***************************************************************************)
EXTENDS RtrManager, TLC

CONSTANTS c1, c2, c3, v1, v2

VrpSymmetry == Permutations(Payloads)
=============================================================================
