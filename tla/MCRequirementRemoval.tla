------------------------ MODULE MCRequirementRemoval ------------------------
(***************************************************************************)
(* RequirementRemoval for TLC.                                             *)
(***************************************************************************)
EXTENDS RequirementRemoval, TLC

Symmetric == Permutations(Actor)
=============================================================================
