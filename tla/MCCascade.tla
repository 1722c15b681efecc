------------------------------ MODULE MCCascade -----------------------------
(***************************************************************************)
(* Instances of Cascade for TLC.                                           *)
(***************************************************************************)
EXTENDS Cascade, TLC

CONSTANTS a, b

Symmetry == Permutations(Host)
=============================================================================
