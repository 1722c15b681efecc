--------------------------- MODULE MCControlPlane ---------------------------
(***************************************************************************)
(* Instances of ControlPlane for TLC.  Each cfg chooses one of the         *)
(* situations: a faulty network with crashes, triggers without the         *)
(* reconcile interval, two children on a prompt network.                   *)
(***************************************************************************)
EXTENDS ControlPlane, TLC

CONSTANTS n1, n2

Symmetry == Permutations(Node)
=============================================================================
