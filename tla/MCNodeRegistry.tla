--------------------------- MODULE MCNodeRegistry ---------------------------
(***************************************************************************)
(* Instances of NodeRegistry for TLC: two command processes on each        *)
(* machine, this node and one other.                                       *)
(***************************************************************************)
EXTENDS NodeRegistry, TLC

CONSTANTS c1, c2, self, other

Symmetry == Permutations(Cmd)
=============================================================================
