--------------------------- MODULE UserListReplica --------------------------
(***************************************************************************)
(* What the main server's copy of the children's user lists promises,      *)
(* whatever heartbeats, pulls and crashes do: the copy of a child is a     *)
(* list that child really had, and it never goes back to an older one as   *)
(* long as the main server runs.  A list is represented by its version.    *)
(***************************************************************************)
EXTENDS Integers

CONSTANTS Node, None

VARIABLES
  source,  \* source[n]: the version of n's current list
  copy     \* copy[n]: the version of the list the main holds, or None

vars == <<source, copy>>

Init ==
  /\ source = [n \in Node |-> 0]
  /\ copy = [n \in Node |-> None]

Change(n) ==
  /\ source' = [source EXCEPT ![n] = @ + 1]
  /\ UNCHANGED copy

\* The copy moves to a list that is not older than the one held.
Refresh(n) ==
  /\ \E v \in 0 .. source[n] :
       /\ copy[n] # None => v >= copy[n]
       /\ copy' = [copy EXCEPT ![n] = v]
  /\ UNCHANGED source

\* The main server keeps its copies in memory only.
Forget ==
  /\ copy' = [n \in Node |-> None]
  /\ UNCHANGED source

Next == Forget \/ \E n \in Node : Change(n) \/ Refresh(n)

Spec == Init /\ [][Next]_vars
=============================================================================
