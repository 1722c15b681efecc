------------------------------ MODULE UserStore -----------------------------
(***************************************************************************)
(* The user list of internal/store and the operations on it, as functions  *)
(* of the list.                                                            *)
(*                                                                         *)
(* AddUser appends and RemoveUser keeps the order, so the list is always   *)
(* in the order of creation.  It is represented by the set of its users,   *)
(* with uuids that are numbers handed out in that order: "the first match" *)
(* is the match with the least uuid.                                       *)
(*                                                                         *)
(* References (uuid, e-mail, external id, telegram id) are numbers, and    *)
(* NoRef is the empty one.  The telegram id is an optional label like the  *)
(* external id, and one of them stands for both.                           *)
(***************************************************************************)
EXTENDS Integers, FiniteSets

NoRef == 0

Source == {"manual", "authentik"}

\* An empty reference matches nobody.
MatchRef(u, ref) == ref # NoRef /\ ref \in {u.id, u.email, u.ext}

Matching(S, ref) == {u \in S : MatchRef(u, ref)}

\* The user that occurs first in the list.
First(S) == CHOOSE u \in S : \A v \in S : u.id <= v.id

\* FindUser: the set of what it returns, empty when it finds nobody.
FindUser(S, ref) ==
  IF Matching(S, ref) = {} THEN {} ELSE {First(Matching(S, ref))}

\* Mutant: the duplicate check is forgotten.
NeverTaken(S, email) == FALSE

\* AddUser refuses a second user with the same non-empty e-mail.
Taken(S, email) == email # NoRef /\ \E u \in S : u.email = email

Ids(S) == {u.id : u \in S}
=============================================================================
