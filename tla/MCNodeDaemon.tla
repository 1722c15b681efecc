---------------------------- MODULE MCNodeDaemon ----------------------------
(***************************************************************************)
(* Instances of NodeDaemon for TLC.  With two e-mails, references 1 and 2  *)
(* are e-mails and 3, 4, ... uuids.                                        *)
(***************************************************************************)
EXTENDS NodeDaemon, TLC

CONSTANTS t1, t2

Symmetry == Permutations(Thread)

Create(email, ext) == [kind |-> "create", ref |-> email, ext |-> ext]
Delete(ref) == [kind |-> "delete", ref |-> ref, ext |-> NoRef]

NoRequests == {}
\* A user with the e-mail of the portal's visitor, and its removal.
SameRequests == {Create(1, NoRef), Delete(1)}
\* A user with an e-mail of the portal, one without, and their removal.
StoreRequests == {Create(1, NoRef), Create(NoRef, NoRef), Delete(1), Delete(2)}
\* An operator removes a user by hand.
CliDelete == {Delete(1)}
=============================================================================
