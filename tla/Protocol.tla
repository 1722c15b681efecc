------------------------------ MODULE Protocol ------------------------------
(***************************************************************************)
(* The pure decisions of internal/protocol: when the main server pulls a   *)
(* child (ShouldPull) and when it takes a child for dead (MarkDown).       *)
(*                                                                         *)
(* Clock readings appear as ages: view.seen is now - LastSeen and          *)
(* view.pullAge is now - LastPull, both counted in heartbeat intervals     *)
(* (the scheduler's 20 seconds).  view.pulled stands for a non-zero        *)
(* LastPull.  A view exists only once a heartbeat arrived, so LastSeen is  *)
(* never zero in one.                                                      *)
(***************************************************************************)
EXTENDS Integers

\* A configured value of zero or less means "use the default".
OrDefault(configured, default) ==
  IF configured <= 0 THEN default ELSE configured

\* Mutant: the version comparison is forgotten.
ShouldPullIgnoringVersion(v, byteDelta, reconcileEvery) ==
  \/ ~v.pulled
  \/ v.heardBytes - v.pulledBytes >= byteDelta
  \/ v.pullAge >= reconcileEvery

\* Mutant: "exceeds" instead of "reaches" the threshold.
ShouldPullAboveDelta(v, byteDelta, reconcileEvery) ==
  \/ ~v.pulled
  \/ v.heardVer > v.pulledVer
  \/ v.heardBytes - v.pulledBytes > byteDelta
  \/ v.pullAge >= reconcileEvery

\* Mutant: no periodic safety net.
ShouldPullWithoutReconcile(v, byteDelta, reconcileEvery) ==
  \/ ~v.pulled
  \/ v.heardVer > v.pulledVer
  \/ v.heardBytes - v.pulledBytes >= byteDelta

\* The heard state has drifted from the pulled state in a way that matters,
\* or there is no baseline yet, or the periodic reconcile is due.
ShouldPull(v, byteDelta, reconcileEvery) ==
  \/ ~v.pulled
  \/ v.heardVer > v.pulledVer
  \/ v.heardBytes - v.pulledBytes >= byteDelta
  \/ v.pullAge >= reconcileEvery

\* Mutant: the last tolerated miss already counts as DOWN.
MarkDownEarly(v, allowedMisses) == v.seen >= allowedMisses

\* The last heartbeat is older than the tolerated number of misses.
MarkDown(v, allowedMisses) == v.seen > allowedMisses
=============================================================================
