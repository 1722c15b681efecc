--------------------------- MODULE MCUserRecords ----------------------------
(***************************************************************************)
(* An instance of UserRecords for TLC.  With one e-mail, 1 is the e-mail   *)
(* and 2, 3 are uuids.                                                     *)
(***************************************************************************)
EXTENDS UserRecords

CONSTANTS heartbeat, pull
=============================================================================
