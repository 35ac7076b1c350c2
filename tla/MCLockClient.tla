---------------------------- MODULE MCLockClient ----------------------------
(* LockClient with two locks, one of which needs the scan to be found.      *)
EXTENDS LockClient

CONSTANTS l1, l2

MCLocks == {l1, l2}
MCMisjudged == {l2}
=============================================================================
