------------------------------ MODULE MCHomes ------------------------------
(* Model values for Homes: a poll and a reconcile under the lock, and the  *)
(* refresh after a /command, which takes none.                             *)
EXTENDS Homes
CONSTANTS poll, full, command
=============================================================================
