----------------------------- MODULE MCSyncJobs -----------------------------
(***************************************************************************)
(* Instances of SyncJobs.                                                  *)
(***************************************************************************)
EXTENDS SyncJobs, TLC

CONSTANTS poll, post1, wait, hook, command, p

\* No caller without the lock mirrors a page ...
ReachApart == [x \in Actors |-> IF x \in {hook, command} THEN {} ELSE {p}]
\* ... or all may be asked for the same page.
ReachSame  == [x \in Actors |-> {p}]
=============================================================================
