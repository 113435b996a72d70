---------------------------- MODULE MCJobQueue ----------------------------
(* The instance of JobQueue for TLC: some of the jobs may throw. *)
EXTENDS JobQueue

SomeFaulty == {1, 3, 4, 6}
=============================================================================
