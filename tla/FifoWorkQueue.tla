--------------------------- MODULE FifoWorkQueue ---------------------------
(***************************************************************************)
(* What utils/Queue promises to the code that enqueues jobs, abstracting   *)
(* from listeners and promises: jobs begin in the order they were accepted,*)
(* each at most once, and until a job fails no accepted job waits while    *)
(* nothing is being worked on.  How many jobs are under way at once is     *)
(* left open.                                                              *)
(*                                                                         *)
(* Jobs are numbered by their order of arrival.                            *)
(***************************************************************************)
EXTENDS Naturals

CONSTANT MaxJobs    \* bound on the number of jobs ever accepted

VARIABLES
    accepted,       \* how many jobs have been accepted
    begun,          \* the jobs whose function has been called
    ended,          \* the jobs whose function has returned
    failed          \* the jobs whose function has thrown

vars == <<accepted, begun, ended, failed>>

UnderWay == begun \ (ended \cup failed)

Init ==
    /\ accepted = 0
    /\ begun = {}
    /\ ended = {}
    /\ failed = {}

\* The jobs that have begun are an initial segment of the accepted ones that
\* never shrinks, and it is all of them when none is under way or has failed.
Dispatch ==
    /\ begun' \in {1..k : k \in 0..accepted'}
    /\ begun \subseteq begun'
    /\ UnderWay' = {} /\ failed' = {} => begun' = 1..accepted'

Accept ==
    /\ accepted < MaxJobs
    /\ accepted' = accepted + 1
    /\ UNCHANGED <<ended, failed>>
    /\ Dispatch

End ==
    /\ \E j \in UnderWay : ended' = ended \cup {j}
    /\ UNCHANGED <<accepted, failed>>
    /\ Dispatch

Fail ==
    /\ \E j \in UnderWay : failed' = failed \cup {j}
    /\ UNCHANGED <<accepted, begun, ended>>

Next == Accept \/ End \/ Fail

\* What the queue never does wrong, and that it goes on
SafeSpec == Init /\ [][Next]_vars
Spec == SafeSpec /\ WF_vars(End \/ Fail)
=============================================================================
