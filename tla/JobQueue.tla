------------------------------ MODULE JobQueue ------------------------------
(***************************************************************************)
(* utils/Queue: an event-driven job queue.  A job is started either by the *)
(* one-shot 'enqueued' listener (frame "E") or by the 'processed' listener *)
(* (frame "P"); the frame that started a job resumes when it has ended.    *)
(*                                                                         *)
(* An action is what runs without giving up the event loop.  Enqueueing    *)
(* comes from stream events, that is from the event loop itself, so it     *)
(* never falls between the end of a job and the continuation of its frame, *)
(* which runs as a microtask.                                              *)
(***************************************************************************)
EXTENDS Naturals, Sequences, FiniteSets

CONSTANTS
    MaxJobs,        \* bound on the number of jobs ever enqueued
    Faulty          \* the jobs whose function may throw

ASSUME QueueAssumption ==
    /\ MaxJobs \in Nat
    /\ Faulty \subseteq 1..MaxJobs

VARIABLES
    arrived,        \* how many jobs were enqueued; a job is its arrival number
    jobs,           \* Queue.jobs
    frame,          \* which listener awaits each job: "none", "E" or "P"
    listeners,      \* how many one-shot 'enqueued' listeners are registered
    resuming,       \* how many "P" frames are about to look at the queue's size
    isProcessing,   \* Queue.state.isProcessing
    started,        \* history: the jobs in the order they were started
    ended,          \* history: the jobs in the order they returned
    failed          \* history: the jobs that threw

vars == <<arrived, jobs, frame, listeners, resuming, isProcessing,
          started, ended, failed>>

Job == 1..MaxJobs
Frames == {"none", "E", "P"}
Running == {j \in Job : frame[j] # "none"}
Ended == {ended[i] : i \in DOMAIN ended}

Least(a, b) == IF a <= b THEN a ELSE b

Init ==
    /\ arrived = 0
    /\ jobs = <<>>
    /\ frame = [j \in Job |-> "none"]
    /\ listeners = 1
    /\ resuming = 0
    /\ isProcessing = FALSE
    /\ started = <<>>
    /\ ended = <<>>
    /\ failed = {}

\* enqueueJob: every one-shot listener fires, and each starts one job as long
\* as there is one.
FiredByEnqueue(queue) == SubSeq(queue, 1, Least(listeners, Len(queue)))

Enqueue ==
    /\ arrived < MaxJobs
    /\ resuming = 0
    /\ arrived' = arrived + 1
    /\ LET queue == Append(jobs, arrived + 1)
           fired == FiredByEnqueue(queue)
       IN  /\ jobs' = SubSeq(queue, Len(fired) + 1, Len(queue))
           /\ started' = started \o fired
           /\ frame' = [j \in Job |->
                  IF \E i \in DOMAIN fired : fired[i] = j THEN "E" ELSE frame[j]]
           /\ isProcessing' = (isProcessing \/ fired # <<>>)
    /\ listeners' = 0
    /\ UNCHANGED <<resuming, ended, failed>>

\* The 'processed' listener: start the next job if there is one; without one
\* its frame resumes at once.  freed is the number of frames job j releases.
ProcessNext(j, freed) ==
    IF jobs = <<>>
    THEN /\ frame' = [frame EXCEPT ![j] = "none"]
         /\ resuming' = resuming + freed + 1
         /\ isProcessing' = FALSE
         /\ UNCHANGED <<jobs, started>>
    ELSE /\ frame' = [frame EXCEPT ![j] = "none", ![Head(jobs)] = "P"]
         /\ resuming' = resuming + freed
         /\ isProcessing' = TRUE
         /\ jobs' = Tail(jobs)
         /\ started' = Append(started, Head(jobs))

FramesFreed(j) == IF frame[j] = "P" THEN 1 ELSE 0

\* processJob after its await: 'processed' is emitted and its listener runs.
Finish(j) ==
    /\ j \in Running
    /\ ProcessNext(j, FramesFreed(j))
    /\ ended' = Append(ended, j)
    /\ UNCHANGED <<arrived, listeners, failed>>

\* A job that throws: no 'processed' event, state.isProcessing stays as it
\* is, the frame's catch emits 'error' and goes on.
Throw(j) ==
    /\ j \in Running \cap Faulty
    /\ frame' = [frame EXCEPT ![j] = "none"]
    /\ resuming' = resuming + FramesFreed(j)
    /\ failed' = failed \cup {j}
    /\ UNCHANGED <<arrived, jobs, listeners, isProcessing, started, ended>>

\* Mutated forms: the listener is not registered again; it is registered
\* whatever is left in the queue; a frame resumes that has resumed already.
ResumeDeaf ==
    /\ resuming > 0
    /\ resuming' = resuming - 1
    /\ UNCHANGED <<arrived, jobs, frame, listeners, isProcessing, started, ended, failed>>
ResumeEager ==
    /\ resuming > 0
    /\ resuming' = resuming - 1
    /\ listeners' = listeners + 1
    /\ UNCHANGED <<arrived, jobs, frame, isProcessing, started, ended, failed>>
ResumeTwice ==
    /\ arrived > 0
    /\ resuming' = resuming - 1
    /\ listeners' = IF jobs = <<>> THEN listeners + 1 ELSE listeners
    /\ UNCHANGED <<arrived, jobs, frame, isProcessing, started, ended, failed>>
\* The end of the 'processed' listener.
Resume ==
    /\ resuming > 0
    /\ resuming' = resuming - 1
    /\ listeners' = IF jobs = <<>> THEN listeners + 1 ELSE listeners
    /\ UNCHANGED <<arrived, jobs, frame, isProcessing, started, ended, failed>>

Next ==
    \/ Enqueue
    \/ \E j \in Job : Finish(j) \/ Throw(j)
    \/ Resume

\* Continuations run, and every job's function returns or throws.
Fairness == WF_vars(Resume) /\ \A j \in Job : WF_vars(Finish(j) \/ Throw(j))

Spec == Init /\ [][Next]_vars /\ Fairness

-----------------------------------------------------------------------------
TypeOK ==
    /\ arrived \in 0..MaxJobs
    /\ jobs \in Seq(Job)
    /\ frame \in [Job -> Frames]
    /\ listeners \in Nat
    /\ resuming \in Nat
    /\ isProcessing \in BOOLEAN
    /\ started \in Seq(Job)
    /\ ended \in Seq(Job)
    /\ failed \in SUBSET Faulty

\* A backlog is always being worked on: when no job is running, a job still in
\* the queue can only be there because an earlier one threw.  This is what
\* registering the one-shot listener again after the last job is for.
NoLostWakeup == jobs # <<>> /\ Running = {} => failed # {}

\* Jobs are started in the order they arrived, none twice and none left out,
\* however the two listeners share them.
StartsInOrder == \A i \in DOMAIN started : started[i] = i

\* Once a failure leaves a backlog behind with nothing running, the queue is
\* dead: later jobs are taken in but none is started, so the chunks behind a
\* failed one are never applied.
DeadQueueStaysDead ==
    [][jobs # <<>> /\ Running = {} => started' = started]_vars

\* Every job that arrives returns in the end, unless one throws.
EveryJobEnds == \A j \in Job : (arrived >= j) ~> (j \in Ended \/ failed # {})

\* The listeners and frames implement the abstract queue.
WorkQueue == INSTANCE FifoWorkQueue WITH
    accepted <- arrived,
    begun <- {started[i] : i \in DOMAIN started},
    ended <- Ended,
    failed <- failed
ImplementsWorkQueue == WorkQueue!Spec
=============================================================================
