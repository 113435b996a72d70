--------------------------- MODULE JobQueueProofs ---------------------------
(***************************************************************************)
(* JobQueue for any number of jobs, any of which may throw.                *)
(***************************************************************************)
EXTENDS JobQueue, SequenceTheorems, TLAPS

\* The started jobs are 1, 2, ... and the queue holds the ones that follow.
Fifo ==
    /\ arrived = Len(started) + Len(jobs)
    /\ \A i \in 1..Len(started) : started[i] = i
    /\ \A i \in 1..Len(jobs) : jobs[i] = Len(started) + i

\* A registered one-shot listener means an empty queue.
ListeningWhenEmpty == listeners > 0 => jobs = <<>>

\* Without a failure somebody is always there to start the next job: a running
\* job, a frame about to register the listener, or the listener.
SomebodyWatches ==
    failed = {} => Running # {} \/ resuming > 0 \/ listeners > 0

IInv ==
    /\ TypeOK
    /\ Fifo
    /\ ListeningWhenEmpty
    /\ SomebodyWatches
    /\ NoLostWakeup

-----------------------------------------------------------------------------
\* What enqueueJob does when a listener is registered, so that the queue is
\* empty: the new job starts at once.
LEMMA EnqueueStarts ==
    ASSUME IInv, Enqueue, listeners > 0
    PROVE  /\ arrived + 1 \in Job
           /\ jobs = <<>> /\ jobs' = <<>>
           /\ started' = Append(started, arrived + 1)
           /\ frame' = [frame EXCEPT ![arrived + 1] = "E"]
           /\ isProcessing' \in BOOLEAN
<1> DEFINE queue == Append(jobs, arrived + 1)
           fired == FiredByEnqueue(queue)
<1>1. jobs = <<>> /\ arrived \in Nat /\ MaxJobs \in Nat /\ listeners \in Nat
         /\ arrived < MaxJobs /\ started \in Seq(Job) /\ frame \in [Job -> Frames]
    BY QueueAssumption DEF IInv, TypeOK, ListeningWhenEmpty, Enqueue
<1>2. arrived + 1 \in Job
    BY <1>1 DEF Job
<1>3. queue \in Seq(Job) /\ Len(queue) = 1 /\ queue[1] = arrived + 1
    BY <1>1, <1>2
<1>4. Least(listeners, Len(queue)) = 1
    BY <1>1, <1>3 DEF Least
<1>5. fired = queue
    BY <1>3, <1>4, SubSeqFull DEF FiredByEnqueue
<1>6. SubSeq(queue, Len(fired) + 1, Len(queue)) = <<>>
    <2>1. SubSeq(queue, 2, 1) = <<>>
        BY SubSeqEmpty
    <2> QED
        BY <2>1, <1>3, <1>5
<1>7. started \o fired = Append(started, arrived + 1)
    <2>1. Append(started, arrived + 1) = started \o <<arrived + 1>>
        BY <1>1, <1>2, AppendIsConcat
    <2>2. <<arrived + 1>> \in Seq(Job) /\ Len(<<arrived + 1>>) = 1
              /\ <<arrived + 1>>[1] = arrived + 1
        BY <1>2
    <2> HIDE DEF queue
    <2>3. queue = <<arrived + 1>>
        BY <1>3, <2>2, SeqEqual
    <2> QED
        BY <2>1, <2>3, <1>5
<1>8. [j \in Job |-> IF \E i \in DOMAIN fired : fired[i] = j THEN "E" ELSE frame[j]]
        = [frame EXCEPT ![arrived + 1] = "E"]
    <2> HIDE DEF fired, queue
    <2>1. DOMAIN fired = {1} /\ fired[1] = arrived + 1
        BY <1>3, <1>5
    <2> QED
        BY <1>1, <1>2, <2>1
<1>9. (isProcessing \/ fired # <<>>) \in BOOLEAN
    OBVIOUS
<1> QED
    BY <1>1, <1>2, <1>6, <1>7, <1>8, <1>9 DEF Enqueue

\* What enqueueJob does when no listener is registered: the job is only queued.
LEMMA EnqueueWaits ==
    ASSUME IInv, Enqueue, listeners = 0
    PROVE  /\ arrived + 1 \in Job
           /\ jobs' = Append(jobs, arrived + 1)
           /\ started' = started
           /\ frame' = frame
           /\ isProcessing' = isProcessing
<1> DEFINE queue == Append(jobs, arrived + 1)
           fired == FiredByEnqueue(queue)
<1>1. jobs \in Seq(Job) /\ arrived \in Nat /\ MaxJobs \in Nat
         /\ arrived < MaxJobs /\ started \in Seq(Job) /\ frame \in [Job -> Frames]
         /\ isProcessing \in BOOLEAN
    BY QueueAssumption DEF IInv, TypeOK, Enqueue
<1>2. arrived + 1 \in Job
    BY <1>1 DEF Job
<1>3. queue \in Seq(Job) /\ Len(queue) = Len(jobs) + 1
    BY <1>1, <1>2, AppendProperties
<1>4. Least(listeners, Len(queue)) = 0
    BY <1>1, <1>3 DEF Least
<1>5. fired = <<>>
    BY <1>3, <1>4, SubSeqEmpty DEF FiredByEnqueue
<1>6. SubSeq(queue, Len(fired) + 1, Len(queue)) = queue
    BY <1>3, <1>5, SubSeqFull
<1>7. started \o fired = started
    BY <1>1, <1>5, ConcatEmptySeq
<1>8. [j \in Job |-> IF \E i \in DOMAIN fired : fired[i] = j THEN "E" ELSE frame[j]]
        = frame
    BY <1>1, <1>5
<1> QED
    BY <1>1, <1>2, <1>5, <1>6, <1>7, <1>8 DEF Enqueue

\* The strengthened invariant holds at first: one listener, an empty queue.
LEMMA InitIInv == Init => IInv
<1> SUFFICES ASSUME Init PROVE IInv
    OBVIOUS
<1>1. isProcessing \in BOOLEAN
    BY DEF Init
<1>2. arrived \in 0..MaxJobs /\ listeners \in Nat /\ resuming \in Nat
    BY QueueAssumption DEF Init
<1>3. jobs \in Seq(Job) /\ started \in Seq(Job) /\ ended \in Seq(Job)
    BY DEF Init
<1>4. frame \in [Job -> Frames] /\ failed \in SUBSET Faulty
    BY DEF Init, Frames
<1>5. TypeOK
    BY <1>1, <1>2, <1>3, <1>4 DEF TypeOK
<1> QED
    BY <1>5 DEF Init, IInv, Fifo, ListeningWhenEmpty, SomebodyWatches, NoLostWakeup

\* enqueueJob keeps it: the job either starts or finds the queue watched.
LEMMA EnqueueIInv == IInv /\ Enqueue => IInv'
<1> SUFFICES ASSUME IInv, Enqueue PROVE IInv'
    OBVIOUS
<1>1. /\ arrived' = arrived + 1 /\ arrived < MaxJobs /\ listeners' = 0
      /\ resuming = 0 /\ resuming' = resuming /\ ended' = ended /\ failed' = failed
    BY DEF Enqueue
<1>2. CASE listeners > 0
    <2>1. /\ arrived + 1 \in Job /\ jobs = <<>> /\ jobs' = <<>>
          /\ started' = Append(started, arrived + 1)
          /\ frame' = [frame EXCEPT ![arrived + 1] = "E"]
          /\ isProcessing' \in BOOLEAN
        BY <1>2, EnqueueStarts
    <2>a. /\ started' \in Seq(Job) /\ Len(started') = Len(started) + 1
          /\ \A i \in 1..Len(started) : started'[i] = started[i]
          /\ started'[Len(started) + 1] = arrived + 1
        BY <2>1, AppendProperties DEF IInv, TypeOK
    <2>b. TypeOK'
        <3>1. arrived' \in 0..MaxJobs
            BY <1>1, QueueAssumption DEF IInv, TypeOK
        <3>2. frame' \in [Job -> Frames]
            BY <2>1 DEF IInv, TypeOK, Frames
        <3>3. jobs' \in Seq(Job)
            BY <2>1
        <3> QED
            BY <1>1, <2>1, <2>a, <3>1, <3>2, <3>3 DEF IInv, TypeOK
    <2>2. Fifo'
        <3>1. arrived = Len(started) /\ Len(jobs') = 0
            BY <2>1 DEF IInv, TypeOK, Fifo
        <3> QED
            BY <1>1, <2>1, <2>a, <3>1 DEF IInv, TypeOK, Fifo
    <2>3. Running' # {}
        <3>1. arrived + 1 \in Job /\ frame'[arrived + 1] = "E"
            BY <2>1 DEF IInv, TypeOK
        <3> QED
            BY <3>1 DEF Running
    <2> QED
        BY <1>1, <2>1, <2>b, <2>2, <2>3
        DEF IInv, ListeningWhenEmpty, SomebodyWatches, NoLostWakeup
<1>3. CASE listeners = 0
    <2>a. /\ arrived + 1 \in Job /\ jobs' = Append(jobs, arrived + 1)
          /\ started' = started /\ frame' = frame /\ isProcessing' = isProcessing
        BY <1>3, EnqueueWaits
    <2>b. /\ jobs' \in Seq(Job) /\ Len(jobs') = Len(jobs) + 1
          /\ \A i \in 1..Len(jobs) : jobs'[i] = jobs[i]
          /\ jobs'[Len(jobs) + 1] = arrived + 1
        BY <2>a, AppendProperties DEF IInv, TypeOK
    <2>1. TypeOK'
        <3>1. arrived' \in 0..MaxJobs
            BY <1>1, QueueAssumption DEF IInv, TypeOK
        <3> QED
            BY <1>1, <2>a, <2>b, <3>1 DEF IInv, TypeOK
    <2>2. Fifo'
        <3>1. /\ arrived = Len(started) + Len(jobs)
              /\ Len(started) \in Nat /\ Len(jobs) \in Nat
              /\ \A i \in 1..Len(jobs) : jobs[i] = Len(started) + i
            BY DEF IInv, TypeOK, Fifo
        <3>2. \A i \in 1..Len(jobs') : jobs'[i] = Len(started') + i
            <4> TAKE i \in 1..Len(jobs')
            <4>1. CASE i = Len(jobs) + 1
                BY <2>a, <2>b, <3>1, <4>1
            <4>2. CASE i # Len(jobs) + 1
                <5>1. i \in 1..Len(jobs)
                    BY <2>b, <3>1, <4>2
                <5>2. jobs'[i] = jobs[i] /\ jobs[i] = Len(started) + i
                    BY <2>b, <3>1, <5>1
                <5> QED
                    BY <2>a, <5>2
            <4> QED
                BY <4>1, <4>2
        <3> QED
            BY <1>1, <2>a, <2>b, <3>1, <3>2 DEF IInv, Fifo
    <2>3. Running' = Running
        BY <1>3, EnqueueWaits DEF Running
    <2> QED
        BY <1>1, <1>3, <2>1, <2>2, <2>3
        DEF IInv, ListeningWhenEmpty, SomebodyWatches, NoLostWakeup
<1> QED
    BY <1>2, <1>3 DEF IInv, TypeOK

\* The end of a job keeps it: the next one starts, or the frame resumes.
LEMMA FinishIInv ==
    ASSUME NEW j \in Job
    PROVE  IInv /\ Finish(j) => IInv'
<1> SUFFICES ASSUME IInv, Finish(j) PROVE IInv'
    OBVIOUS
<1>1. FramesFreed(j) \in {0, 1}
    BY DEF FramesFreed
<1>2. ended' \in Seq(Job)
    BY AppendProperties DEF IInv, TypeOK, Finish
<1>3. CASE jobs = <<>>
    <2>1. TypeOK'
        <3>a. frame' \in [Job -> Frames]
            BY <1>3 DEF IInv, Finish, ProcessNext, TypeOK, Frames
        <3>b. resuming' \in Nat
            BY <1>1, <1>3 DEF IInv, Finish, ProcessNext, TypeOK
        <3>c. isProcessing' \in BOOLEAN
            BY <1>3 DEF Finish, ProcessNext
        <3>1. frame' \in [Job -> Frames] /\ resuming' \in Nat /\ isProcessing' \in BOOLEAN
            BY <3>a, <3>b, <3>c
        <3> QED
            BY <1>2, <1>3, <3>1 DEF IInv, Finish, ProcessNext, TypeOK
    <2>2. resuming' > 0 /\ jobs' = <<>>
        BY <1>1, <1>3 DEF IInv, Finish, ProcessNext, TypeOK
    <2> QED
        BY <1>3, <2>1, <2>2 DEF IInv, Finish, ProcessNext, Fifo,
            ListeningWhenEmpty, SomebodyWatches, NoLostWakeup
<1>4. CASE jobs # <<>>
    <2>1. /\ Head(jobs) \in Job /\ Head(jobs) = jobs[1] /\ Len(jobs) > 0
          /\ Tail(jobs) \in Seq(Job) /\ Len(Tail(jobs)) = Len(jobs) - 1
          /\ \A i \in 1..Len(Tail(jobs)) : Tail(jobs)[i] = jobs[i + 1]
        BY <1>4, HeadTailProperties DEF IInv, TypeOK
    <2>2. /\ jobs' = Tail(jobs) /\ started' = Append(started, Head(jobs))
          /\ arrived' = arrived
        BY <1>4 DEF Finish, ProcessNext
    <2>3. TypeOK'
        <3>1. jobs' \in Seq(Job) /\ started' \in Seq(Job)
            BY <2>1, <2>2, AppendProperties DEF IInv, TypeOK
        <3>2. frame' \in [Job -> Frames]
            BY <1>4, <2>1 DEF IInv, Finish, ProcessNext, TypeOK, Frames
        <3>3. resuming' \in Nat /\ isProcessing' \in BOOLEAN
            BY <1>1, <1>4 DEF IInv, Finish, ProcessNext, TypeOK
        <3> QED
            BY <1>2, <3>1, <3>2, <3>3 DEF IInv, Finish, TypeOK
    <2>4. Fifo'
        BY <2>1, <2>2, AppendProperties DEF IInv, TypeOK, Fifo
    <2>5. Running' # {}
        <3>1. frame'[Head(jobs)] = "P"
            BY <1>4, <2>1 DEF IInv, Finish, ProcessNext, TypeOK
        <3> QED
            BY <2>1, <3>1 DEF Running
    <2>6. listeners' = 0
        BY <1>4 DEF IInv, Finish, TypeOK, ListeningWhenEmpty
    <2> QED
        BY <2>3, <2>4, <2>5, <2>6 DEF IInv, ListeningWhenEmpty,
            SomebodyWatches, NoLostWakeup
<1> QED
    BY <1>3, <1>4

\* A job that throws keeps it: its frame resumes, and the failure is noted.
LEMMA ThrowIInv ==
    ASSUME NEW j \in Job
    PROVE  IInv /\ Throw(j) => IInv'
<1> SUFFICES ASSUME IInv, Throw(j) PROVE IInv'
    OBVIOUS
<1>1. FramesFreed(j) \in {0, 1}
    BY DEF FramesFreed
<1>2. TypeOK'
    BY <1>1 DEF IInv, TypeOK, Throw, Frames, Running
<1>3. failed' # {}
    BY DEF Throw
<1> QED
    BY <1>2, <1>3 DEF IInv, Throw, Fifo, ListeningWhenEmpty, SomebodyWatches, NoLostWakeup

\* The end of the processed listener keeps it: the queue it finds empty is
\* watched again.
LEMMA ResumeIInv == IInv /\ Resume => IInv'
<1> SUFFICES ASSUME IInv, Resume PROVE IInv'
    OBVIOUS
<1> USE DEF IInv, Resume, Running
<1>1. TypeOK'
    BY DEF TypeOK
<1>2. CASE jobs = <<>>
    BY <1>1, <1>2 DEF TypeOK, Fifo, ListeningWhenEmpty, SomebodyWatches, NoLostWakeup
<1>3. CASE jobs # <<>>
    BY <1>1, <1>3 DEF TypeOK, Fifo, ListeningWhenEmpty, SomebodyWatches, NoLostWakeup
<1> QED
    BY <1>2, <1>3

\* Every step of the queue keeps the strengthened invariant.
LEMMA IInvInductive == IInv /\ [Next]_vars => IInv'
<1>1. IInv /\ UNCHANGED vars => IInv'
    BY DEF IInv, vars, TypeOK, Fifo, ListeningWhenEmpty, SomebodyWatches,
        NoLostWakeup, Running
<1> QED
    BY <1>1, EnqueueIInv, FinishIInv, ThrowIInv, ResumeIInv DEF Next

\* The strengthened invariant holds in every state of every behaviour.
LEMMA AlwaysIInv == Spec => []IInv
<1> QED
    BY InitIInv, IInvInductive, PTL DEF Spec

-----------------------------------------------------------------------------
\* The queue's state keeps its type, whatever jobs arrive and throw.
THEOREM QueueTypeCorrect == Spec => []TypeOK
<1>1. IInv => TypeOK
    BY DEF IInv
<1> QED
    BY <1>1, AlwaysIInv, PTL

\* Registering the one-shot listener again only when the queue is empty never
\* leaves a job that nobody will start, unless a job threw.
THEOREM QueueNoLostWakeup == Spec => []NoLostWakeup
<1>1. IInv => NoLostWakeup
    BY DEF IInv
<1> QED
    BY <1>1, AlwaysIInv, PTL

\* Jobs start in the order of arrival, whichever listener starts them.
THEOREM QueueStartsInOrder == Spec => []StartsInOrder
<1>1. IInv => StartsInOrder
    BY DEF IInv, TypeOK, Fifo, StartsInOrder
<1> QED
    BY <1>1, AlwaysIInv, PTL

\* A queue with a backlog and nothing running starts nothing ever again.
THEOREM QueueDeadStaysDead == Spec => DeadQueueStaysDead
<1>1. ASSUME IInv, [Next]_vars, jobs # <<>>, Running = {}
      PROVE  started' = started
    <2>1. listeners = 0
        BY <1>1 DEF IInv, ListeningWhenEmpty, TypeOK
    <2>2. CASE Enqueue
        BY <1>1, <2>1, <2>2, EnqueueWaits
    <2>3. CASE \E j \in Job : Finish(j)
        BY <1>1, <2>3 DEF Finish
    <2>4. CASE (\E j \in Job : Throw(j)) \/ Resume \/ UNCHANGED vars
        BY <2>4 DEF Throw, Resume, vars
    <2> QED
        BY <1>1, <2>2, <2>3, <2>4 DEF Next
<1> QED
    BY <1>1, AlwaysIInv, PTL DEF Spec, DeadQueueStaysDead

-----------------------------------------------------------------------------
\* The jobs that were started, and what became of them: one that neither
\* returned nor threw is awaited by a frame.
Begun == {started[i] : i \in DOMAIN started}

Accounting ==
    /\ Ended \cup failed \subseteq Begun
    /\ Running = Begun \ (Ended \cup failed)

\* The started jobs are an initial segment of the arrivals.
LEMMA BegunIsInitial ==
    ASSUME IInv
    PROVE  /\ Len(started) \in Nat /\ Len(jobs) \in Nat
           /\ Begun = 1..Len(started)
           /\ Len(started) \in 0..arrived
<1>1. /\ started \in Seq(Job) /\ jobs \in Seq(Job) /\ arrived = Len(started) + Len(jobs)
      /\ \A i \in 1..Len(started) : started[i] = i
    BY DEF IInv, TypeOK, Fifo
<1>2. Begun = 1..Len(started)
    BY <1>1 DEF Begun
<1> QED
    BY <1>1, <1>2

\* Accounting holds of the empty queue.
LEMMA InitAccounting == Init => Accounting
<1> SUFFICES ASSUME Init PROVE Accounting
    OBVIOUS
<1>1. Running = {}
    BY DEF Init, Running
<1>2. Begun = {} /\ Ended = {} /\ failed = {}
    BY DEF Init, Begun, Ended
<1> QED
    BY <1>1, <1>2 DEF Accounting

\* A job that starts was not started before, so that nothing it did or that
\* became of it can have been counted.
LEMMA StartedIsNew ==
    ASSUME IInv, Accounting, NEW new, new = Len(started) + 1
    PROVE  new \notin Begun /\ new \notin Ended /\ new \notin failed /\ new \notin Running
<1>1. new \notin Begun
    BY BegunIsInitial
<1> QED
    BY <1>1 DEF Accounting

\* Starting a job adds it to the jobs begun.
LEMMA BegunGrows ==
    ASSUME IInv, NEW new \in Job, started' = Append(started, new)
    PROVE  Begun' = Begun \cup {new}
<1>1. /\ started \in Seq(Job) /\ started' \in Seq(Job) /\ Len(started) \in Nat
      /\ Len(started') = Len(started) + 1
      /\ \A i \in 1..Len(started) : started'[i] = started[i]
      /\ started'[Len(started) + 1] = new
    BY AppendProperties DEF IInv, TypeOK
<1>2. DOMAIN started = 1..Len(started) /\ DOMAIN started' = 1..(Len(started) + 1)
    BY <1>1
<1>3. DOMAIN started' = DOMAIN started \cup {Len(started) + 1}
    BY <1>1, <1>2
<1> QED
    BY <1>1, <1>2, <1>3 DEF Begun

\* A job that returns is added to the jobs ended.
LEMMA EndedGrows ==
    ASSUME IInv, NEW j \in Job, ended' = Append(ended, j)
    PROVE  Ended' = Ended \cup {j}
<1>1. /\ ended \in Seq(Job) /\ ended' \in Seq(Job) /\ Len(ended) \in Nat
      /\ Len(ended') = Len(ended) + 1
      /\ \A i \in 1..Len(ended) : ended'[i] = ended[i]
      /\ ended'[Len(ended) + 1] = j
    BY AppendProperties DEF IInv, TypeOK
<1>2. DOMAIN ended = 1..Len(ended) /\ DOMAIN ended' = 1..(Len(ended) + 1)
    BY <1>1
<1>3. DOMAIN ended' = DOMAIN ended \cup {Len(ended) + 1}
    BY <1>1, <1>2
<1> QED
    BY <1>1, <1>2, <1>3 DEF Ended

\* What each operation does to the accounts: enqueueing may start the new job,
\* the end of a job may start the next one, a job that throws starts none.
LEMMA EnqueueAccounts ==
    ASSUME IInv, Accounting, Enqueue
    PROVE  /\ Accounting'
           /\ Begun \subseteq Begun' /\ Ended' = Ended /\ failed' = failed
<1>1. ended' = ended /\ failed' = failed /\ Ended' = Ended
    BY DEF Enqueue, Ended
<1>2. CASE listeners > 0
    <2> DEFINE new == arrived + 1
    <2>1. /\ new \in Job /\ started' = Append(started, new) /\ jobs = <<>>
          /\ frame' = [frame EXCEPT ![new] = "E"]
        BY <1>2, EnqueueStarts
    <2>2. new = Len(started) + 1
        BY <2>1 DEF IInv, TypeOK, Fifo
    <2> HIDE DEF new
    <2>3. Begun' = Begun \cup {new}
        BY <2>1, BegunGrows
    <2>4. Running' = Running \cup {new}
        BY <2>1 DEF Running, IInv, TypeOK
    <2>5. new \notin Ended /\ new \notin failed
        BY <2>2, StartedIsNew
    <2> QED
        BY <1>1, <2>3, <2>4, <2>5 DEF Accounting
<1>3. CASE listeners = 0
    <2>1. started' = started /\ frame' = frame
        BY <1>3, EnqueueWaits
    <2>2. Begun' = Begun /\ Running' = Running
        BY <2>1 DEF Begun, Running
    <2> QED
        BY <1>1, <2>2 DEF Accounting
<1> QED
    BY <1>2, <1>3 DEF IInv, TypeOK

LEMMA FinishAccounts ==
    ASSUME NEW j \in Job, IInv, Accounting, Finish(j)
    PROVE  /\ Accounting'
           /\ j \in Running /\ Begun \subseteq Begun'
           /\ Ended' = Ended \cup {j} /\ failed' = failed
<1>1. /\ j \in Running /\ ended' = Append(ended, j) /\ failed' = failed
      /\ frame \in [Job -> Frames]
    BY DEF Finish, IInv, TypeOK
<1>2. Ended' = Ended \cup {j}
    BY <1>1, EndedGrows
<1>3. j \in Begun /\ j \notin failed
    BY <1>1 DEF Accounting
<1>4. CASE jobs = <<>>
    <2>1. started' = started /\ frame' = [frame EXCEPT ![j] = "none"]
        BY <1>4 DEF Finish, ProcessNext
    <2>2. Begun' = Begun
        BY <2>1 DEF Begun
    <2>3. Running' = Running \ {j}
        BY <1>1, <2>1 DEF Running
    <2> QED
        BY <1>1, <1>2, <1>3, <2>2, <2>3 DEF Accounting
<1>5. CASE jobs # <<>>
    <2> DEFINE new == Head(jobs)
    <2>1. new \in Job /\ new = Len(started) + 1
        <3>1. Head(jobs) \in Job /\ Head(jobs) = jobs[1] /\ Len(jobs) > 0
            BY <1>5, HeadTailProperties DEF IInv, TypeOK
        <3> QED
            BY <3>1, BegunIsInitial DEF IInv, Fifo
    <2>2. /\ started' = Append(started, new)
          /\ frame' = [frame EXCEPT ![j] = "none", ![new] = "P"]
        BY <1>5 DEF Finish, ProcessNext
    <2> HIDE DEF new
    <2>3. Begun' = Begun \cup {new}
        BY <2>1, <2>2, BegunGrows
    <2>4. new \notin Begun /\ new \notin Ended /\ new \notin failed /\ new \notin Running
        BY <2>1, StartedIsNew
    <2>5. new # j
        BY <1>1, <2>4
    <2>6. Running' = (Running \ {j}) \cup {new}
        BY <1>1, <2>1, <2>2, <2>5 DEF Running
    <2> QED
        BY <1>1, <1>2, <1>3, <2>3, <2>4, <2>5, <2>6 DEF Accounting
<1> QED
    BY <1>4, <1>5

LEMMA ThrowAccounts ==
    ASSUME NEW j \in Job, IInv, Accounting, Throw(j)
    PROVE  /\ Accounting'
           /\ j \in Running /\ Begun' = Begun
           /\ Ended' = Ended /\ failed' = failed \cup {j}
<1>1. /\ j \in Running /\ frame' = [frame EXCEPT ![j] = "none"]
      /\ failed' = failed \cup {j} /\ started' = started /\ ended' = ended
      /\ frame \in [Job -> Frames]
    BY DEF Throw, IInv, TypeOK
<1>2. Begun' = Begun /\ Ended' = Ended
    BY <1>1 DEF Begun, Ended
<1>3. Running' = Running \ {j}
    BY <1>1 DEF Running
<1>4. j \in Begun
    BY <1>1 DEF Accounting
<1> QED
    BY <1>1, <1>2, <1>3, <1>4 DEF Accounting

\* The accounts balance in every state of every behaviour.
LEMMA AlwaysAccounting == Spec => [](IInv /\ Accounting)
<1>1. ASSUME IInv, Accounting, [Next]_vars PROVE Accounting'
    <2>1. CASE Resume \/ UNCHANGED vars
        <3>1. started' = started /\ frame' = frame /\ ended' = ended /\ failed' = failed
            BY <2>1 DEF Resume, vars
        <3> QED
            BY <1>1, <3>1 DEF Accounting, Begun, Ended, Running
    <2> QED
        BY <1>1, <2>1, EnqueueAccounts, FinishAccounts, ThrowAccounts DEF Next
<1> QED
    BY <1>1, AlwaysIInv, InitAccounting, PTL DEF Spec

\* In a state that balances, and where no wakeup was lost, the abstract queue's
\* rule of dispatching is met, as far as it is about that state.
LEMMA DispatchMet ==
    ASSUME IInv', Accounting', Begun \subseteq Begun'
    PROVE  WorkQueue!Dispatch
<1> USE DEF WorkQueue!UnderWay
<1>1. /\ started' \in Seq(Job) /\ jobs' \in Seq(Job) /\ arrived' \in Nat
      /\ arrived' = Len(started') + Len(jobs')
      /\ \A i \in 1..Len(started') : started'[i] = i
      /\ jobs' # <<>> /\ Running' = {} => failed' # {}
    BY QueueAssumption DEF IInv, TypeOK, Fifo, NoLostWakeup
<1>2. Begun' = 1..Len(started')
    BY <1>1 DEF Begun
<1>3. Len(started') \in 0..arrived'
    BY <1>1
<1>4. ASSUME Running' = {}, failed' = {} PROVE Begun' = 1..arrived'
    <2>1. Len(jobs') = 0
        BY <1>1, <1>4
    <2> QED
        BY <1>1, <1>2, <2>1
<1>5. Running' = Begun' \ (Ended' \cup failed')
    BY DEF Accounting
<1> QED
    BY <1>2, <1>3, <1>4, <1>5 DEF WorkQueue!Dispatch, Begun

\* Queue, with its two kinds of listeners, implements the abstract work queue:
\* every step of the listeners and frames is a step of the abstract queue, or
\* invisible to whoever enqueues jobs.  (That the abstract queue goes on is
\* left to TLC, see ImplementsWorkQueue.)
THEOREM QueueImplementsWorkQueue == Spec => WorkQueue!SafeSpec
<1>1. Init => WorkQueue!Init
    BY DEF Init, WorkQueue!Init, Ended
<1>2. ASSUME IInv, Accounting, IInv', Accounting', [Next]_vars
      PROVE  [WorkQueue!Next]_WorkQueue!vars
    <2>1. UNCHANGED <<arrived, started, ended, failed>> => UNCHANGED WorkQueue!vars
        BY DEF WorkQueue!vars, Ended
    <2>2. CASE Resume \/ UNCHANGED vars
        BY <2>1, <2>2 DEF Resume, vars
    <2>3. CASE Enqueue
        <3>1. Begun \subseteq Begun' /\ Ended' = Ended /\ failed' = failed
            BY <1>2, <2>3, EnqueueAccounts
        <3>2. WorkQueue!Dispatch
            BY <1>2, <3>1, DispatchMet
        <3> QED
            BY <2>3, <3>1, <3>2 DEF Enqueue, WorkQueue!Next, WorkQueue!Accept
    <2>4. ASSUME NEW j \in Job, Finish(j) PROVE WorkQueue!End
        <3>1. /\ j \in Running /\ Begun \subseteq Begun'
              /\ Ended' = Ended \cup {j} /\ failed' = failed
            BY <1>2, <2>4, FinishAccounts
        <3>2. WorkQueue!Dispatch
            BY <1>2, <3>1, DispatchMet
        <3>3. j \in WorkQueue!UnderWay
            BY <1>2, <3>1 DEF Accounting, Begun, WorkQueue!UnderWay
        <3> QED
            BY <2>4, <3>1, <3>2, <3>3 DEF Finish, WorkQueue!End
    <2>5. ASSUME NEW j \in Job, Throw(j) PROVE WorkQueue!Fail
        <3>1. /\ j \in Running /\ Begun' = Begun
              /\ Ended' = Ended /\ failed' = failed \cup {j}
            BY <1>2, <2>5, ThrowAccounts
        <3>2. j \in WorkQueue!UnderWay
            BY <1>2, <3>1 DEF Accounting, Begun, WorkQueue!UnderWay
        <3> QED
            BY <2>5, <3>1, <3>2 DEF Throw, WorkQueue!Fail, Begun
    <2> QED
        BY <1>2, <2>2, <2>3, <2>4, <2>5 DEF Next, WorkQueue!Next
<1> QED
    BY <1>1, <1>2, AlwaysAccounting, PTL DEF Spec, WorkQueue!SafeSpec
=============================================================================
