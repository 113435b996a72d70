----------------------------- MODULE IdentitySync -----------------------------
(***************************************************************************)
(* The scan for the identities of a wallet, by the IdentitySyncWorkers of  *)
(* its accounts, and getUnusedIdentityIndex.                               *)
(*                                                                         *)
(* The list identityIds of the store is one for all accounts; an identity  *)
(* is determined by its index, so that the list is given by its length and *)
(* the indexes it has an id at.  The network (external) never forgets an   *)
(* identity, and answers a request as of the moment the answer arrives.    *)
(* What the code does between two requests is one step.  A worker scans    *)
(* once at a time, and somebody hears its errors (see WorkerLifecycle).    *)
(***************************************************************************)
EXTENDS Integers

CONSTANTS
    Workers,        \* the IdentitySyncWorkers, one for each account
    GapLimit,       \* gapLimit
    MaxIndex        \* bound on the indexes of identities

ASSUME IdentityAssumption ==
    /\ GapLimit \in Nat \ {0}
    /\ MaxIndex \in Nat

Index == 0..MaxIndex

VARIABLES
    registered,     \* the indexes of the identities on the network
    identityIds,    \* the list of the store, as its length and indexes
    ticking,        \* the workers that have an interval
    scan,           \* the scan each worker does, or its last one
    answer          \* what getUnusedIdentityIndex has last returned; -1 at first

vars == <<registered, identityIds, ticking, scan, answer>>

\* awaited: does a call of getUnusedIdentityIndex wait for it?  completed: has
\* it ended at the gap limit?  unusedIndices, gapCount and index: the variables
\* of execute.  History: what was on the network and in the list at first; of a
\* scan that has failed nothing is kept.
NoScan == [running |-> FALSE, awaited |-> FALSE, completed |-> FALSE,
           unusedIndices |-> {}, gapCount |-> 0, index |-> -1,
           network |-> {}, list |-> [length |-> 0, indexes |-> {}]]

Init ==
    /\ registered \in SUBSET Index
    /\ identityIds = [length |-> 0, indexes |-> {}]
    /\ ticking = Workers
    /\ scan = [w \in Workers |-> NoScan]
    /\ answer = -1

\* An identity is registered, by this wallet or by another that has its keys.
Register(i) ==
    /\ registered' = registered \cup {i}
    /\ UNCHANGED <<identityIds, ticking, scan, answer>>

-----------------------------------------------------------------------------
\* insertIdentityIdAtIndex
Inserted(list, i) ==
    [length |-> IF i < list.length THEN list.length ELSE i + 1,
     indexes |-> list.indexes \cup {i}]

\* execute up to its first request.  The test that should collect the holes of
\* the list collects the other indexes.
Begin(w, awaited) ==
    scan' = [scan EXCEPT ![w] =
        [NoScan EXCEPT !.running = TRUE, !.awaited = awaited,
                       !.unusedIndices = identityIds.indexes,
                       !.network = registered, !.list = identityIds]]

\* The one index the next request asks for: the indexes collected come first.
\* (An index 0 among them is as good as none, but then it is next all the same.)
NextIndexes(s) ==
    IF s.unusedIndices = {} THEN {s.index + 1}
    ELSE {i \in s.unusedIndices : \A j \in s.unusedIndices : i <= j}

\* An index that does not follow the one before resets the gap.
GapBefore(s, i) == IF i # s.index + 1 THEN 0 ELSE s.gapCount

\* Mutated form: the gap goes on over an identity
FoundInGap(s, i) ==
    [s EXCEPT !.unusedIndices = @ \ {i}, !.index = i, !.gapCount = GapBefore(s, i)]
Found(s, i) == [s EXCEPT !.unusedIndices = @ \ {i}, !.index = i, !.gapCount = 0]

Missed(s, i) ==
    [s EXCEPT !.unusedIndices = @ \ {i}, !.index = i, !.gapCount = GapBefore(s, i) + 1]

\* Mutated form: the list is looked up before the scan has added to it
FirstMissingBefore(s, list) ==
    {i \in 0..s.list.length : i \notin s.list.indexes /\ 0..(i - 1) \subseteq s.list.indexes}
\* The index getUnusedIdentityIndex finds in a list after the scan s
FirstMissing(s, list) ==
    {i \in 0..list.length : i \notin list.indexes /\ 0..(i - 1) \subseteq list.indexes}

\* A scan ends: the call that waits for it returns.
Completed(s) == [NoScan EXCEPT !.completed = TRUE, !.network = s.network, !.list = s.list]
Ended(w, s) ==
    /\ scan' = [scan EXCEPT ![w] = s]
    /\ \/ ~ scan[w].awaited /\ UNCHANGED answer
       \/ scan[w].awaited /\ answer' \in FirstMissing(scan[w], identityIds)

\* Every 60 seconds, and when the worker is started
Tick(w) ==
    /\ w \in ticking
    /\ ~ scan[w].running
    /\ Begin(w, FALSE)
    /\ UNCHANGED <<registered, identityIds, ticking, answer>>

\* execWorker returns at once when the worker is running already: the list is
\* looked up as it is.
GetUnusedIdentityIndex(w) ==
    /\ \/ ~ scan[w].running /\ Begin(w, TRUE) /\ UNCHANGED answer
       \/ scan[w].running /\ answer' \in FirstMissing(scan[w], identityIds) /\ UNCHANGED scan
    /\ UNCHANGED <<registered, identityIds, ticking>>

IdentityArrives(w) ==
    /\ scan[w].running
    /\ \E i \in NextIndexes(scan[w]) :
           /\ i \in registered
           /\ scan' = [scan EXCEPT ![w] = Found(@, i)]
           /\ identityIds' = Inserted(identityIds, i)
    /\ UNCHANGED <<registered, ticking, answer>>

NothingArrives(w) ==
    /\ scan[w].running
    /\ \E i \in NextIndexes(scan[w]) :
           LET s == Missed(scan[w], i)
           IN  /\ i \notin registered
               /\ \/ s.gapCount < GapLimit /\ scan' = [scan EXCEPT ![w] = s] /\ UNCHANGED answer
                  \/ s.gapCount >= GapLimit /\ Ended(w, Completed(s))
    /\ UNCHANGED <<registered, identityIds, ticking>>

\* The request fails, or its answer is no identity id: execWorker stops the
\* worker, and a call that waits for the scan is not told.
RequestFails(w) ==
    /\ scan[w].running
    /\ Ended(w, NoScan)
    /\ ticking' = ticking \ {w}
    /\ UNCHANGED <<registered, identityIds>>

Next ==
    \/ \E i \in Index : Register(i)
    \/ \E w \in Workers :
           \/ Tick(w) \/ GetUnusedIdentityIndex(w)
           \/ IdentityArrives(w) \/ NothingArrives(w) \/ RequestFails(w)

Spec == Init /\ [][Next]_vars

-----------------------------------------------------------------------------
Lists == {list \in [length: Nat, indexes: SUBSET Nat] : \A i \in list.indexes : i < list.length}

TypeOK ==
    /\ registered \in SUBSET Index
    /\ identityIds \in Lists
    /\ ticking \in SUBSET Workers
    /\ scan \in [Workers -> [running: BOOLEAN, awaited: BOOLEAN, completed: BOOLEAN,
                             unusedIndices: SUBSET Nat, gapCount: Nat, index: Int,
                             network: SUBSET Nat, list: Lists]]
    /\ answer \in Int

\* GapLimit indexes below i, beyond the end of the list, had no identity when
\* the scan began.
BehindGap(s, i) ==
    \E j \in s.list.length..i :
        j + GapLimit <= i /\ \A k \in j..(j + GapLimit - 1) : k \notin s.network

\* A scan that reaches the gap limit has stored every identity that was there
\* when it began, beyond the end of the list and not behind a full gap, whatever
\* the other accounts' scans store meanwhile.
ScanComplete ==
    \A w \in Workers : scan[w].completed =>
        \A i \in scan[w].network :
            i >= scan[w].list.length => i \in identityIds.indexes \/ BehindGap(scan[w], i)

\* "check unused indices in the middle of list first" (execute): the scan has
\* also found what has been registered in a hole of the list.
HolesChecked ==
    \A w \in Workers : scan[w].completed =>
        \A i \in scan[w].network : i < scan[w].list.length => i \in identityIds.indexes

\* The index getUnusedIdentityIndex answers after a scan of its own that
\* reached the gap limit, if it is beyond the list that scan began with, was
\* not in use when it began.
AnswerIsFree ==
    [][\A w \in Workers :
          LET s == scan[w]
          IN  s.awaited /\ ~ scan'[w].awaited /\ scan'[w].completed =>
                  answer' < s.list.length \/ answer' \notin s.network \/ BehindGap(s, answer')]_vars
=============================================================================
