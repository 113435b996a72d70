-------------------------- MODULE IdentitySyncProofs --------------------------
(***************************************************************************)
(* Proofs about IdentitySync: a scan that reaches the gap limit has stored *)
(* all it should, for any number of workers, indexes and any gap limit.    *)
(*                                                                         *)
(* The invariant says how far a scan has come: it has stored what it found *)
(* beyond its list up to index, and the last gapCount indexes had nothing. *)
(***************************************************************************)
EXTENDS IdentitySync, TLAPS

\* What the list of the store holds is on the network, its last place included.
Stored ==
    /\ identityIds.indexes \subseteq registered
    /\ identityIds.length = 0 \/ identityIds.length - 1 \in identityIds.indexes

\* The list the scan began with is still there.
Begun(s) ==
    /\ s.network \subseteq registered
    /\ s.list.indexes \subseteq identityIds.indexes
    /\ s.list.length = 0 \/ s.list.length - 1 \in s.list.indexes

\* In the list: what is left of it is beyond index.
Collected(s) ==
    /\ s.unusedIndices \subseteq s.list.indexes
    /\ \A j \in s.unusedIndices : s.index < j
    /\ \A j \in s.list.indexes : j <= s.index \/ j \in s.unusedIndices
    /\ s.unusedIndices # {} => s.index < s.list.length /\ s.gapCount = 0

\* Beyond it
Progress(s) ==
    /\ s.index >= -1
    /\ \A i \in s.network : i >= s.list.length /\ i <= s.index => i \in identityIds.indexes
    /\ s.unusedIndices = {} => s.list.length - 1 <= s.index - s.gapCount
    /\ \A k \in Int : s.index - s.gapCount < k /\ k <= s.index => k \notin s.network

ScanInv(s) == s.running => Begun(s) /\ Collected(s) /\ Progress(s)

IInv ==
    /\ TypeOK
    /\ Stored
    /\ \A w \in Workers : ScanInv(scan[w])
    /\ ScanComplete

-----------------------------------------------------------------------------
(* The steps of one scan                                                   *)

Scan == [running: BOOLEAN, awaited: BOOLEAN, completed: BOOLEAN,
         unusedIndices: SUBSET Nat, gapCount: Nat, index: Int,
         network: SUBSET Nat, list: Lists]

\* What TypeOK says of a scan
LEMMA ScanType == ASSUME TypeOK, NEW w \in Workers PROVE scan[w] \in Scan
  BY DEF TypeOK, Scan

\* The index asked for next is a number; it is the one that follows when the
\* list is done, and no index of it is passed over.
LEMMA NextIndex ==
  ASSUME NEW s \in Scan, s.index >= -1, NEW i \in NextIndexes(s)
  PROVE  /\ i \in Nat
         /\ s.unusedIndices = {} => i = s.index + 1
         /\ s.unusedIndices # {} => i \in s.unusedIndices
         /\ \A j \in s.unusedIndices : i <= j
  BY DEF NextIndexes, Scan

\* The list of the store keeps its form.
LEMMA InsertedType ==
  ASSUME NEW list \in Lists, NEW i \in Nat
  PROVE  /\ Inserted(list, i) \in Lists
         /\ Inserted(list, i).indexes = list.indexes \cup {i}
         /\ (list.length = 0 \/ list.length - 1 \in list.indexes)
                => Inserted(list, i).length - 1 \in Inserted(list, i).indexes
  <1>1. list.length \in Nat /\ list.indexes \in SUBSET Nat /\ \A j \in list.indexes : j < list.length
    BY DEF Lists
  <1>2. Inserted(list, i).length = (IF i < list.length THEN list.length ELSE i + 1)
    BY DEF Inserted
  <1>3. Inserted(list, i).indexes = list.indexes \cup {i}
    BY DEF Inserted
  <1>4. Inserted(list, i) \in [length: Nat, indexes: SUBSET Nat]
    BY <1>1 DEF Inserted
  <1>5. \A j \in list.indexes \cup {i} : j < Inserted(list, i).length
    BY <1>1, <1>2
  <1>6. Inserted(list, i) \in Lists
    BY <1>3, <1>4, <1>5 DEF Lists
  <1>7. (list.length = 0 \/ list.length - 1 \in list.indexes)
            => Inserted(list, i).length - 1 \in list.indexes \cup {i}
    BY <1>1, <1>2
  <1> QED BY <1>3, <1>6, <1>7

\* After a scan found an identity at i
LEMMA FoundStep ==
  ASSUME NEW s \in Scan, NEW i \in Nat
  PROVE  /\ Found(s, i) \in Scan
         /\ Found(s, i).running = s.running /\ Found(s, i).completed = s.completed
         /\ Found(s, i).network = s.network /\ Found(s, i).list = s.list
         /\ Found(s, i).index = i /\ Found(s, i).gapCount = 0
         /\ Found(s, i).unusedIndices = s.unusedIndices \ {i}
  <1>1. i \in Int /\ 0 \in Nat /\ s.unusedIndices \ {i} \in SUBSET Nat
    BY DEF Scan
  <1>2. Found(s, i) \in Scan
    BY <1>1 DEF Found, Scan
  <1> QED BY <1>2 DEF Found, Scan

\* ... and after it found none there
LEMMA MissedStep ==
  ASSUME NEW s \in Scan, NEW i \in Nat
  PROVE  /\ Missed(s, i) \in Scan
         /\ Missed(s, i).running = s.running /\ Missed(s, i).completed = s.completed
         /\ Missed(s, i).network = s.network /\ Missed(s, i).list = s.list
         /\ Missed(s, i).index = i
         /\ Missed(s, i).gapCount = (IF i # s.index + 1 THEN 0 ELSE s.gapCount) + 1
         /\ Missed(s, i).unusedIndices = s.unusedIndices \ {i}
  <1>1. /\ i \in Int /\ s.unusedIndices \ {i} \in SUBSET Nat
        /\ GapBefore(s, i) = (IF i # s.index + 1 THEN 0 ELSE s.gapCount)
        /\ GapBefore(s, i) + 1 \in Nat
    BY DEF GapBefore, Scan
  <1>2. Missed(s, i) \in Scan
    BY <1>1 DEF Missed, Scan
  <1> QED BY <1>1, <1>2 DEF Missed, Scan

LEMMA NoScanType == NoScan \in Scan
  BY DEF NoScan, Scan, Lists

LEMMA CompletedType ==
  ASSUME NEW s \in Scan
  PROVE  /\ Completed(s) \in Scan
         /\ ~ Completed(s).running /\ Completed(s).completed
         /\ Completed(s).network = s.network /\ Completed(s).list = s.list
  <1>1. Completed(s) \in Scan
    BY NoScanType DEF Completed, Scan
  <1>2. NoScan.running = FALSE
    BY DEF NoScan
  <1> QED BY <1>1, <1>2, NoScanType DEF Completed, Scan


\* What is behind a gap is no concern of a scan whose last GapLimit requests
\* had no answer.
LEMMA GapReached ==
  ASSUME IdentityAssumption, NEW s \in Scan, Progress(s), s.unusedIndices = {},
         s.gapCount >= GapLimit
  PROVE  \A i \in s.network :
             i >= s.list.length => i \in identityIds.indexes \/ BehindGap(s, i)
  <1> SUFFICES ASSUME NEW i \in s.network, i >= s.list.length, i > s.index
               PROVE  BehindGap(s, i)
    BY DEF Progress, Scan
  <1> DEFINE j == s.index - GapLimit + 1
  <1>1. GapLimit \in Nat /\ s.index \in Int /\ s.gapCount \in Nat /\ i \in Nat /\ s.list.length \in Nat
    BY DEF IdentityAssumption, Scan, Lists
  <1>2. s.list.length - 1 <= s.index - s.gapCount
    BY DEF Progress
  <1>3. j \in s.list.length..i /\ j + GapLimit <= i
    BY <1>1, <1>2
  <1>4. ASSUME NEW k \in j..(j + GapLimit - 1) PROVE k \notin s.network
    <2>1. k \in Int /\ s.index - s.gapCount < k /\ k <= s.index
      BY <1>1
    <2> QED BY <2>1 DEF Progress
  <1> QED BY <1>3, <1>4 DEF BehindGap

-----------------------------------------------------------------------------
(* The invariant is inductive                                              *)

\* Two instants: a scan as it is, with what the store and the network have
\* gained since, keeps what is said of it.
LEMMA ScanKept ==
  ASSUME TypeOK, NEW w \in Workers,
         ScanInv(scan[w]), scan'[w] = scan[w],
         identityIds.indexes \subseteq identityIds'.indexes, registered \subseteq registered'
  PROVE  ScanInv(scan[w])'
  BY DEF ScanInv, Begun, Collected, Progress

\* The same of ScanComplete
LEMMA CompleteKept ==
  ASSUME TypeOK, NEW w \in Workers, ScanComplete,
         scan'[w] = scan[w], identityIds.indexes \subseteq identityIds'.indexes
  PROVE  scan'[w].completed =>
             \A i \in scan'[w].network :
                 i >= scan'[w].list.length => i \in identityIds'.indexes \/ BehindGap(scan'[w], i)
  BY DEF ScanComplete

LEMMA InitIInv == IdentityAssumption /\ Init => IInv
  <1> SUFFICES ASSUME IdentityAssumption, Init PROVE IInv
    OBVIOUS
  <1>1. Index \subseteq Nat
    BY DEF Index, IdentityAssumption
  <1>2. identityIds \in Lists /\ \A w \in Workers : scan[w] = NoScan
    BY DEF Init, Lists
  <1>3. scan \in [Workers -> Scan]
    BY NoScanType DEF Init
  <1>4. TypeOK
    BY <1>2, <1>3 DEF Init, TypeOK, Scan
  <1>5. Stored
    BY DEF Init, Stored
  <1>6. \A w \in Workers : ScanInv(scan[w]) /\ ~ scan[w].completed
    <2>1. ~ NoScan.running /\ ~ NoScan.completed
      BY DEF NoScan
    <2> QED BY <1>2, <2>1 DEF ScanInv
  <1> QED BY <1>4, <1>5, <1>6 DEF IInv, ScanComplete

\* A step of worker w that leaves the scans of the others alone
LEMMA OneScan ==
  ASSUME IInv, NEW w \in Workers, NEW s \in Scan, scan' = [scan EXCEPT ![w] = s],
         identityIds.indexes \subseteq identityIds'.indexes, registered \subseteq registered',
         ScanInv(s)',
         s.completed => \A i \in s.network :
             i >= s.list.length => i \in identityIds'.indexes \/ BehindGap(s, i)
  PROVE  /\ (\A v \in Workers : ScanInv(scan[v]))'
         /\ ScanComplete'
         /\ scan' \in [Workers -> Scan]
  <1>1. scan \in [Workers -> Scan] /\ TypeOK /\ ScanComplete
    BY DEF IInv, TypeOK, Scan
  <1>2. scan' \in [Workers -> Scan] /\ scan'[w] = s /\ \A v \in Workers \ {w} : scan'[v] = scan[v]
    BY <1>1
  <1>3. ASSUME NEW v \in Workers
        PROVE  /\ ScanInv(scan[v])'
               /\ scan'[v].completed =>
                     \A i \in scan'[v].network :
                         i >= scan'[v].list.length
                             => i \in identityIds'.indexes \/ BehindGap(scan'[v], i)
    <2>1. CASE v = w
      BY <1>2, <2>1
    <2>2. CASE v # w
      <3>1. scan'[v] = scan[v] /\ ScanInv(scan[v])
        BY <1>2, <2>2 DEF IInv
      <3>2. ScanInv(scan[v])'
        BY <1>1, <3>1, ScanKept
      <3> QED BY <1>1, <3>1, <3>2, CompleteKept
    <2> QED BY <2>1, <2>2
  <1>4. ScanComplete'
    BY <1>3 DEF ScanComplete
  <1> QED BY <1>2, <1>3, <1>4

LEMMA NoScanInv == ScanInv(NoScan)' /\ NoScan.completed = FALSE
  BY DEF ScanInv, NoScan

\* A scan that begins
LEMMA BeginStep ==
  ASSUME IInv, NEW w \in Workers, NEW awaited \in BOOLEAN, Begin(w, awaited),
         UNCHANGED <<registered, identityIds>>
  PROVE  /\ (\A v \in Workers : ScanInv(scan[v]))'
         /\ ScanComplete'
         /\ scan' \in [Workers -> Scan]
  <1> DEFINE new == [NoScan EXCEPT !.running = TRUE, !.awaited = awaited,
                                   !.unusedIndices = identityIds.indexes,
                                   !.network = registered, !.list = identityIds]
  <1>1. identityIds \in Lists /\ identityIds.indexes \in SUBSET Nat /\ registered \in SUBSET Nat
    BY DEF IInv, TypeOK, Lists, Index
  <1>2. new \in Scan
    BY <1>1, NoScanType DEF Scan
  <1>0. PICK s \in Scan : s = new
    BY <1>2
  <1>3. /\ s.running /\ ~ s.completed /\ s.unusedIndices = identityIds.indexes
        /\ s.network = registered /\ s.list = identityIds /\ s.index = -1 /\ s.gapCount = 0
    BY <1>0 DEF NoScan
  <1>4. scan' = [scan EXCEPT ![w] = s]
    BY <1>0 DEF Begin
  <1> HIDE DEF new
  <1>5. Begun(s)'
    BY <1>3 DEF IInv, Stored, Begun
  <1>6. Collected(s)'
    <2>1. /\ identityIds.indexes # {} => -1 < identityIds.length
          /\ \A j \in identityIds.indexes : -1 < j
      BY <1>1 DEF Lists
    <2> QED BY <1>3, <2>1 DEF Collected
  <1>7. Progress(s)'
    <2>1. identityIds.indexes = {} => identityIds.length = 0
      BY DEF IInv, Stored
    <2>2. ASSUME NEW i \in s.network PROVE ~ (i <= s.index)
      <3>1. i \in Nat
        BY <1>1, <1>3
      <3> QED BY <1>3, <3>1
    <2>3. \A k \in Int : ~ (s.index - s.gapCount < k /\ k <= s.index)
      BY <1>3
    <2>4. s.unusedIndices = {} => s.list.length - 1 <= s.index - s.gapCount
      BY <1>3, <2>1
    <2>5. s.index >= -1
      BY <1>3
    <2> QED BY <2>2, <2>3, <2>4, <2>5 DEF Progress
  <1>8. ScanInv(s)'
    BY <1>5, <1>6, <1>7 DEF ScanInv
  <1>9. ~ s.completed
    BY <1>3
  <1> QED BY <1>4, <1>8, <1>9, OneScan

\* An identity is found: what is stored beyond the list now reaches i.
LEMMA FoundInv ==
  ASSUME NEW s \in Scan, NEW i \in NextIndexes(s), ScanInv(s), s.running,
         i \in registered, identityIds \in Lists, identityIds' = Inserted(identityIds, i),
         UNCHANGED registered
  PROVE  ScanInv(Found(s, i))'
  <1>1. Begun(s) /\ Collected(s) /\ Progress(s)
    BY DEF ScanInv
  <1>2. /\ i \in Nat /\ (s.unusedIndices = {} => i = s.index + 1)
        /\ (s.unusedIndices # {} => i \in s.unusedIndices)
        /\ (\A j \in s.unusedIndices : i <= j)
    BY <1>1, NextIndex DEF Progress
  <1>3. identityIds'.indexes = identityIds.indexes \cup {i}
    BY <1>2, InsertedType
  <1>0. PICK t \in Scan : t = Found(s, i)
    BY <1>2, FoundStep
  <1>4. /\ t.running = s.running /\ t.network = s.network /\ t.list = s.list
        /\ t.index = i /\ t.gapCount = 0 /\ t.unusedIndices = s.unusedIndices \ {i}
    <2>1. i \in Nat
      BY <1>2
    <2>2. Found(s, i).running = s.running /\ Found(s, i).network = s.network
          /\ Found(s, i).list = s.list /\ Found(s, i).index = i /\ Found(s, i).gapCount = 0
          /\ Found(s, i).unusedIndices = s.unusedIndices \ {i}
      BY <2>1 DEF Found, Scan
    <2> QED BY <1>0, <2>2, Zenon
  <1>5. /\ s.list \in Lists /\ s.list.length \in Nat /\ s.index \in Int /\ s.network \subseteq Nat
        /\ s.list.indexes \subseteq Nat /\ \A j \in s.list.indexes : j < s.list.length
    BY DEF Scan, Lists
  <1>6. Begun(t)'
    BY <1>1, <1>3, <1>4 DEF Begun
  <1>7. i < s.list.length \/ s.unusedIndices = {}
    BY <1>1, <1>2, <1>5 DEF Collected
  <1>8. Collected(t)'
    <2>1. /\ \A j \in s.list.indexes : j <= i \/ j \in s.unusedIndices \ {i}
          /\ \A j \in s.unusedIndices \ {i} : i < j
      BY <1>1, <1>2, <1>5 DEF Collected
    <2>2. t.unusedIndices # {} => i < s.list.length
      BY <1>4, <1>7
    <2> QED BY <1>1, <1>4, <2>1, <2>2 DEF Collected
  <1>9. Progress(t)'
    <2>1. ASSUME NEW j \in s.network, j >= s.list.length, j <= i
          PROVE  j \in identityIds'.indexes
      <3>1. CASE j = i
        BY <1>3, <3>1
      <3>2. CASE j # i
        <4>1. s.unusedIndices = {} /\ j <= s.index
          BY <1>2, <1>5, <1>7, <2>1, <3>2
        <4> QED BY <1>1, <1>3, <2>1, <4>1 DEF Progress
      <3> QED BY <3>1, <3>2
    <2>2. t.unusedIndices = {} => s.list.length - 1 <= i
      <3>1. CASE s.unusedIndices = {}
        <4>1. s.gapCount \in Nat
          BY DEF Scan
        <4> QED BY <1>1, <1>2, <1>5, <3>1, <4>1 DEF Progress
      <3>2. CASE s.unusedIndices # {}
        <4> SUFFICES ASSUME t.unusedIndices = {} PROVE s.list.length - 1 <= i
          OBVIOUS
        <4>1. s.unusedIndices = {i}
          BY <1>2, <1>4, <3>2
        <4>2. s.list.length = 0 \/ s.list.length - 1 \in s.list.indexes
          BY <1>1 DEF Begun
        <4>3. s.index < i
          BY <1>1, <1>2, <1>5, <4>1 DEF Collected
        <4> QED BY <1>1, <1>2, <1>5, <4>1, <4>2 DEF Collected
      <3> QED BY <3>1, <3>2
    <2>3. \A k \in Int : ~ (i - 0 < k /\ k <= i)
      BY <1>2
    <2>4. i >= -1 /\ i - 0 = i
      BY <1>2
    <2> QED BY <1>4, <2>1, <2>2, <2>3, <2>4 DEF Progress
  <1>10. ScanInv(t)'
    BY <1>6, <1>8, <1>9 DEF ScanInv
  <1> QED BY <1>0, <1>10

\* Nothing is found: what the scan asks for is beyond its list, and the gap
\* grows by one.
LEMMA MissedInv ==
  ASSUME NEW s \in Scan, NEW i \in NextIndexes(s), ScanInv(s), s.running,
         i \notin registered, Stored
  PROVE  /\ ScanInv(Missed(s, i))
         /\ Progress(Missed(s, i)) /\ Missed(s, i).unusedIndices = {}
  <1>1. Begun(s) /\ Collected(s) /\ Progress(s)
    BY DEF ScanInv
  <1>2. /\ i \in Nat /\ (s.unusedIndices = {} => i = s.index + 1)
        /\ (s.unusedIndices # {} => i \in s.unusedIndices)
    BY <1>1, NextIndex DEF Progress
  <1>3. s.unusedIndices = {}
    BY <1>1, <1>2 DEF Begun, Collected, Stored
  <1>4. i = s.index + 1
    BY <1>2, <1>3
  <1>0. PICK t \in Scan : t = Missed(s, i)
    BY <1>2, MissedStep
  <1>5. /\ t.running = s.running /\ t.network = s.network /\ t.list = s.list
        /\ t.index = i /\ t.gapCount = s.gapCount + 1 /\ t.unusedIndices = {}
    <2>1. i \in Nat /\ i = s.index + 1 /\ s.unusedIndices = {} /\ s.unusedIndices \ {i} = {}
      BY <1>2, <1>3, <1>4
    <2>2. /\ Missed(s, i).running = s.running /\ Missed(s, i).network = s.network
          /\ Missed(s, i).list = s.list /\ Missed(s, i).index = i
          /\ Missed(s, i).gapCount = s.gapCount + 1 /\ Missed(s, i).unusedIndices = {}
      BY <2>1 DEF Missed, GapBefore, Scan
    <2> QED BY <1>0, <2>2, Zenon
  <1>6. /\ s.list \in Lists /\ s.list.length \in Nat /\ s.index \in Int /\ s.network \subseteq Nat
        /\ s.list.indexes \subseteq Nat /\ s.gapCount \in Nat
    BY DEF Scan, Lists
  <1>7. i \notin s.network
    BY <1>1 DEF Begun
  <1>8. Collected(t)
    <2>1. \A j \in s.list.indexes : j <= i
      BY <1>1, <1>3, <1>4, <1>6 DEF Collected
    <2> QED BY <1>5, <2>1 DEF Collected
  <1>9. Progress(t)
    <2>1. ASSUME NEW j \in s.network, j >= s.list.length, j <= i
          PROVE  j \in identityIds.indexes
      <3>1. j <= s.index
        BY <1>4, <1>6, <1>7, <2>1
      <3> QED BY <1>1, <2>1, <3>1 DEF Progress
    <2>2. ASSUME NEW k \in Int, i - (s.gapCount + 1) < k, k <= i
          PROVE  k \notin s.network
      <3>1. k = i \/ (s.index - s.gapCount < k /\ k <= s.index)
        BY <1>4, <1>6, <2>2
      <3> QED BY <1>1, <1>7, <3>1 DEF Progress
    <2>3. i >= -1 /\ s.list.length - 1 <= i - (s.gapCount + 1)
      BY <1>1, <1>2, <1>3, <1>4, <1>6 DEF Progress
    <2> QED BY <1>5, <2>1, <2>2, <2>3 DEF Progress
  <1>10. Begun(t)
    BY <1>1, <1>5 DEF Begun
  <1>11. ScanInv(t)
    BY <1>8, <1>9, <1>10 DEF ScanInv
  <1> QED BY <1>0, <1>5, <1>9, <1>11

\* A scan that ends as s: it is not running, and complete if it says so.
LEMMA EndedStep ==
  ASSUME IInv, NEW w \in Workers, NEW s \in Scan, Ended(w, s), ~ s.running,
         UNCHANGED <<registered, identityIds>>,
         s.completed => \A i \in s.network :
             i >= s.list.length => i \in identityIds.indexes \/ BehindGap(s, i)
  PROVE  /\ (\A v \in Workers : ScanInv(scan[v]))'
         /\ ScanComplete'
         /\ scan' \in [Workers -> Scan]
         /\ answer' \in Int
  <1>1. answer' \in Int
    <2>1. \A list \in Lists : FirstMissing(scan[w], list) \subseteq Int
      BY DEF FirstMissing, Lists
    <2> QED BY <2>1 DEF Ended, IInv, TypeOK
  <1>2. ScanInv(s)'
    BY DEF ScanInv
  <1>3. scan' = [scan EXCEPT ![w] = s]
    BY DEF Ended
  <1>4. /\ (\A v \in Workers : ScanInv(scan[v]))'
        /\ ScanComplete'
        /\ scan' \in [Workers -> Scan]
    BY <1>2, <1>3, OneScan
  <1> QED BY <1>1, <1>4

\* What the invariant says of the variables, and what is left to show of a step
LEMMA Typed ==
  ASSUME IInv
  PROVE  /\ registered \in SUBSET Index /\ identityIds \in Lists /\ ticking \in SUBSET Workers
         /\ scan \in [Workers -> Scan] /\ answer \in Int
  BY DEF IInv, TypeOK, Scan

LEMMA Combined ==
  ASSUME registered' \in SUBSET Index, identityIds' \in Lists, ticking' \in SUBSET Workers,
         scan' \in [Workers -> Scan], answer' \in Int,
         Stored', (\A w \in Workers : ScanInv(scan[w]))', ScanComplete'
  PROVE  IInv'
  BY DEF IInv, TypeOK, Scan

\* A new identity on the network
LEMMA RegisterStep ==
  ASSUME IInv, NEW i \in Index, Register(i) PROVE IInv'
  <1>1. registered' = registered \cup {i} /\ UNCHANGED <<identityIds, ticking, scan, answer>>
    BY DEF Register
  <1>2. TypeOK /\ Stored /\ ScanComplete /\ \A w \in Workers : ScanInv(scan[w])
    BY DEF IInv
  <1>3. Stored'
    BY <1>1, <1>2 DEF Stored
  <1>4. \A w \in Workers : ScanInv(scan[w])'
    BY <1>1, <1>2, ScanKept
  <1>5. ScanComplete'
    BY <1>1, <1>2 DEF ScanComplete
  <1>6. TypeOK'
    BY <1>1, <1>2 DEF TypeOK
  <1> QED BY <1>3, <1>4, <1>5, <1>6 DEF IInv

\* A scan begins, or its worker is asked in its course.
LEMMA TickStep ==
  ASSUME IInv, NEW w \in Workers, Tick(w) PROVE IInv'
  <1>1. Begin(w, FALSE) /\ UNCHANGED <<registered, identityIds, ticking, answer>>
    BY DEF Tick
  <1>2. Stored'
    BY <1>1 DEF IInv, Stored
  <1> QED BY <1>1, <1>2, Typed, BeginStep, Combined

LEMMA CallStep ==
  ASSUME IInv, NEW w \in Workers, GetUnusedIdentityIndex(w) PROVE IInv'
  <1>1. UNCHANGED <<registered, identityIds, ticking>>
    BY DEF GetUnusedIdentityIndex
  <1>2. Stored'
    BY <1>1 DEF IInv, Stored
  <1>3. CASE Begin(w, TRUE) /\ UNCHANGED answer
    BY <1>1, <1>2, <1>3, Typed, BeginStep, Combined
  <1>4. CASE answer' \in FirstMissing(scan[w], identityIds) /\ UNCHANGED scan
    <2>1. answer' \in Int
      <3>1. FirstMissing(scan[w], identityIds) \subseteq Int
        BY Typed DEF FirstMissing, Lists
      <3> QED BY <1>4, <3>1
    <2>2. TypeOK /\ ScanComplete /\ \A v \in Workers : ScanInv(scan[v])
      BY DEF IInv
    <2>3. \A v \in Workers : ScanInv(scan[v])'
      BY <1>1, <1>4, <2>2, ScanKept
    <2>4. ScanComplete'
      BY <1>1, <1>4, <2>2 DEF ScanComplete
    <2> QED BY <1>1, <1>2, <1>4, <2>1, <2>3, <2>4, Typed, Combined
  <1> QED BY <1>3, <1>4 DEF GetUnusedIdentityIndex

LEMMA FoundIsIn ==
  ASSUME IInv, NEW w \in Workers, IdentityArrives(w) PROVE IInv'
  <1>1. /\ scan[w].running /\ UNCHANGED <<registered, ticking, answer>>
        /\ scan[w] \in Scan /\ ScanInv(scan[w])
    BY Typed DEF IdentityArrives, IInv
  <1>2. PICK i \in NextIndexes(scan[w]) :
            /\ i \in registered
            /\ scan' = [scan EXCEPT ![w] = Found(scan[w], i)]
            /\ identityIds' = Inserted(identityIds, i)
    BY DEF IdentityArrives
  <1>0. PICK s \in Scan : s = scan[w]
    BY <1>1
  <1>3. s.running /\ ScanInv(s) /\ i \in NextIndexes(s)
    BY <1>0, <1>1, <1>2
  <1>4. i \in Nat
    BY <1>3, NextIndex DEF ScanInv, Progress
  <1>5. PICK t \in Scan : t = Found(s, i)
    BY <1>4, FoundStep
  <1>6. ScanInv(t)'
    BY <1>1, <1>2, <1>3, <1>5, Typed, FoundInv
  <1>7. /\ identityIds' \in Lists /\ identityIds'.indexes = identityIds.indexes \cup {i}
        /\ Stored'
    <2>1. Stored
      BY DEF IInv
    <2>2. /\ Inserted(identityIds, i) \in Lists
          /\ Inserted(identityIds, i).indexes = identityIds.indexes \cup {i}
          /\ Inserted(identityIds, i).length - 1 \in Inserted(identityIds, i).indexes
      BY <1>4, <2>1, Typed, InsertedType DEF Stored
    <2> QED BY <1>1, <1>2, <2>1, <2>2 DEF Stored
  <1>8. t.completed => \A j \in t.network :
            j >= t.list.length => j \in identityIds'.indexes \/ BehindGap(t, j)
    <2>1. t.completed = s.completed /\ t.network = s.network /\ t.list = s.list
      <3>1. /\ Found(s, i).completed = s.completed /\ Found(s, i).network = s.network
            /\ Found(s, i).list = s.list
        BY <1>4, FoundStep
      <3> QED BY <1>5, <3>1, Zenon
    <2>2. s.completed => \A j \in s.network :
              j >= s.list.length => j \in identityIds.indexes \/ BehindGap(s, j)
      BY <1>0 DEF IInv, ScanComplete
    <2> QED BY <1>7, <2>1, <2>2 DEF BehindGap
  <1>9. scan' = [scan EXCEPT ![w] = t]
    BY <1>0, <1>2, <1>5
  <1>10. /\ (\A v \in Workers : ScanInv(scan[v]))'
         /\ ScanComplete'
         /\ scan' \in [Workers -> Scan]
    BY <1>1, <1>6, <1>7, <1>8, <1>9, OneScan
  <1> QED BY <1>1, <1>7, <1>10, Typed, Combined

LEMMA MissedIsIn ==
  ASSUME IdentityAssumption, IInv, NEW w \in Workers, NothingArrives(w) PROVE IInv'
  <1>1. /\ scan[w].running /\ UNCHANGED <<registered, identityIds, ticking>>
        /\ scan[w] \in Scan /\ ScanInv(scan[w]) /\ Stored /\ Stored'
    BY Typed DEF NothingArrives, IInv, Stored
  <1>2. PICK i \in NextIndexes(scan[w]) :
            LET s == Missed(scan[w], i)
            IN  /\ i \notin registered
                /\ \/ s.gapCount < GapLimit /\ scan' = [scan EXCEPT ![w] = s] /\ UNCHANGED answer
                   \/ s.gapCount >= GapLimit /\ Ended(w, Completed(s))
    BY DEF NothingArrives
  <1>0. PICK s \in Scan : s = scan[w]
    BY <1>1
  <1>3. s.running /\ ScanInv(s) /\ i \in NextIndexes(s)
    BY <1>0, <1>1, <1>2
  <1>4. i \in Nat
    BY <1>3, NextIndex DEF ScanInv, Progress
  <1>5. PICK t \in Scan : t = Missed(s, i)
    BY <1>4, MissedStep
  <1>6. ScanInv(t) /\ Progress(t) /\ t.unusedIndices = {}
    BY <1>1, <1>2, <1>3, <1>5, MissedInv
  <1>7. CASE scan' = [scan EXCEPT ![w] = t] /\ UNCHANGED answer
    <2>1. t.completed => \A j \in t.network :
              j >= t.list.length => j \in identityIds'.indexes \/ BehindGap(t, j)
      <3>1. t.completed = s.completed /\ t.network = s.network /\ t.list = s.list
        <4>1. /\ Missed(s, i).completed = s.completed /\ Missed(s, i).network = s.network
              /\ Missed(s, i).list = s.list
          BY <1>4, MissedStep
        <4> QED BY <1>5, <4>1, Zenon
      <3>2. s.completed => \A j \in s.network :
                j >= s.list.length => j \in identityIds.indexes \/ BehindGap(s, j)
        BY <1>0 DEF IInv, ScanComplete
      <3> QED BY <1>1, <3>1, <3>2 DEF BehindGap
    <2>2. ScanInv(t)'
      BY <1>1, <1>6 DEF ScanInv, Begun, Collected, Progress
    <2>3. /\ (\A v \in Workers : ScanInv(scan[v]))'
          /\ ScanComplete'
          /\ scan' \in [Workers -> Scan]
      BY <1>1, <1>7, <2>1, <2>2, OneScan
    <2> QED BY <1>1, <1>7, <2>3, Typed, Combined
  <1>8. CASE t.gapCount >= GapLimit /\ Ended(w, Completed(t))
    <2>1. \A j \in t.network :
              j >= t.list.length => j \in identityIds.indexes \/ BehindGap(t, j)
      BY <1>6, <1>8, GapReached
    <2>2. PICK c \in Scan : c = Completed(t)
      BY CompletedType
    <2>3. ~ c.running /\ c.network = t.network /\ c.list = t.list
      <3>1. /\ ~ Completed(t).running /\ Completed(t).network = t.network
            /\ Completed(t).list = t.list
        BY CompletedType
      <3> QED BY <2>2, <3>1, Zenon
    <2>4. \A j \in c.network :
              j >= c.list.length => j \in identityIds.indexes \/ BehindGap(c, j)
      BY <2>1, <2>3 DEF BehindGap
    <2>5. Ended(w, c)
      BY <1>8, <2>2
    <2> QED BY <1>1, <2>3, <2>4, <2>5, Typed, EndedStep, Combined
  <1> QED BY <1>0, <1>2, <1>5, <1>7, <1>8

LEMMA FailedStep ==
  ASSUME IInv, NEW w \in Workers, RequestFails(w) PROVE IInv'
  <1>1. /\ Ended(w, NoScan) /\ UNCHANGED <<registered, identityIds>>
        /\ ticking' \in SUBSET Workers /\ Stored'
    BY Typed DEF RequestFails, IInv, Stored
  <1>2. NoScan \in Scan /\ ~ NoScan.running /\ ~ NoScan.completed
    BY NoScanType DEF NoScan
  <1>3. PICK c \in Scan : c = NoScan
    BY <1>2
  <1>4. Ended(w, c) /\ ~ c.running /\ ~ c.completed
    BY <1>1, <1>2, <1>3, Zenon
  <1> QED BY <1>1, <1>4, Typed, EndedStep, Combined

LEMMA NextIInv == IdentityAssumption /\ IInv /\ [Next]_vars => IInv'
  <1> SUFFICES ASSUME IdentityAssumption, IInv, [Next]_vars PROVE IInv'
    OBVIOUS
  <1>1. ASSUME NEW i \in Index, Register(i) PROVE IInv'
    BY <1>1, RegisterStep
  <1>2. ASSUME NEW w \in Workers, Tick(w) PROVE IInv'
    BY <1>2, TickStep
  <1>3. ASSUME NEW w \in Workers, GetUnusedIdentityIndex(w) PROVE IInv'
    BY <1>3, CallStep
  <1>4. ASSUME NEW w \in Workers, IdentityArrives(w) PROVE IInv'
    BY <1>4, FoundIsIn
  <1>5. ASSUME NEW w \in Workers, NothingArrives(w) PROVE IInv'
    BY <1>5, MissedIsIn
  <1>6. ASSUME NEW w \in Workers, RequestFails(w) PROVE IInv'
    BY <1>6, FailedStep
  <1>7. CASE UNCHANGED vars
    BY <1>7 DEF vars, IInv, TypeOK, Stored, ScanComplete, ScanInv, Begun, Collected, Progress
  <1> QED BY <1>1, <1>2, <1>3, <1>4, <1>5, <1>6, <1>7 DEF Next

-----------------------------------------------------------------------------
(* Theorems                                                                *)

\* The invariant holds in every reachable state.
THEOREM Invariance == Spec => []IInv
  <1>1. Init => IInv
    BY IdentityAssumption, InitIInv
  <1>2. IInv /\ [Next]_vars => IInv'
    BY IdentityAssumption, NextIInv
  <1> QED BY <1>1, <1>2, PTL DEF Spec

\* The variables of IdentitySync have their types; every id of the list is
\* below its length.
THEOREM TypeCorrect == Spec => []TypeOK
  <1>1. IInv => TypeOK
    BY DEF IInv
  <1> QED BY <1>1, Invariance, PTL

\* However the scans of several accounts, the callers and the registrations
\* interleave, a scan that reaches the gap limit has stored every identity that
\* was there when it began, beyond its list and not behind a full gap.
THEOREM ScansAreComplete == Spec => []ScanComplete
  <1>1. IInv => ScanComplete
    BY DEF IInv
  <1> QED BY <1>1, Invariance, PTL

\* The index answered after a scan is the first that the list of that moment
\* lacks, so that the scan, which is complete by then, did not store it.
LEMMA AnswerStep ==
  ASSUME IInv, IInv', [Next]_vars, NEW w \in Workers,
         scan[w].awaited, ~ scan'[w].awaited, scan'[w].completed
  PROVE  \/ answer' < scan[w].list.length
         \/ answer' \notin scan[w].network
         \/ BehindGap(scan[w], answer')
  <1>1. PICK s \in Scan : s = scan[w]
    BY Typed
  <1>2. scan'[w] # scan[w] /\ ~ (UNCHANGED scan)
    OBVIOUS
  <1>3. \E v \in Workers : Tick(v) \/ GetUnusedIdentityIndex(v) \/ IdentityArrives(v)
                           \/ NothingArrives(v) \/ RequestFails(v)
    BY <1>2 DEF Next, vars, Register
  <1>4. scan \in [Workers -> Scan]
    BY Typed
  <1>5. ASSUME NEW v \in Workers, NEW t, scan' = [scan EXCEPT ![v] = t]
        PROVE  v = w /\ scan'[w] = t
    BY <1>2, <1>4, <1>5
  <1>6. ASSUME NEW v \in Workers, NEW awaited, Begin(v, awaited) PROVE FALSE
    <2>1. scan'[w] = [NoScan EXCEPT !.running = TRUE, !.awaited = awaited,
                                    !.unusedIndices = identityIds.indexes,
                                    !.network = registered, !.list = identityIds]
      BY <1>5, <1>6 DEF Begin
    <2> QED BY <2>1 DEF NoScan
  <1>7. ASSUME NEW v \in Workers, IdentityArrives(v) PROVE FALSE
    <2>1. PICK i \in NextIndexes(scan[v]) : scan' = [scan EXCEPT ![v] = Found(scan[v], i)]
      BY <1>7 DEF IdentityArrives
    <2>2. scan'[w] = Found(scan[w], i)
      BY <1>5, <2>1
    <2> QED BY <1>1, <2>2 DEF Found, Scan
  <1>8. ASSUME NEW v \in Workers, RequestFails(v) PROVE FALSE
    <2>1. scan'[w] = NoScan
      BY <1>5, <1>8 DEF RequestFails, Ended
    <2> QED BY <2>1 DEF NoScan
  <1>9. PICK v \in Workers : NothingArrives(v)
    BY <1>2, <1>3, <1>6, <1>7, <1>8 DEF Tick, GetUnusedIdentityIndex
  <1>10. PICK i \in NextIndexes(scan[v]) :
            LET t == Missed(scan[v], i)
            IN  \/ t.gapCount < GapLimit /\ scan' = [scan EXCEPT ![v] = t] /\ UNCHANGED answer
                \/ t.gapCount >= GapLimit /\ Ended(v, Completed(t))
    BY <1>9 DEF NothingArrives
  <1>11. v = w
    BY <1>5, <1>10 DEF Ended
  <1>12. PICK t \in {Missed(s, i)} : t = Missed(s, i)
    OBVIOUS
  <1>13. t.awaited = s.awaited /\ t.network = s.network /\ t.list = s.list
    BY <1>1, <1>12 DEF Missed, Scan
  <1>14. ~ (scan' = [scan EXCEPT ![w] = t])
    BY <1>1, <1>5, <1>13
  <1>15. Ended(w, Completed(t))
    BY <1>1, <1>10, <1>11, <1>12, <1>14
  <1>16. scan'[w] = Completed(t) /\ answer' \in FirstMissing(s, identityIds)
    BY <1>1, <1>5, <1>15 DEF Ended
  <1>17. scan'[w].network = s.network /\ scan'[w].list = s.list
    BY <1>13, <1>16 DEF Completed, NoScan
  <1>18. answer' \notin identityIds.indexes /\ answer' \in Nat
    BY <1>16, Typed DEF FirstMissing, Lists
  <1>19. identityIds' = identityIds
    BY <1>9 DEF NothingArrives
  <1>20. \A j \in s.network :
            j >= s.list.length => j \in identityIds.indexes \/ BehindGap(s, j)
    <2>1. \A j \in scan'[w].network :
              j >= scan'[w].list.length => j \in identityIds'.indexes \/ BehindGap(scan'[w], j)
      BY DEF IInv, ScanComplete
    <2> QED BY <1>17, <1>19, <2>1 DEF BehindGap
  <1>21. s.list.length \in Nat
    BY DEF Scan, Lists
  <1> QED BY <1>1, <1>18, <1>20, <1>21

\* No call of getUnusedIdentityIndex that waited for a scan of its own is
\* answered an index that was in use when that scan began, within what the scan
\* looks at.
THEOREM AnswersAreFree == Spec => AnswerIsFree
  <1>1. IInv /\ IInv' /\ [Next]_vars =>
            [\A w \in Workers :
                LET s == scan[w]
                IN  s.awaited /\ ~ scan'[w].awaited /\ scan'[w].completed =>
                        answer' < s.list.length \/ answer' \notin s.network
                        \/ BehindGap(s, answer')]_vars
    BY AnswerStep
  <1> QED BY <1>1, Invariance, PTL DEF Spec, AnswerIsFree
=============================================================================
