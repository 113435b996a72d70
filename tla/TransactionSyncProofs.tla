------------------------ MODULE TransactionSyncProofs ------------------------
(***************************************************************************)
(* The synchronization of an account, for any chain, gap limit and number  *)
(* of incidents: there is one stream, its filter is the account's or it is *)
(* about to be cancelled, a cancel finds it, and nothing due is skipped.   *)
(***************************************************************************)
EXTENDS TransactionSync, SequenceTheorems, FiniteSetTheorems, WellFoundedInduction, TLAPS

-----------------------------------------------------------------------------
(* Numbers *)

\* A nonempty set of numbers has a least one, which Min gives.
LEMMA MinIsLeast ==
    ASSUME NEW S \in SUBSET Nat, S # {}
    PROVE  Min(S) \in S /\ \A n \in S : Min(S) <= n
<1> DEFINE R == OpToRel(<, Nat)
<1>1. \A m, n \in Nat : m < n => <<m, n>> \in R
    BY DEF OpToRel
<1>2. IsWellFoundedOn(R, Nat)
    BY NatLessThanWellFounded
<1> HIDE DEF R
<1>3. \E n \in S : \A m \in S : ~ (<<m, n>> \in R)
    BY <1>2, WFMin
<1>4. PICK n \in S : \A m \in S : ~ (<<m, n>> \in R)
    BY <1>3
<1>5. \A m \in S : ~ (m < n)
    BY <1>1, <1>4
<1>6. \A m \in S : n <= m
    BY <1>5
<1> QED
    BY <1>6 DEF Min

\* A bounded one has a greatest, which Max gives.
LEMMA MaxIsGreatest ==
    ASSUME NEW S \in SUBSET Nat, S # {}, NEW bound \in Nat, \A n \in S : n <= bound
    PROVE  Max(S) \in S /\ \A n \in S : Max(S) >= n
<1> DEFINE distances == {d \in Nat : bound - d \in S}
<1>1. ASSUME NEW n \in S PROVE bound - n \in distances
    <2>1. bound - n \in Nat /\ bound - (bound - n) = n
        OBVIOUS
    <2> QED
        BY <2>1
<1>2. distances # {}
    BY <1>1
<1>3. PICK d \in distances : \A e \in distances : d <= e
    BY <1>2, MinIsLeast
<1>4. bound - d \in S /\ d \in Nat
    BY <1>3
<1>5. ASSUME NEW n \in S PROVE bound - d >= n
    <2>1. d <= bound - n /\ n \in Nat
        BY <1>1, <1>3
    <2> QED
        BY <1>4, <2>1
<1> HIDE DEF distances
<1> QED
    BY <1>4, <1>5 DEF Max

LEMMA MinOfTwo ==
    ASSUME NEW a \in Int, NEW b \in Int
    PROVE  Min({a, b}) = IF a <= b THEN a ELSE b
<1>1. CASE a <= b
    BY <1>1 DEF Min
<1>2. CASE ~ (a <= b)
    BY <1>2 DEF Min
<1> QED
    BY <1>1, <1>2

LEMMA LastHeightIs ==
    ASSUME NEW h \in Nat
    PROVE  LastHeight(h) = IF h = 0 THEN 1 ELSE h
<1>1. CASE h = 0
    BY <1>1 DEF LastHeight, Max
<1>2. CASE h # 0
    BY <1>2 DEF LastHeight, Max
<1> QED
    BY <1>1, <1>2

-----------------------------------------------------------------------------
(* The scan *)

\* Derived, of the addresses used
Grown(used, k) == Max({k} \cup {a + 1 + Gap : a \in {c \in used : c < k}})

\* What an import derives: nothing, or what lies behind the last used address.
LEMMA GrownIs ==
    ASSUME NEW used \in SUBSET Nat, NEW k \in Nat
    PROVE  /\ Grown(used, k) \in Nat /\ Grown(used, k) >= k
           /\ \A a \in used : a < k => Grown(used, k) >= a + 1 + Gap
           /\ Grown(used, k) = k \/ \E a \in used : a < k /\ Grown(used, k) = a + 1 + Gap
<1> DEFINE S == {k} \cup {a + 1 + Gap : a \in {c \in used : c < k}}
<1>1. Gap \in Nat
    BY SyncAssumption
<1>2. S \in SUBSET Nat /\ S # {} /\ k \in S
    BY <1>1
<1>3. k + Gap \in Nat /\ \A n \in S : n <= k + Gap
    BY <1>1
<1>4. \A a \in used : a < k => a + 1 + Gap \in S
    OBVIOUS
<1>5. \A n \in S : n = k \/ \E a \in used : a < k /\ n = a + 1 + Gap
    OBVIOUS
<1>6. Grown(used, k) = Max(S)
    BY DEF Grown
<1> HIDE DEF S
<1>7. Max(S) \in S /\ \A n \in S : Max(S) >= n
    BY <1>2, <1>3, MaxIsGreatest
<1> QED
    BY <1>2, <1>4, <1>5, <1>6, <1>7

\* The more addresses there are, the more there will be.
LEMMA GrownGrows ==
    ASSUME NEW used \in SUBSET Nat, NEW j \in Nat, NEW k \in Nat, j <= k
    PROVE  Grown(used, j) <= Grown(used, k)
<1>1. Gap \in Nat
    BY SyncAssumption
<1>2. \A a \in used : a < j => a < k
    OBVIOUS
<1>3. CASE Grown(used, j) = j
    BY <1>3, GrownIs
<1>4. CASE \E a \in used : a < j /\ Grown(used, j) = a + 1 + Gap
    <2>1. PICK a \in used : a < j /\ Grown(used, j) = a + 1 + Gap
        BY <1>4
    <2>2. Grown(used, k) >= a + 1 + Gap /\ Grown(used, k) \in Nat
        BY <1>2, <2>1, GrownIs
    <2> QED
        BY <2>1, <2>2
<1> QED
    BY <1>3, <1>4, GrownIs

ScanOf(chain, start) ==
    CHOOSE scan : scan = [b \in 0..Len(chain) |->
        IF b = 0 \/ b < start THEN Gap ELSE Grown(chain[b], scan[b - 1])]
DueIn(chain, start, b) == start <= b /\ \E a \in chain[b] : a < ScanOf(chain, start)[b - 1]

LEMMA ScannedIs == Scanned = ScanOf(Chain, origin)
BY DEF Scanned, ScanOf, Derived, Grown

\* The scan is a function: there is one that follows its definition up to
\* any block.
LEMMA ScanUnfolds ==
    ASSUME NEW chain \in Seq(SUBSET Nat), NEW start \in Nat
    PROVE  \A b \in 0..Len(chain) : ScanOf(chain, start)[b] =
               IF b = 0 \/ b < start THEN Gap
               ELSE Grown(chain[b], ScanOf(chain, start)[b - 1])
<1> DEFINE Step(f, b) == IF b = 0 \/ b < start THEN Gap ELSE Grown(chain[b], f[b - 1])
           Scans(f, n) == f = [b \in 0..n |-> Step(f, b)]
           without == {n \in Nat : ~ \E f : Scans(f, n)}
           scan == CHOOSE f : Scans(f, Len(chain))
<1>1. ScanOf(chain, start) = scan
    BY DEF ScanOf
<1>2. without = {}
    <2> SUFFICES ASSUME without # {} PROVE FALSE
        OBVIOUS
    <2> HIDE DEF scan
    <2>1. PICK n \in without : \A m \in without : n <= m
        BY MinIsLeast
    <2>2. n # 0
        <3>1. Scans([b \in 0..0 |-> Gap], 0)
            OBVIOUS
        <3> QED
            BY <2>1, <3>1
    <2>3. n - 1 \in Nat /\ n - 1 \notin without
        <3>1. n \in Nat
            OBVIOUS
        <3> HIDE DEF without
        <3>2. n - 1 \in Nat /\ ~ (n <= n - 1)
            BY <2>2, <3>1
        <3> QED
            BY <2>1, <3>2
    <2>4. PICK f : Scans(f, n - 1)
        BY <2>3
    <2> DEFINE g == [b \in 0..n |-> IF b = n THEN Step(f, n) ELSE f[b]]
    <2>5. \A b \in 0..(n - 1) : f[b] = Step(f, b)
        BY <2>4
    <2>6. ASSUME NEW b \in 0..n PROVE g[b] = Step(g, b)
        <3>1. CASE b = n
            <4>1. g[b] = Step(f, n)
                BY <3>1
            <4>2. g[b - 1] = f[b - 1]
                BY <2>2, <2>3, <3>1
            <4> QED
                BY <3>1, <4>1, <4>2
        <3>2. CASE b # n
            <4>1. b \in 0..(n - 1) /\ g[b] = f[b]
                BY <2>3, <3>2
            <4>2. b # 0 => g[b - 1] = f[b - 1]
                BY <2>3, <4>1
            <4> QED
                BY <2>5, <4>1, <4>2
        <3> QED
            BY <3>1, <3>2
    <2>7. g = [b \in 0..n |-> Step(g, b)]
        <3> HIDE DEF Step
        <3>1. g = [b \in 0..n |-> g[b]]
            OBVIOUS
        <3> HIDE DEF g
        <3> QED
            BY <2>6, <3>1
    <2>8. Scans(g, n)
        BY <2>7
    <2> QED
        BY <2>1, <2>8
<1>3. Scans(scan, Len(chain))
    <2> HIDE DEF Scans
    <2>1. \E f : Scans(f, Len(chain))
        <3>1. Len(chain) \in Nat
            OBVIOUS
        <3> QED
            BY <1>2, <3>1
    <2> QED
        BY <2>1
<1> HIDE DEF scan
<1>4. scan = [b \in 0..Len(chain) |-> Step(scan, b)]
    BY <1>3
<1> HIDE DEF Step
<1>5. \A b \in 0..Len(chain) : scan[b] = Step(scan, b)
    BY <1>4
<1> QED
    BY <1>1, <1>5 DEF Step

\* All that is due before block n is found.
Complete(chain, start, found, n) ==
    \A b \in DOMAIN chain : b < n /\ DueIn(chain, start, b) => b \in found

\* Before each block found all that is due is found; the account has the
\* addresses a scan has there.
Covered(chain, start, found, count) ==
    \A b \in found : Complete(chain, start, found, b) /\ count >= ScanOf(chain, start)[b]

-----------------------------------------------------------------------------
(* The inductive invariant *)

Calm == Happened \subseteq Harmless
NoImport == "import" \notin Happened

Stream ==
    [handled : BOOLEAN, live : BOOLEAN, closing : BOOLEAN,
     next : Nat \ {0}, upto : Int, filter : Nat, due : 0..Len(Chain),
     jobs : Seq({"tx", "block"} \X Block), turn : {"none", "E", "P"}, listens : BOOLEAN]
Query == [start : 0..Len(Chain), best : 0..Len(Chain), from : Nat, upto : Int, filter : Nat]

WorldTyped ==
    /\ scenario \in DOMAIN Scenarios /\ tip \in Block /\ browser \in BOOLEAN /\ uncaught \in BOOLEAN
    /\ IsABag(incidents) /\ Happened \subseteq Scenarios[scenario].incidents

AccountTyped ==
    /\ origin \in 0..Len(Chain) /\ hash \in 0..Len(Chain) /\ height \in 0..Len(Chain)
    /\ known \in Nat /\ known >= Gap
    /\ imported \in SUBSET Block

\* The frame asks for no block before the first, and knows no best height that
\* is not reached yet.
FrameTyped ==
    /\ mode \in {"new", "historical", "incoming", "over"}
    /\ pc \in {"none", "best", "subscribe", "stream"}
    /\ outcome \in {"pending", "gap", "end", "CANCELLED"} \cup Codes
    /\ query \in Query /\ gaps \in Nat /\ base \in 0..tip
    /\ query.best <= tip
    /\ pc = "subscribe" => query.from # 0

WireTyped ==
    /\ streams \in Seq(Stream)
    /\ \A i \in DOMAIN streams : streams[i].turn # "none" => streams[i].jobs # <<>>
    /\ current \in 0..Len(streams) /\ reached \in BOOLEAN
    /\ ending \in SUBSET DOMAIN streams

\* What is asked for has been imported.
MetadataTyped ==
    /\ described \in SUBSET Block /\ pending \in SUBSET Keys /\ unnoticed \in BOOLEAN
    /\ requests \in [Block \X Stages -> Nat]
    /\ \A r \in Block \X Stages : requests[r] > 0 => r[1] \in imported

Callbacks(count, blocks) == (0..count) \X {"none", "E", "P", "found"} \X (0..blocks)

ControlTyped ==
    /\ syncIncoming \in BOOLEAN
    /\ stopping \in {"no", "waiting", "scheduled", "stopped"}
    /\ immediates \in Seq(Callbacks(Len(streams), Len(Chain)))

Typing == WorldTyped /\ AccountTyped /\ FrameTyped /\ WireTyped /\ MetadataTyped /\ ControlTyped

\* this.stream is the newest stream, while the frame awaits its end.
FrameOK ==
    /\ mode = "new" => streams = <<>> /\ imported = {} /\ hash = 0 /\ height = 0
                       /\ immediates = <<>> /\ stopping = "no"
    /\ mode \in {"new", "over"} <=> pc = "none"
    /\ pc = "best" => mode = "historical"
    /\ pc # "stream" => outcome = "pending" /\ current = 0
    /\ pc = "stream" => streams # <<>>
    /\ outcome \in {"gap", "end"} => current = 0
    /\ current # 0 => current = Len(streams)
    /\ \A i \in DOMAIN streams : streams[i].handled

\* A stream that sends, or that is about to emit the error of its cancel, is
\* the one the frame awaits; in node, one whose end handler waits is, too.
WireOK ==
    /\ \A i \in DOMAIN streams :
           /\ streams[i].closing => ~ streams[i].live /\ ~ browser /\ i \notin ending
           /\ NoImport /\ (streams[i].live \/ streams[i].closing) => Awaited(i)
    /\ \A i \in ending : /\ ~ streams[i].live
                         /\ NoImport /\ ~ browser => Awaited(i)

\* A job starts only while the frame awaits the stream, which is this.stream as
\* long as it sends.
JobsAwaited ==
    /\ \A i \in DOMAIN streams :
           /\ streams[i].turn # "none" => pc = "stream" /\ outcome = "pending"
           /\ streams[i].live => current = i
    /\ outcome = "end" => ~ reached

\* The filter is what the account has derived, unless the gap limit has been
\* reached; then a cancel is scheduled as long as the stream sends.
FilterKnown ==
    /\ pc = "subscribe" => query.filter = known
    /\ pc = "stream" /\ ~ reached => streams[Len(streams)].filter = known
    /\ \A i \in DOMAIN streams :
           streams[i].live => streams[i].filter = known \/ immediates # <<>>

FilterOK == NoImport /\ ~ browser => JobsAwaited /\ (~ unnoticed => FilterKnown)

\* The queue of a stream, as long as nothing but Harmless has happened: it is
\* empty, or starts its only job, or holds Merkle blocks behind a job that
\* waits for its cancel or has just been told of it.
QueueOK(i) ==
    LET s == streams[i]
    IN  /\ i # Len(streams) => s.turn = "none" /\ s.jobs = <<>> /\ s.listens
        /\ s.turn = "none" /\ immediates = <<>> => s.jobs = <<>> /\ s.listens
        /\ s.turn # "none" => immediates = <<>>
        /\ i = Len(streams) /\ immediates # <<>> => ~ s.listens
        /\ immediates # <<>> \/ s.turn = "P" =>
               \A n \in DOMAIN s.jobs : s.jobs[n][1] = "block"
        /\ s.turn = "E" => Len(s.jobs) = 1 /\ ~ s.listens

\* The only callback is that of a job of the newest stream, whose request is
\* under way.
OneCancel ==
    \E b \in Block, listener \in {"E", "P"} :
        immediates = << <<Len(streams), listener, b>> >> /\ <<"tx", b>> \in pending

\* One cancel is scheduled at most; until it is called the job's request is
\* under way, and this.stream is set.
CancelAwaited ==
    /\ ~ uncaught /\ stopping = "no"
    /\ \A i \in DOMAIN streams : QueueOK(i)
    /\ immediates # <<>> => OneCancel /\ current # 0 /\ reached
    /\ outcome # "pending" \/ (\E i \in DOMAIN streams : streams[i].closing) =>
           /\ immediates = <<>>
           /\ \A i \in DOMAIN streams : streams[i].turn # "E"

CancelOK == Calm => CancelAwaited

\* All that is due before block n is imported.
CompleteTo(n) == Complete(Chain, origin, imported, n)

\* What a stream has sent is imported, or about to be.
SentOK(s) ==
    IF s.turn = "E" /\ Head(s.jobs)[1] = "tx"
    THEN s.next = Head(s.jobs)[2] + 1 /\ CompleteTo(Head(s.jobs)[2])
    ELSE CompleteTo(s.next)

\* Nothing due before a block imported is missing, nor before the height the
\* next stream starts from.
AccountComplete ==
    /\ Covered(Chain, origin, imported, known)
    /\ hash \in imported \cup {0}
    /\ hash = 0 => CompleteTo(LastHeight(height))

\* Nor before what the frame asks for, and what the newest stream has come to.
ScanComplete ==
    /\ AccountComplete
    /\ mode \in {"new", "historical"} => height = origin
    /\ pc = "best" => query.start \in imported \cup {0} /\ (hash = 0 => query.start = 0)
    /\ pc = "subscribe" => CompleteTo(query.from)
    /\ pc = "stream" => SentOK(streams[Len(streams)])

ScanOK == Calm /\ ~ browser /\ ~ unnoticed => ScanComplete

\* The streams of the first part ask for the blocks before the best height as
\* long as no block header has been imported, and one that ends without a
\* cancel has sent them.
RangeComplete ==
    /\ outcome \notin Codes
    /\ outcome = "CANCELLED" => current # 0
    /\ \A i \in DOMAIN streams : streams[i].closing => current = i
    /\ mode = "historical" /\ pc \in {"subscribe", "stream"} =>
           /\ gaps > 0 => base <= query.best
           /\ hash = 0 => query.upto >= query.best - 1
    /\ mode = "historical" /\ pc = "stream" =>
           LET s == streams[Len(streams)]
           IN  /\ s.upto = query.upto
               /\ hash = 0 /\ ~ s.live /\ ~ s.closing /\ ~ reached /\ outcome # "CANCELLED"
                  => CompleteTo(query.best)

RangeOK == Calm /\ ~ browser /\ ~ unnoticed => RangeComplete

IInv == Typing /\ FrameOK /\ WireOK /\ FilterOK /\ CancelOK /\ ScanOK /\ RangeOK

-----------------------------------------------------------------------------

(* Types *)

LEMMA ScenarioIs ==
    ASSUME WorldTyped
    PROVE  /\ Chain \in Seq(SUBSET Nat) /\ Len(Chain) \in Nat /\ Block = 1..Len(Chain)
           /\ Scenarios[scenario].firstTip \in Block
           /\ Scenarios[scenario].skipBefore \subseteq 0..Scenarios[scenario].firstTip
           /\ \A b \in Block : Chain[b] \in SUBSET Nat
           /\ Gap \in Nat /\ Gap >= 1
<1>1. Scenarios[scenario] \in Range(Scenarios)
    BY DEF WorldTyped, Range
<1>2. Chain \in Seq(SUBSET Nat)
    BY <1>1, SyncAssumption DEF Chain
<1>3. Len(Chain) \in Nat /\ Block = 1..Len(Chain) /\ \A b \in Block : Chain[b] \in SUBSET Nat
    BY <1>2 DEF Block
<1>4. /\ Scenarios[scenario].firstTip \in Block
      /\ Scenarios[scenario].skipBefore \subseteq 0..Scenarios[scenario].firstTip
    BY <1>1, SyncAssumption DEF Chain, Block
<1>5. Gap \in Nat /\ Gap >= 1
    BY SyncAssumption
<1> QED
    BY <1>2, <1>3, <1>4, <1>5

LEMMA DerivedIs ==
    ASSUME WorldTyped, NEW b \in Block, NEW k \in Nat
    PROVE  Derived(b, k) = Grown(Chain[b], k) /\ Derived(b, k) \in Nat /\ Derived(b, k) >= k
<1>1. Derived(b, k) = Grown(Chain[b], k)
    BY DEF Derived, Grown
<1> QED
    BY <1>1, ScenarioIs, GrownIs

\* An incident adds its kind to what has happened.
LEMMA IncidentAdds ==
    ASSUME WorldTyped, NEW kind, Incident(kind)
    PROVE  /\ WorldTyped'
           /\ Happened' = Happened \cup {kind}
           /\ UNCHANGED <<scenario, tip, browser, uncaught>>
<1>1. incidents' = incidents (+) SetToBag({kind}) /\ kind \in Scenarios[scenario].incidents
      /\ UNCHANGED <<scenario, tip, browser, uncaught>>
    BY DEF Incident
<1>2. incidents \in [DOMAIN incidents -> {n \in Nat : n > 0}]
    BY DEF WorldTyped, IsABag
<1>3. incidents' = [d \in DOMAIN incidents \cup {kind} |->
                       (IF d \in DOMAIN incidents THEN incidents[d] ELSE 0)
                       + (IF d \in {kind} THEN 1 ELSE 0)]
    BY <1>1 DEF (+), SetToBag
<1>4. IsABag(incidents') /\ DOMAIN incidents' = DOMAIN incidents \cup {kind}
    BY <1>2, <1>3 DEF IsABag
<1>5. Happened' = Happened \cup {kind}
    BY <1>4 DEF Happened, BagToSet
<1>6. Happened' \subseteq Scenarios'[scenario'].incidents
    BY <1>1, <1>5 DEF WorldTyped
<1> QED
    BY <1>1, <1>4, <1>5, <1>6 DEF WorldTyped, Block, Chain

\* The blocks of the scenario stay what they are.
LEMMA SameScenario ==
    ASSUME UNCHANGED scenario
    PROVE  Chain' = Chain /\ Block' = Block /\ Stream' = Stream /\ Query' = Query /\ Keys' = Keys
<1>1. Chain' = Chain
    BY DEF Chain
<1>2. Block' = Block
    BY <1>1 DEF Block
<1> QED
    BY <1>1, <1>2 DEF Stream, Query, Keys

\* What the frame's continuations leave behind
FrameMoves ==
    /\ FrameTyped'
    /\ height' \in 0..Len(Chain) /\ syncIncoming' \in BOOLEAN /\ current' \in {0, current}

LEMMA LastSetTyped ==
    ASSUME Typing, NEW best \in 0..tip
    PROVE  LastSet(best) \in 0..tip /\ tip \in 0..Len(Chain) /\ 0..tip \subseteq 0..Len(Chain)
BY ScenarioIs DEF LastSet, Typing, FrameTyped, WorldTyped

LEMMA StartHistoricalMoves ==
    ASSUME Typing, UNCHANGED <<scenario, tip>>, StartHistorical,
           gaps' \in Nat, base' \in 0..tip
    PROVE  FrameTyped'
<1>1. query' \in Query /\ query'.best <= tip
    BY DEF Typing, FrameTyped, AccountTyped, StartHistorical, Query
<1> QED
    BY <1>1, SameScenario DEF StartHistorical, FrameTyped

LEMMA StartIncomingMoves ==
    ASSUME Typing, UNCHANGED <<scenario, tip>>, NEW h \in 0..Len(Chain), StartIncoming(h),
           gaps' \in Nat, base' \in 0..tip
    PROVE  FrameTyped'
<1>1. LastHeight(h) \in Nat /\ LastHeight(h) # 0 /\ Len(Chain) \in Nat
    BY ScenarioIs, LastHeightIs DEF Typing
<1> DEFINE start == IF hash = 0 THEN LastHeight(h) ELSE hash
<1>2. start \in Nat /\ start # 0 /\ known \in Nat /\ Forever \in Int
    BY <1>1 DEF Typing, AccountTyped, Forever
<1>3. query' = [query EXCEPT !.from = start, !.upto = Forever, !.filter = known]
    BY DEF StartIncoming
<1> HIDE DEF start
<1>4. query' \in Query /\ query'.best <= tip /\ query'.from # 0
    BY <1>2, <1>3 DEF Typing, FrameTyped, Query
<1> QED
    BY <1>4, SameScenario DEF StartIncoming, FrameTyped

LEMMA HistoricalReturnsMoves ==
    ASSUME Typing, UNCHANGED <<scenario, tip>>, NEW h \in 0..Len(Chain), HistoricalReturns(h),
           current' \in {0, current}
    PROVE  FrameMoves
<1>1. 0 \in 0..tip
    BY ScenarioIs DEF Typing, WorldTyped
<1>2. gaps' = 0 /\ base' = 0 /\ height' = h /\ syncIncoming' = TRUE /\ StartIncoming(h)
    BY DEF HistoricalReturns
<1> QED
    BY <1>1, <1>2, StartIncomingMoves DEF FrameMoves

LEMMA HistoricalFailsMoves ==
    ASSUME Typing, UNCHANGED <<scenario, tip>>, NEW h \in 0..Len(Chain), HistoricalFails(h),
           current' \in {0, current}
    PROVE  FrameMoves
<1>1. CASE HistoricalReturns(h)
    BY <1>1, HistoricalReturnsMoves
<1>2. CASE HistoricalRejects
    <2>1. Over /\ gaps' = 0 /\ base' = 0 /\ UNCHANGED <<height, syncIncoming>> /\ 0 \in 0..tip
        BY <1>2, ScenarioIs DEF HistoricalRejects, Typing, WorldTyped
    <2>2. FrameTyped'
        BY <2>1, SameScenario DEF Over, Typing, FrameTyped
    <2> QED
        BY <2>1, <2>2 DEF FrameMoves, Typing, AccountTyped, ControlTyped
<1> QED
    BY <1>1, <1>2 DEF HistoricalFails

LEMMA CatchesMoves ==
    ASSUME Typing, UNCHANGED <<scenario, tip>>, NEW code \in Codes \cup {"CANCELLED"}, Catches(code)
    PROVE  FrameMoves
<1>0. /\ query.best \in 0..tip /\ height \in 0..Len(Chain) /\ gaps \in Nat /\ base \in 0..tip
      /\ syncIncoming \in BOOLEAN
    BY DEF Typing, FrameTyped, AccountTyped, ControlTyped, Query
<1>1. CASE mode = "historical" /\ HistoricalCatches(code)
    <2>1. CASE code = "CANCELLED" /\ current = 0
        <3>1. HistoricalReturns(LastSet(height)) /\ current' = current
            BY <1>1, <2>1 DEF HistoricalCatches
        <3>2. LastSet(height) \in 0..Len(Chain)
            BY <1>0, LastSetTyped DEF LastSet
        <3> QED
            BY <3>1, <3>2, HistoricalReturnsMoves
    <2>2. CASE ~ (code = "CANCELLED" /\ current = 0) /\ code = "FATAL"
        <3>1. HistoricalFails(LastSet(query.best)) /\ current' = 0
            BY <1>1, <2>2 DEF HistoricalCatches
        <3>2. LastSet(query.best) \in 0..Len(Chain)
            BY <1>0, LastSetTyped
        <3> QED
            BY <3>1, <3>2, HistoricalFailsMoves
    <2>3. CASE ~ (code = "CANCELLED" /\ current = 0) /\ code # "FATAL"
        <3>1. /\ current' = 0 /\ StartHistorical
              /\ UNCHANGED <<height, gaps, base, syncIncoming>>
            BY <1>1, <2>3 DEF HistoricalCatches, HistoricalRestarts
        <3> QED
            BY <1>0, <3>1, StartHistoricalMoves DEF FrameMoves
    <2> QED
        BY <2>1, <2>2, <2>3
<1>2. CASE mode = "incoming" /\ IncomingCatches(code)
    <2>1. current' = 0 /\ UNCHANGED <<height, gaps, base, syncIncoming>>
        BY <1>2 DEF IncomingCatches
    <2>2. CASE StartIncoming(height)
        BY <1>0, <2>1, <2>2, StartIncomingMoves DEF FrameMoves
    <2>3. CASE Over
        <3>1. FrameTyped'
            BY <2>1, <2>3, SameScenario DEF Over, Typing, FrameTyped
        <3> QED
            BY <1>0, <2>1, <3>1 DEF FrameMoves
    <2> QED
        BY <1>2, <2>2, <2>3 DEF IncomingCatches
<1> QED
    BY <1>1, <1>2 DEF Catches

-----------------------------------------------------------------------------
(* Streams *)

\* What a stream is, how far it has come, and its queue
SameLine(s, t) ==
    /\ t.handled = s.handled /\ t.live = s.live /\ t.closing = s.closing
    /\ t.upto = s.upto /\ t.filter = s.filter
SamePlace(s, t) == t.next = s.next /\ t.due = s.due
SameQueue(s, t) == t.jobs = s.jobs /\ t.turn = s.turn /\ t.listens = s.listens

Chunk == {"tx", "block"} \X Block

LEMMA SeqUpdated ==
    ASSUME NEW S, NEW seq \in Seq(S), NEW i \in DOMAIN seq, NEW e \in S,
           NEW new, new = [seq EXCEPT ![i] = e]
    PROVE  /\ new \in Seq(S) /\ Len(new) = Len(seq) /\ DOMAIN new = DOMAIN seq
           /\ new[i] = e /\ \A k \in DOMAIN seq : k # i => new[k] = seq[k]
OBVIOUS

LEMMA EnqueuedIs ==
    ASSUME NEW s \in Stream, NEW chunk \in Chunk, NEW t, t = Enqueued(s, chunk)
    PROVE  /\ t \in Stream /\ SameLine(s, t) /\ SamePlace(s, t)
           /\ t.jobs = Append(s.jobs, chunk) /\ t.jobs # <<>>
           /\ t.turn = (IF s.listens THEN "E" ELSE "none") /\ ~ t.listens
<1>1. PICK turn \in {"none", "E"} : turn = IF s.listens THEN "E" ELSE "none"
    OBVIOUS
<1>2. PICK jobs : jobs = Append(s.jobs, chunk)
    OBVIOUS
<1>3. s.jobs \in Seq(Chunk) /\ Chunk = {"tx", "block"} \X Block
    BY DEF Stream, Chunk
<1>4. jobs \in Seq(Chunk) /\ jobs # <<>>
    BY <1>2, <1>3, AppendProperties
<1>5. t = [s EXCEPT !.jobs = jobs, !.turn = turn, !.listens = FALSE]
    BY <1>1, <1>2 DEF Enqueued
<1>6. /\ t \in Stream /\ SameLine(s, t) /\ SamePlace(s, t)
      /\ t.jobs = jobs /\ t.turn = turn /\ t.listens = FALSE
    BY <1>3, <1>4, <1>5 DEF Stream, SameLine, SamePlace
<1> QED
    BY <1>1, <1>2, <1>4, <1>6

LEMMA JobEndsIs ==
    ASSUME NEW s \in Stream, NEW listener, NEW t, t = JobEnds(s, listener)
    PROVE  /\ t \in Stream /\ SameLine(s, t) /\ SamePlace(s, t)
           /\ t.jobs = s.jobs
           /\ t.turn = IF s.jobs = <<>> THEN "none" ELSE "P"
           /\ s.jobs = <<>> => t.listens
<1>1. CASE s.jobs = <<>>
    BY <1>1 DEF JobEnds, Stream, SameLine, SamePlace
<1>2. CASE s.jobs # <<>>
    <2>1. t = [s EXCEPT !.turn = "P",
                        !.listens = @ \/ (listener = "P" /\ Len(s.jobs) = 1)]
        BY <1>2 DEF JobEnds
    <2>2. (s.listens \/ (listener = "P" /\ Len(s.jobs) = 1)) \in BOOLEAN
        OBVIOUS
    <2> QED
        BY <1>2, <2>1, <2>2 DEF Stream, SameLine, SamePlace
<1> QED
    BY <1>1, <1>2

LEMMA JobThrowsIs ==
    ASSUME NEW s \in Stream, NEW listener, NEW t, t = JobThrows(s, listener)
    PROVE  t \in Stream /\ SameLine(s, t) /\ SamePlace(s, t) /\ t.jobs = s.jobs /\ t.turn = "none"
BY DEF JobThrows, Stream, SameLine, SamePlace

LEMMA JobWaitsIs ==
    ASSUME NEW s \in Stream, NEW t, t = JobWaits(s)
    PROVE  /\ t \in Stream /\ SameLine(s, t) /\ SamePlace(s, t)
           /\ t.jobs = s.jobs /\ t.turn = "none" /\ t.listens = s.listens
BY DEF JobWaits, Stream, SameLine, SamePlace

\* The job that starts is the first, and leaves the queue.
LEMMA DequeuedIs ==
    ASSUME Typing, NEW i \in DOMAIN streams, streams[i].turn # "none",
           NEW t, t = Dequeued(i)
    PROVE  /\ streams[i] \in Stream
           /\ streams[i].jobs # <<>> /\ Head(streams[i].jobs) \in Chunk /\ JobBlock(i) \in Block
           /\ t \in Stream /\ SameLine(streams[i], t) /\ SamePlace(streams[i], t)
           /\ t.jobs = Tail(streams[i].jobs) /\ t.turn = streams[i].turn
           /\ t.listens = streams[i].listens
<1>1. streams[i] \in Stream /\ streams[i].jobs # <<>>
    BY DEF Typing, WireTyped
<1>2. streams[i].jobs \in Seq(Chunk)
    BY <1>1 DEF Stream, Chunk
<1>3. Head(streams[i].jobs) \in Chunk /\ Tail(streams[i].jobs) \in Seq(Chunk)
    BY <1>1, <1>2
<1>4. JobBlock(i) \in Block
    BY <1>3 DEF JobBlock, Chunk
<1>5. t = [streams[i] EXCEPT !.jobs = Tail(streams[i].jobs)]
    BY DEF Dequeued
<1> HIDE DEF Dequeued
<1> QED
    BY <1>1, <1>3, <1>4, <1>5 DEF Stream, SameLine, SamePlace, Chunk

\* A chunk that came on stream i is in the queue of the newest one.
Handed(i, chunk, new) ==
    LET n == Len(streams)
    IN  /\ new \in Seq(Stream) /\ Len(new) = n /\ DOMAIN new = DOMAIN streams
        /\ \A k \in DOMAIN streams :
               /\ SameLine(streams[k], new[k])
               /\ k # i => SamePlace(streams[k], new[k])
               /\ k # n => SameQueue(streams[k], new[k])
        /\ new[n].jobs = Append(streams[n].jobs, chunk) /\ new[n].jobs # <<>>
        /\ new[n].turn = (IF streams[n].listens THEN "E" ELSE "none") /\ ~ new[n].listens

\* A chunk goes to the queue of the newest stream.
LEMMA HandIs ==
    ASSUME Typing, FrameOK, NEW i \in DOMAIN streams, NEW sent \in Stream,
           SameLine(streams[i], sent), SameQueue(streams[i], sent),
           NEW chunk \in Chunk, NEW new, new = Hand(chunk, [streams EXCEPT ![i] = sent])
    PROVE  Handed(i, chunk, new) /\ SamePlace(sent, new[i])
<1> DEFINE n == Len(streams)
           received == [streams EXCEPT ![i] = sent]
<1>1. streams \in Seq(Stream) /\ DOMAIN streams = 1..n /\ n \in DOMAIN streams
    BY DEF Typing, WireTyped
<1>2. {j \in DOMAIN streams : streams[j].handled} = DOMAIN streams
    BY DEF FrameOK
<1>3. Max(DOMAIN streams) = n
    <2> DEFINE all == 1..n
    <2>1. n \in Nat /\ all \in SUBSET Nat /\ n \in all /\ \A k \in all : k <= n
        BY <1>1
    <2> HIDE DEF all
    <2>2. Max(all) \in all /\ \A k \in all : Max(all) >= k
        BY <2>1, MaxIsGreatest
    <2>3. Max(all) = n
        BY <2>1, <2>2
    <2> QED
        BY <1>1, <2>3 DEF all
<1>4. new = [received EXCEPT ![n] = Enqueued(received[n], chunk)]
    BY <1>2, <1>3 DEF Hand
<1>5. /\ received \in Seq(Stream) /\ Len(received) = n /\ DOMAIN received = DOMAIN streams
      /\ received[i] = sent /\ \A k \in DOMAIN streams : k # i => received[k] = streams[k]
    BY <1>1, SeqUpdated
<1> HIDE DEF received
<1>6. PICK t : t = Enqueued(received[n], chunk)
    OBVIOUS
<1>7. received[n] \in Stream
    BY <1>1, <1>5
<1>8. /\ t \in Stream /\ SameLine(received[n], t) /\ SamePlace(received[n], t)
      /\ t.jobs = Append(received[n].jobs, chunk) /\ t.jobs # <<>>
      /\ t.turn = (IF received[n].listens THEN "E" ELSE "none") /\ ~ t.listens
    BY <1>6, <1>7, EnqueuedIs
<1>9. /\ new \in Seq(Stream) /\ Len(new) = n /\ DOMAIN new = DOMAIN streams
      /\ new[n] = t /\ \A k \in DOMAIN streams : k # n => new[k] = received[k]
    <2>1. new = [received EXCEPT ![n] = t]
        BY <1>4, <1>6
    <2>2. received \in Seq(Stream) /\ n \in DOMAIN received /\ t \in Stream
        BY <1>1, <1>5, <1>8
    <2> HIDE DEF n
    <2>3. /\ new \in Seq(Stream) /\ Len(new) = Len(received) /\ DOMAIN new = DOMAIN received
          /\ new[n] = t /\ \A k \in DOMAIN received : k # n => new[k] = received[k]
        BY ONLY <2>1, <2>2
    <2> QED
        BY <1>5, <2>3
<1>10. SameQueue(streams[n], received[n]) /\ \A k \in DOMAIN streams : SameLine(streams[k], received[k])
    BY <1>1, <1>5 DEF SameQueue, SameLine
<1>11. ASSUME NEW k \in DOMAIN streams
       PROVE  /\ SameLine(streams[k], new[k])
              /\ k # i => SamePlace(streams[k], new[k])
              /\ k # n => SameQueue(streams[k], new[k])
    <2>1. CASE k = n
        BY <1>5, <1>8, <1>9, <1>10, <2>1 DEF SameLine, SamePlace
    <2>2. CASE k # n
        <3>1. new[k] = received[k] /\ SameLine(streams[k], new[k])
            BY <1>9, <1>10, <2>2
        <3>2. CASE k = i
            BY <1>5, <3>1, <3>2
        <3>3. CASE k # i
            <4>1. new[k] = streams[k]
                BY <1>5, <3>1, <3>3
            <4> QED
                BY <3>1, <4>1 DEF SamePlace, SameQueue
        <3> QED
            BY <3>2, <3>3
    <2> QED
        BY <2>1, <2>2
<1>12. SamePlace(sent, new[i])
    BY <1>1, <1>5, <1>8, <1>9 DEF SamePlace
<1> QED
    BY <1>1, <1>8, <1>9, <1>10, <1>11, <1>12 DEF SameQueue, Handed

\* Stream j has been cancelled, whatever its queue does.
CancelledLine(j, new) ==
    /\ new \in Seq(Stream) /\ Len(new) = Len(streams) /\ DOMAIN new = DOMAIN streams
    /\ \A k \in DOMAIN streams :
           /\ SamePlace(streams[k], new[k]) /\ new[k].jobs = streams[k].jobs
           /\ new[k].handled = streams[k].handled
           /\ new[k].upto = streams[k].upto /\ new[k].filter = streams[k].filter
           /\ k # j => new[k].live = streams[k].live /\ new[k].closing = streams[k].closing
    /\ ~ new[j].live
    /\ new[j].closing = (streams[j].closing \/ (streams[j].live /\ ~ browser))

LEMMA CancelledIs ==
    ASSUME Typing, NEW j \in DOMAIN streams, NEW new, new = CancelledStreams(j)
    PROVE  CancelledLine(j, new) /\ \A k \in DOMAIN streams : SameQueue(streams[k], new[k])
<1>1. streams \in Seq(Stream) /\ streams[j] \in Stream /\ browser \in BOOLEAN
    BY DEF Typing, WireTyped, WorldTyped
<1>2. PICK closes \in BOOLEAN : closes = (streams[j].closing \/ (streams[j].live /\ ~ browser))
    BY <1>1 DEF Stream
<1>3. PICK s : s = [streams[j] EXCEPT !.live = FALSE, !.closing = closes]
    OBVIOUS
<1>4. /\ s \in Stream /\ SamePlace(streams[j], s) /\ SameQueue(streams[j], s)
      /\ s.handled = streams[j].handled /\ s.upto = streams[j].upto
      /\ s.filter = streams[j].filter /\ s.live = FALSE /\ s.closing = closes
    BY <1>1, <1>2, <1>3 DEF Stream, SamePlace, SameQueue
<1>5. new = [streams EXCEPT ![j] = s]
    BY <1>1, <1>2, <1>3 DEF CancelledStreams
<1>6. /\ new \in Seq(Stream) /\ Len(new) = Len(streams) /\ DOMAIN new = DOMAIN streams
      /\ new[j] = s /\ \A k \in DOMAIN streams : k # j => new[k] = streams[k]
    BY ONLY <1>1, <1>4, <1>5
<1> QED
    BY <1>2, <1>4, <1>6 DEF SamePlace, SameQueue, CancelledLine

-----------------------------------------------------------------------------
(* Types: the steps *)

LEMMA UntouchedTyped ==
    ASSUME Typing, UNCHANGED scenario
    PROVE  /\ UNCHANGED world => WorldTyped'
           /\ UNCHANGED account => AccountTyped'
           /\ UNCHANGED <<tip, frame>> => FrameTyped'
           /\ UNCHANGED wire => WireTyped'
           /\ UNCHANGED <<imported, metadata>> => MetadataTyped'
           /\ UNCHANGED control /\ Len(streams') = Len(streams) => ControlTyped'
<1>1. UNCHANGED world => WorldTyped'
    BY SameScenario DEF Typing, WorldTyped, world, Happened
<1>2. UNCHANGED account => AccountTyped'
    BY SameScenario DEF Typing, AccountTyped, account
<1>3. UNCHANGED <<tip, frame>> => FrameTyped'
    BY SameScenario DEF Typing, FrameTyped, frame
<1>4. UNCHANGED wire => WireTyped'
    BY SameScenario DEF Typing, WireTyped, wire
<1>5. UNCHANGED <<imported, metadata>> => MetadataTyped'
    BY SameScenario DEF Typing, MetadataTyped, metadata
<1>6. UNCHANGED control /\ Len(streams') = Len(streams) => ControlTyped'
    BY SameScenario DEF Typing, ControlTyped, control
<1> QED
    BY <1>1, <1>2, <1>3, <1>4, <1>5, <1>6

\* The frame has gone on, and the rest is what it was.
LEMMA MovedTyped ==
    ASSUME Typing, FrameMoves, WorldTyped', UNCHANGED scenario, origin' \in 0..Len(Chain),
           UNCHANGED <<known, imported, hash, streams, ending, metadata, stopping, immediates>>,
           reached' \in BOOLEAN
    PROVE  Typing'
<1>1. FrameTyped' /\ MetadataTyped'
    BY UntouchedTyped DEF FrameMoves
<1>2. AccountTyped'
    BY SameScenario DEF Typing, AccountTyped, FrameMoves
<1>3. WireTyped'
    BY SameScenario DEF Typing, WireTyped, FrameMoves
<1>4. ControlTyped'
    BY SameScenario DEF Typing, ControlTyped, FrameMoves
<1> QED
    BY <1>1, <1>2, <1>3, <1>4 DEF Typing

LEMMA StartTyped ==
    ASSUME Typing, FrameOK, NEW all \in BOOLEAN, NEW h \in Scenarios[scenario].skipBefore, Start(all, h)
    PROVE  Typing'
<1>1. /\ UNCHANGED <<scenario, tip, world, known, imported, hash, streams, current, ending, metadata,
                     stopping, immediates>>
      /\ reached' = reached
    BY DEF Start, world, wire
<1>2. WorldTyped'
    BY <1>1, UntouchedTyped
<1>3. reached' \in BOOLEAN /\ tip \in 0..Len(Chain) /\ h \in 0..Len(Chain)
    BY <1>1, ScenarioIs DEF Typing, WireTyped, WorldTyped
<1>4. CASE all
    <2>1. origin' = tip /\ HistoricalReturns(tip) /\ current' = current
        BY <1>1, <1>4 DEF Start
    <2>2. FrameMoves
        BY <1>1, <1>3, <2>1, HistoricalReturnsMoves
    <2> QED
        BY <1>1, <1>2, <1>3, <2>1, <2>2, MovedTyped
<1>5. CASE ~ all
    <2>1. /\ origin' = h /\ height' = (IF h = 0 THEN height ELSE h) /\ StartHistorical
          /\ UNCHANGED <<gaps, base, syncIncoming>>
        BY <1>5 DEF Start
    <2>2. FrameTyped'
        BY <1>1, <2>1, StartHistoricalMoves DEF Typing, FrameTyped
    <2>3. FrameMoves
        BY <1>1, <1>3, <2>1, <2>2 DEF FrameMoves, Typing, AccountTyped, ControlTyped
    <2> QED
        BY <1>1, <1>2, <1>3, <2>1, <2>3, MovedTyped
<1> QED
    BY <1>4, <1>5

LEMMA BestHeightAnsweredTyped ==
    ASSUME Typing, BestHeightAnswered
    PROVE  Typing'
<1>1. UNCHANGED <<scenario, tip, world, account, mode, outcome, gaps, base, wire, imported,
                  metadata, control, streams>>
      /\ pc' = "subscribe"
    BY DEF BestHeightAnswered, world, account, wire
<1> DEFINE from == IF query.start = 0 THEN LastHeight(height) ELSE query.start
           missing == tip - LastHeight(height)
           upto == from + (IF missing = 0 THEN 1 ELSE missing) - 1
<1>2. query' = [query EXCEPT !.best = tip, !.from = from, !.upto = upto, !.filter = known]
    BY DEF BestHeightAnswered
<1>3. LastHeight(height) \in Nat /\ LastHeight(height) # 0
    BY ScenarioIs, LastHeightIs DEF Typing, AccountTyped
<1>4. query \in Query /\ tip \in 0..Len(Chain) /\ tip \in Int /\ known \in Nat
    BY ScenarioIs DEF Typing, FrameTyped, WorldTyped, AccountTyped
<1>5. from \in Nat /\ from # 0
    BY <1>3, <1>4, ScenarioIs DEF Query, Typing
<1>6. upto \in Int
    BY <1>3, <1>4, <1>5
<1> HIDE DEF from, upto
<1>7. query' \in Query /\ query'.best = tip /\ query'.from = from
    BY <1>2, <1>4, <1>5, <1>6 DEF Query
<1>8. FrameTyped'
    BY <1>1, <1>4, <1>5, <1>7, SameScenario DEF Typing, FrameTyped
<1> QED
    BY <1>1, <1>8, UntouchedTyped DEF Typing

LEMMA BestHeightFailsTyped ==
    ASSUME Typing, FrameOK, NEW code \in Codes, BestHeightFails(code)
    PROVE  Typing'
<1>1. /\ WorldTyped' /\ UNCHANGED <<scenario, tip>>
      /\ UNCHANGED <<origin, known, imported, hash, streams, reached, ending, metadata, stopping,
                     immediates>>
    BY IncidentAdds DEF BestHeightFails, Typing
<1>2. origin \in 0..Len(Chain) /\ reached \in BOOLEAN /\ base \in 0..Len(Chain) /\ base \in 0..tip /\ 0 \in 0..tip
    BY ScenarioIs DEF Typing, AccountTyped, WireTyped, FrameTyped, WorldTyped
<1>3. CASE gaps = 0 /\ Over /\ UNCHANGED <<height, gaps, base, syncIncoming, current>>
    <2>1. FrameTyped'
        BY <1>1, <1>3, SameScenario DEF Over, Typing, FrameTyped
    <2>2. FrameMoves
        BY <1>3, <2>1 DEF FrameMoves, Typing, AccountTyped, ControlTyped
    <2> QED
        BY <1>1, <1>2, <2>2, MovedTyped
<1>4. CASE gaps > 0 /\ current' = 0 /\ HistoricalFails(base)
    <2>1. FrameMoves
        BY <1>1, <1>2, <1>4, HistoricalFailsMoves
    <2> QED
        BY <1>1, <1>2, <2>1, MovedTyped
<1>5. CASE /\ gaps > 0 /\ current' = 0 /\ StartHistorical /\ gaps' = gaps - 1
           /\ base' = (IF gaps = 1 THEN 0 ELSE base) /\ UNCHANGED <<height, syncIncoming>>
    <2>1. gaps' \in Nat /\ base' \in 0..tip
        BY <1>2, <1>5 DEF Typing, FrameTyped
    <2>2. FrameTyped'
        BY <1>1, <1>5, <2>1, StartHistoricalMoves
    <2>3. FrameMoves
        BY <1>5, <2>2 DEF FrameMoves, Typing, AccountTyped, ControlTyped
    <2> QED
        BY <1>1, <1>2, <2>3, MovedTyped
<1> QED
    BY <1>3, <1>4, <1>5 DEF BestHeightFails

LEMMA SubscriptionFailsTyped ==
    ASSUME Typing, NEW code \in Codes, SubscriptionFails(code)
    PROVE  Typing'
<1>1. /\ WorldTyped' /\ UNCHANGED <<scenario, tip>> /\ Catches(code)
      /\ UNCHANGED <<origin, known, imported, hash, streams, reached, ending, metadata, stopping,
                     immediates>>
    BY IncidentAdds DEF SubscriptionFails, Typing
<1>2. FrameMoves
    BY <1>1, CatchesMoves
<1> QED
    BY <1>1, <1>2, MovedTyped DEF Typing, AccountTyped, WireTyped

LEMMA ContinueTyped ==
    ASSUME Typing, Continue
    PROVE  Typing'
<1>1. UNCHANGED <<scenario, tip, world, origin, known, imported, hash, streams, reached, ending,
                  metadata, stopping, immediates>>
    BY DEF Continue, world
<1>2. /\ WorldTyped' /\ origin' \in 0..Len(Chain) /\ reached' \in BOOLEAN
      /\ query.best \in 0..tip /\ gaps \in Nat /\ height \in 0..Len(Chain) /\ base \in 0..tip
      /\ syncIncoming \in BOOLEAN
    BY <1>1, UntouchedTyped DEF Typing, AccountTyped, WireTyped, FrameTyped, Query, ControlTyped
<1>3. LastSet(query.best) \in 0..tip /\ LastSet(query.best) \in 0..Len(Chain)
    BY <1>2, LastSetTyped
<1>4. FrameMoves
    <2>1. CASE /\ UNCHANGED <<current, height, syncIncoming>>
               /\ gaps' = gaps + 1 /\ base' = LastSet(query.best) /\ StartHistorical
        BY <1>1, <1>2, <1>3, <2>1, StartHistoricalMoves DEF FrameMoves
    <2>2. CASE UNCHANGED current /\ HistoricalReturns(LastSet(query.best))
        BY <1>1, <1>3, <2>2, HistoricalReturnsMoves
    <2>3. CASE UNCHANGED <<current, height, gaps, base, syncIncoming>> /\ StartIncoming(height)
        BY <1>1, <1>2, <2>3, StartIncomingMoves DEF FrameMoves
    <2>4. CASE UNCHANGED <<current, height, gaps, base, syncIncoming>> /\ Over
        <3>1. FrameTyped'
            BY <1>1, <2>4, SameScenario DEF Over, Typing, FrameTyped
        <3> QED
            BY <1>2, <2>4, <3>1 DEF FrameMoves
    <2>5. CASE outcome \in Codes \cup {"CANCELLED"} /\ Catches(outcome)
        BY <1>1, <2>5, CatchesMoves
    <2> QED
        BY <2>1, <2>2, <2>3, <2>4, <2>5 DEF Continue
<1> QED
    BY <1>1, <1>2, <1>4, MovedTyped

\* The stream the frame opens
Opened == [handled |-> current = 0, live |-> TRUE, closing |-> FALSE,
           next |-> query.from, upto |-> query.upto, filter |-> query.filter,
           due |-> 0, jobs |-> <<>>, turn |-> "none", listens |-> TRUE]

LEMMA SubscribedOpens ==
    ASSUME Typing, Subscribed, NEW n, n = Len(streams)
    PROVE  /\ n \in Nat /\ Opened \in Stream
           /\ streams' \in Seq(Stream) /\ Len(streams') = n + 1 /\ DOMAIN streams' = 1..(n + 1)
           /\ streams'[n + 1] = Opened
           /\ DOMAIN streams = 1..n /\ \A k \in DOMAIN streams : streams'[k] = streams[k]
<1>1. query \in Query /\ query.from # 0 /\ Len(Chain) \in Nat
    BY ScenarioIs DEF Typing, FrameTyped, Subscribed
<1>2. Opened \in Stream
    <2>1. <<>> \in Seq({"tx", "block"} \X Block)
        OBVIOUS
    <2> QED
        BY <1>1, <2>1 DEF Opened, Stream, Query
<1>3. streams \in Seq(Stream) /\ streams' = Append(streams, Opened)
    BY DEF Typing, WireTyped, Subscribed, Opened
<1> QED
    BY <1>2, <1>3, AppendProperties

\* The frame settles after a stream that was opened beside another one.
LEMMA SubscribedTyped ==
    ASSUME Typing, FrameOK, Subscribed
    PROVE  Typing'
<1> DEFINE n == Len(streams)
<1>1. /\ UNCHANGED <<scenario, tip, world, origin, known, imported, hash, ending, metadata,
                     stopping, immediates>>
      /\ current = 0 /\ current' = n + 1 /\ reached' = FALSE /\ pc' = "stream"
      /\ UNCHANGED <<height, mode, outcome, query, gaps, base, syncIncoming>>
    BY DEF Subscribed, FrameOK, world
<1>2. /\ n \in Nat /\ streams' \in Seq(Stream) /\ Len(streams') = n + 1
      /\ DOMAIN streams' = 1..(n + 1) /\ DOMAIN streams = 1..n
      /\ streams'[n + 1] = Opened /\ \A k \in DOMAIN streams : streams'[k] = streams[k]
    BY SubscribedOpens
<1> HIDE DEF n
<1>3. WorldTyped' /\ MetadataTyped' /\ AccountTyped'
    BY <1>1, UntouchedTyped DEF account
<1>4. FrameTyped'
    BY <1>1, SameScenario DEF Typing, FrameTyped
<1>5. ControlTyped'
    <2>1. immediates \in Seq(Callbacks(n, Len(Chain)))
        BY DEF Typing, ControlTyped, n
    <2>2. Callbacks(n, Len(Chain)) \subseteq Callbacks(n + 1, Len(Chain))
        BY <1>2 DEF Callbacks
    <2>3. immediates \in Seq(Callbacks(n + 1, Len(Chain)))
        BY <2>1, <2>2
    <2> QED
        BY <1>1, <1>2, <2>3, SameScenario DEF Typing, ControlTyped
<1>6. WireTyped'
    <2>1. \A k \in DOMAIN streams' : streams'[k].turn # "none" => streams'[k].jobs # <<>>
        <3>1. streams'[n + 1].turn = "none"
            BY <1>2 DEF Opened
        <3> QED
            BY <1>2, <3>1 DEF Typing, WireTyped
    <2>2. ending' \in SUBSET DOMAIN streams'
        <3>1. ending' = ending /\ ending \in SUBSET DOMAIN streams
            BY <1>1 DEF Typing, WireTyped
        <3>2. DOMAIN streams \subseteq DOMAIN streams'
            BY <1>2
        <3> QED
            BY <3>1, <3>2
    <2>3. current' \in 0..Len(streams') /\ reached' \in BOOLEAN
        <3>1. n + 1 \in 0..(n + 1)
            BY <1>2
        <3> QED
            BY <1>1, <1>2, <3>1
    <2> QED
        BY <1>1, <1>2, <2>1, <2>2, <2>3, SameScenario DEF WireTyped
<1> QED
    BY <1>3, <1>4, <1>5, <1>6 DEF Typing

\* The rest of the state survives a step of the streams that settles what the
\* frame awaits, at most.
LEMMA SettledTyped ==
    ASSUME Typing, WorldTyped', WireTyped', Len(streams') = Len(streams),
           UNCHANGED <<scenario, tip, account, mode, pc, query, gaps, base, metadata, control>>,
           outcome' \in {outcome, "gap", "end", "CANCELLED"} \cup Codes
    PROVE  Typing'
<1>1. AccountTyped' /\ MetadataTyped' /\ ControlTyped'
    BY UntouchedTyped DEF account
<1>2. FrameTyped'
    BY SameScenario DEF Typing, FrameTyped
<1> QED
    BY <1>1, <1>2 DEF Typing

\* The next transaction a stream sends
LEMMA NextBlockIs ==
    ASSUME Typing, NEW i \in DOMAIN streams, NextBlocks(streams[i]) # {}, NEW b,
           b = Min(NextBlocks(streams[i]))
    PROVE  /\ b \in Block /\ b >= streams[i].next /\ b <= tip /\ b <= streams[i].upto
           /\ Wanted(b, streams[i].filter)
           /\ \A c \in Block : c >= streams[i].next /\ c < b => ~ Wanted(c, streams[i].filter)
<1> DEFINE s == streams[i]
<1>0. s \in Stream
    BY DEF Typing, WireTyped
<1>1. s \in Stream /\ s.next \in Nat /\ s.next # 0 /\ s.upto \in Int
    BY <1>0 DEF Stream
<1>2. tip \in Block /\ Block = 1..Len(Chain) /\ Len(Chain) \in Nat
    BY ScenarioIs DEF Typing, WorldTyped
<1>3. Min({tip, s.upto}) = IF tip <= s.upto THEN tip ELSE s.upto
    BY <1>1, <1>2, MinOfTwo
<1>4. PICK last \in Int : last = Min({tip, s.upto})
    BY <1>1, <1>2, <1>3
<1>5. last <= tip /\ last <= s.upto
    BY <1>1, <1>2, <1>3, <1>4
<1>6. NextBlocks(s) = {c \in s.next..last : Wanted(c, s.filter)}
    BY <1>4 DEF NextBlocks
<1> HIDE DEF s
<1>7. NextBlocks(s) \in SUBSET Nat /\ NextBlocks(s) # {} /\ b = Min(NextBlocks(s))
    BY <1>1, <1>6 DEF s
<1>8. b \in NextBlocks(s) /\ \A c \in NextBlocks(s) : b <= c
    BY <1>7, MinIsLeast
<1>9. b \in s.next..last /\ Wanted(b, s.filter)
    BY <1>6, <1>8
<1>10. b \in Block /\ b >= s.next /\ b <= tip /\ b <= s.upto
    BY <1>1, <1>2, <1>5, <1>9
<1>11. ASSUME NEW c \in Block, c >= s.next, c < b PROVE ~ Wanted(c, s.filter)
    <2>1. c \in s.next..last
        BY <1>1, <1>2, <1>9, <1>11
    <2> QED
        BY <1>2, <1>6, <1>8, <1>10, <1>11, <2>1
<1> QED
    BY <1>9, <1>10, <1>11 DEF s

LEMMA InTimeIs ==
    ASSUME WorldTyped, NEW kind, InTime(kind)
    PROVE  /\ WorldTyped' /\ UNCHANGED <<scenario, tip, browser, uncaught>>
           /\ Happened \subseteq Happened'
           /\ immediates = <<>> \/ kind \in Happened'
<1>1. CASE immediates = <<>>
    <2>1. UNCHANGED world
        BY <1>1 DEF InTime
    <2> QED
        BY <1>1, <2>1, SameScenario DEF world, WorldTyped, Happened
<1>2. CASE immediates # <<>>
    BY <1>2, IncidentAdds DEF InTime
<1> QED
    BY <1>1, <1>2

LEMMA TransactionReceived ==
    ASSUME Typing, FrameOK, NEW i \in DOMAIN streams, ReceiveTransaction(i)
    PROVE  \E b \in Block :
               /\ b >= streams[i].next /\ b <= tip /\ b <= streams[i].upto
               /\ Wanted(b, streams[i].filter)
               /\ \A c \in Block : c >= streams[i].next /\ c < b => ~ Wanted(c, streams[i].filter)
               /\ Handed(i, <<"tx", b>>, streams')
               /\ streams'[i].next = b + 1 /\ streams'[i].due = b
<1>1. PICK b : b = Min(NextBlocks(streams[i]))
    OBVIOUS
<1>2. /\ b \in Block /\ b >= streams[i].next /\ b <= tip /\ b <= streams[i].upto
      /\ Wanted(b, streams[i].filter)
      /\ \A c \in Block : c >= streams[i].next /\ c < b => ~ Wanted(c, streams[i].filter)
    BY <1>1, NextBlockIs DEF ReceiveTransaction
<1>3. PICK sent : sent = [streams[i] EXCEPT !.due = b, !.next = b + 1]
    OBVIOUS
<1>4. streams[i] \in Stream /\ b \in 0..Len(Chain) /\ b + 1 \in Nat \ {0}
    BY <1>2, ScenarioIs DEF Typing, WireTyped
<1>5. /\ sent \in Stream /\ SameLine(streams[i], sent) /\ SameQueue(streams[i], sent)
      /\ sent.next = b + 1 /\ sent.due = b
    BY <1>3, <1>4 DEF Stream, SameLine, SameQueue
<1>6. streams' = Hand(<<"tx", b>>, [streams EXCEPT ![i] = sent])
    <2>1. streams' = Hand(<<"tx", b>>, [streams EXCEPT ![i].due = b, ![i].next = b + 1])
        BY <1>1 DEF ReceiveTransaction
    <2>2. [streams EXCEPT ![i].due = b, ![i].next = b + 1] = [streams EXCEPT ![i] = sent]
        BY <1>3, <1>4 DEF Stream, Typing, WireTyped
    <2> QED
        BY <2>1, <2>2
<1>7. <<"tx", b>> \in Chunk
    BY <1>2 DEF Chunk
<1>8. Handed(i, <<"tx", b>>, streams') /\ SamePlace(sent, streams'[i])
    BY <1>5, <1>6, <1>7, HandIs
<1>9. streams'[i].next = b + 1 /\ streams'[i].due = b
    BY <1>5, <1>8 DEF SamePlace
<1> QED
    BY <1>2, <1>8, <1>9

LEMMA MerkleBlockReceived ==
    ASSUME Typing, FrameOK, NEW i \in DOMAIN streams, ReceiveMerkleBlock(i)
    PROVE  /\ streams[i].due \in Block
           /\ Handed(i, <<"block", streams[i].due>>, streams')
           /\ streams'[i].next = streams[i].next /\ streams'[i].due = 0
<1>1. streams[i] \in Stream /\ streams[i].due \in Block /\ 0 \in 0..Len(Chain)
    <2>1. streams[i] \in Stream /\ streams[i].due # 0
        BY DEF Typing, WireTyped, ReceiveMerkleBlock
    <2>2. streams[i].due \in 0..Len(Chain)
        BY <2>1 DEF Stream
    <2> QED
        BY <2>1, <2>2, ScenarioIs DEF Typing
<1>2. PICK sent : sent = [streams[i] EXCEPT !.due = 0]
    OBVIOUS
<1>3. /\ sent \in Stream /\ SameLine(streams[i], sent) /\ SameQueue(streams[i], sent)
      /\ sent.next = streams[i].next /\ sent.due = 0
    BY <1>1, <1>2 DEF Stream, SameLine, SameQueue
<1>4. streams' = Hand(<<"block", streams[i].due>>, [streams EXCEPT ![i] = sent])
    BY <1>2 DEF ReceiveMerkleBlock
<1>5. <<"block", streams[i].due>> \in Chunk
    BY <1>1 DEF Chunk
<1>6. Handed(i, <<"block", streams[i].due>>, streams') /\ SamePlace(sent, streams'[i])
    BY <1>3, <1>4, <1>5, HandIs
<1> QED
    BY <1>1, <1>3, <1>6 DEF SamePlace

LEMMA UnminedReceived ==
    ASSUME Typing, FrameOK, NEW i \in DOMAIN streams, NEW b \in Block, ReceiveUnmined(i, b)
    PROVE  Handed(i, <<"tx", b>>, streams') /\ SamePlace(streams[i], streams'[i])
<1>1. streams[i] \in Stream /\ <<"tx", b>> \in Chunk
    BY DEF Typing, WireTyped, Chunk
<1>2. streams = [streams EXCEPT ![i] = streams[i]]
    BY DEF Typing, WireTyped
<1>3. streams' = Hand(<<"tx", b>>, [streams EXCEPT ![i] = streams[i]])
    BY <1>2 DEF ReceiveUnmined
<1>4. SameLine(streams[i], streams[i]) /\ SameQueue(streams[i], streams[i])
    BY DEF SameLine, SameQueue
<1> QED
    BY <1>1, <1>3, <1>4, HandIs

LEMMA HandedTyped ==
    ASSUME Typing, UNCHANGED <<scenario, current, reached, ending>>,
           NEW i, NEW chunk, Handed(i, chunk, streams')
    PROVE  WireTyped' /\ Len(streams') = Len(streams)
<1>1. \A k \in DOMAIN streams' : streams'[k].turn # "none" => streams'[k].jobs # <<>>
    BY DEF Handed, SameQueue, Typing, WireTyped
<1> QED
    BY <1>1, SameScenario DEF Handed, Typing, WireTyped

LEMMA ReceivedTyped ==
    ASSUME Typing, FrameOK, NEW i \in DOMAIN streams,
           \/ ReceiveTransaction(i)
           \/ ReceiveMerkleBlock(i)
           \/ \E b \in Block : ReceiveUnmined(i, b)
    PROVE  Typing'
<1>1. /\ WorldTyped' /\ UNCHANGED <<scenario, tip>>
      /\ UNCHANGED <<account, frame, current, reached, ending, metadata, control>>
    BY InTimeIs, IncidentAdds
    DEF ReceiveTransaction, ReceiveMerkleBlock, ReceiveUnmined, Typing
<1>2. \E chunk : Handed(i, chunk, streams')
    BY TransactionReceived, MerkleBlockReceived, UnminedReceived
<1>3. WireTyped' /\ Len(streams') = Len(streams)
    BY <1>1, <1>2, HandedTyped
<1> QED
    BY <1>1, <1>3, SettledTyped DEF frame

\* A job has left queue i.
Worked(i, new) ==
    /\ new \in Seq(Stream) /\ Len(new) = Len(streams) /\ DOMAIN new = DOMAIN streams
    /\ \A k \in DOMAIN streams :
           /\ SameLine(streams[k], new[k]) /\ SamePlace(streams[k], new[k])
           /\ k # i => SameQueue(streams[k], new[k])
    /\ streams[i].jobs # <<>> /\ new[i].jobs = Tail(streams[i].jobs)
    /\ new[i].turn # "none" => new[i].jobs # <<>>

LEMMA WorkedIs ==
    ASSUME Typing, NEW i \in DOMAIN streams, streams[i].turn # "none",
           NEW s, s = Dequeued(i), NEW t \in Stream,
           SameLine(s, t), SamePlace(s, t), t.jobs = s.jobs, t.turn # "none" => t.jobs # <<>>,
           NEW new, new = [streams EXCEPT ![i] = t]
    PROVE  Worked(i, new) /\ new[i] = t
<1>1. /\ streams \in Seq(Stream) /\ streams[i].jobs # <<>>
      /\ SameLine(streams[i], s) /\ SamePlace(streams[i], s) /\ s.jobs = Tail(streams[i].jobs)
    BY DequeuedIs DEF Typing, WireTyped
<1>2. /\ new \in Seq(Stream) /\ Len(new) = Len(streams) /\ DOMAIN new = DOMAIN streams
      /\ new[i] = t /\ \A k \in DOMAIN streams : k # i => new[k] = streams[k]
    BY <1>1
<1>3. SameLine(streams[i], t) /\ SamePlace(streams[i], t) /\ t.jobs = Tail(streams[i].jobs)
    BY <1>1 DEF SameLine, SamePlace
<1> QED
    BY <1>1, <1>2, <1>3 DEF Worked, SameLine, SamePlace, SameQueue

\* The job of a transaction waits for the cancel it has scheduled, or ends.
LEMMA TransactionProcessed ==
    ASSUME Typing, NEW i \in DOMAIN streams, ProcessTransaction(i)
    PROVE  /\ JobBlock(i) \in Block /\ Worked(i, streams')
           /\ \/ /\ reached' /\ current # 0
                 /\ immediates' = Append(immediates, <<i, streams[i].turn, JobBlock(i)>>)
                 /\ streams'[i].turn = "none" /\ streams'[i].listens = streams[i].listens
              \/ /\ ~ (reached' /\ current # 0) /\ UNCHANGED immediates
                 /\ streams'[i].turn = (IF streams'[i].jobs = <<>> THEN "none" ELSE "P")
                 /\ streams'[i].jobs = <<>> => streams'[i].listens
<1>1. PICK s : s = Dequeued(i)
    OBVIOUS
<1>2. /\ streams[i].turn # "none" /\ s \in Stream /\ JobBlock(i) \in Block
      /\ s.listens = streams[i].listens
    BY <1>1, DequeuedIs DEF ProcessTransaction, JobStarts
<1>3. CASE reached' /\ current # 0
    <2>1. PICK t : t = JobWaits(s)
        OBVIOUS
    <2>2. /\ t \in Stream /\ SameLine(s, t) /\ SamePlace(s, t)
          /\ t.jobs = s.jobs /\ t.turn = "none" /\ t.listens = s.listens
        BY <1>2, <2>1, JobWaitsIs
    <2>3. /\ streams' = [streams EXCEPT ![i] = t]
          /\ immediates' = Append(immediates, <<i, streams[i].turn, JobBlock(i)>>)
        BY <1>1, <1>3, <2>1 DEF ProcessTransaction
    <2>4. Worked(i, streams') /\ streams'[i] = t
        BY <1>1, <1>2, <2>2, <2>3, WorkedIs
    <2> QED
        BY <1>2, <1>3, <2>2, <2>3, <2>4
<1>4. CASE ~ (reached' /\ current # 0)
    <2>1. PICK t : t = JobEnds(s, streams[i].turn)
        OBVIOUS
    <2>2. /\ t \in Stream /\ SameLine(s, t) /\ SamePlace(s, t) /\ t.jobs = s.jobs
          /\ t.turn = (IF t.jobs = <<>> THEN "none" ELSE "P")
          /\ t.jobs = <<>> => t.listens
        BY <1>2, <2>1, JobEndsIs
    <2>3. streams' = [streams EXCEPT ![i] = t] /\ UNCHANGED immediates
        BY <1>1, <1>4, <2>1 DEF ProcessTransaction
    <2>4. Worked(i, streams') /\ streams'[i] = t
        BY <1>1, <1>2, <2>2, <2>3, WorkedIs
    <2> QED
        BY <1>2, <1>4, <2>2, <2>3, <2>4
<1> QED
    BY <1>3, <1>4

LEMMA MerkleBlockProcessed ==
    ASSUME Typing, NEW i \in DOMAIN streams, ProcessMerkleBlock(i)
    PROVE  /\ JobBlock(i) \in Block /\ Worked(i, streams')
           /\ streams'[i].turn = (IF streams'[i].jobs = <<>> THEN "none" ELSE "P")
           /\ streams'[i].jobs = <<>> => streams'[i].listens
<1>1. PICK s : s = Dequeued(i)
    OBVIOUS
<1>2. streams[i].turn # "none" /\ s \in Stream /\ JobBlock(i) \in Block
    BY <1>1, DequeuedIs DEF ProcessMerkleBlock, JobStarts
<1>3. PICK t : t = JobEnds(s, streams[i].turn)
    OBVIOUS
<1>4. /\ t \in Stream /\ SameLine(s, t) /\ SamePlace(s, t) /\ t.jobs = s.jobs
      /\ t.turn = (IF t.jobs = <<>> THEN "none" ELSE "P")
      /\ t.jobs = <<>> => t.listens
    BY <1>2, <1>3, JobEndsIs
<1>5. streams' = [streams EXCEPT ![i] = t]
    BY <1>1, <1>3 DEF ProcessMerkleBlock
<1>6. Worked(i, streams') /\ streams'[i] = t
    BY <1>1, <1>2, <1>4, <1>5, WorkedIs
<1> QED
    BY <1>2, <1>4, <1>6

LEMMA FailedImportWorked ==
    ASSUME Typing, NEW i \in DOMAIN streams, ImportFails(i)
    PROVE  JobBlock(i) \in Block /\ Worked(i, streams')
<1>1. PICK s : s = Dequeued(i)
    OBVIOUS
<1>2. streams[i].turn # "none" /\ s \in Stream /\ JobBlock(i) \in Block
    BY <1>1, DequeuedIs DEF ImportFails, JobStarts
<1>3. PICK t : t = JobThrows(s, streams[i].turn)
    OBVIOUS
<1>4. t \in Stream /\ SameLine(s, t) /\ SamePlace(s, t) /\ t.jobs = s.jobs /\ t.turn = "none"
    BY <1>2, <1>3, JobThrowsIs
<1>5. streams' = [streams EXCEPT ![i] = t]
    BY <1>1, <1>3 DEF ImportFails
<1> QED
    BY <1>1, <1>2, <1>4, <1>5, WorkedIs

\* A job that cancels this.stream ends: the next of its queue starts.
LEMMA JobCancelled ==
    ASSUME Typing, JobCancels, current # 0
    PROVE  /\ CancelledLine(current, streams')
           /\ \A k \in DOMAIN streams :
                  \/ k # Head(immediates)[1] /\ SameQueue(streams[k], streams'[k])
                  \/ /\ k = Head(immediates)[1]
                     /\ streams'[k].turn = (IF streams[k].jobs = <<>> THEN "none" ELSE "P")
                     /\ streams[k].jobs = <<>> => streams'[k].listens
<1>1. streams \in Seq(Stream) /\ current \in DOMAIN streams
    BY DEF Typing, WireTyped
<1>2. PICK job : job = Head(immediates)
    OBVIOUS
<1>3. PICK less : less = CancelledStreams(current)
    OBVIOUS
<1>4. CancelledLine(current, less) /\ \A k \in DOMAIN streams : SameQueue(streams[k], less[k])
    BY <1>1, <1>3, CancelledIs
<1>5. streams' = [less EXCEPT ![job[1]] = JobEnds(less[job[1]], job[2])]
    BY <1>2, <1>3 DEF JobCancels
<1>6. less \in Seq(Stream) /\ Len(less) = Len(streams) /\ DOMAIN less = DOMAIN streams
    BY <1>4 DEF CancelledLine
<1>7. CASE job[1] \notin DOMAIN streams
    <2>1. streams' = less
        BY <1>5, <1>6, <1>7
    <2> QED
        BY <1>2, <1>4, <1>7, <2>1
<1>8. CASE job[1] \in DOMAIN streams
    <2>1. PICK j \in DOMAIN streams : j = job[1]
        BY <1>8
    <2>2. PICK t : t = JobEnds(less[j], job[2])
        OBVIOUS
    <2>3. /\ less[j] \in Stream /\ t \in Stream /\ SameLine(less[j], t) /\ SamePlace(less[j], t)
          /\ t.jobs = less[j].jobs
          /\ t.turn = (IF less[j].jobs = <<>> THEN "none" ELSE "P")
          /\ less[j].jobs = <<>> => t.listens
        BY <1>6, <2>1, <2>2, JobEndsIs
    <2>4. streams' = [less EXCEPT ![j] = t]
        BY <1>5, <2>1, <2>2
    <2>5. /\ streams' \in Seq(Stream) /\ Len(streams') = Len(less) /\ DOMAIN streams' = DOMAIN less
          /\ streams'[j] = t /\ \A k \in DOMAIN less : k # j => streams'[k] = less[k]
        BY ONLY <1>6, <2>1, <2>3, <2>4
    <2>6. CancelledLine(current, streams')
        BY <1>1, <1>4, <1>6, <2>1, <2>3, <2>5 DEF CancelledLine, SameLine, SamePlace
    <2>7. ASSUME NEW k \in DOMAIN streams
          PROVE  \/ k # j /\ SameQueue(streams[k], streams'[k])
                 \/ /\ k = j /\ streams'[k].turn = (IF streams[k].jobs = <<>> THEN "none" ELSE "P")
                    /\ streams[k].jobs = <<>> => streams'[k].listens
        <3>1. CASE k = j
            BY <1>4, <2>1, <2>3, <2>5, <3>1 DEF SameQueue
        <3>2. CASE k # j
            BY <1>4, <1>6, <2>5, <3>2
        <3> QED
            BY <3>1, <3>2
    <2> QED
        BY <1>2, <2>1, <2>6, <2>7
<1> QED
    BY <1>7, <1>8

LEMMA StopCancelled ==
    ASSUME Typing, StopCancels, current # 0
    PROVE  /\ current \in DOMAIN streams /\ CancelledLine(current, streams')
           /\ \A k \in DOMAIN streams : SameQueue(streams[k], streams'[k])
<1>1. current \in DOMAIN streams
    BY DEF Typing, WireTyped
<1>2. streams' = CancelledStreams(current)
    BY DEF StopCancels
<1> QED
    BY <1>1, <1>2, CancelledIs

\* Stream j has stopped to send, or has emitted its error.
LineSet(j, live, closing, new) ==
    /\ new \in Seq(Stream) /\ Len(new) = Len(streams) /\ DOMAIN new = DOMAIN streams
    /\ \A k \in DOMAIN streams :
           /\ SamePlace(streams[k], new[k]) /\ SameQueue(streams[k], new[k])
           /\ new[k].handled = streams[k].handled
           /\ new[k].upto = streams[k].upto /\ new[k].filter = streams[k].filter
           /\ k # j => new[k].live = streams[k].live /\ new[k].closing = streams[k].closing
    /\ new[j].live = live /\ new[j].closing = closing

LEMMA LineSetIs ==
    ASSUME Typing, NEW j \in DOMAIN streams, NEW live \in BOOLEAN, NEW closing \in BOOLEAN,
           NEW s, s = [streams[j] EXCEPT !.live = live, !.closing = closing],
           NEW new, new = [streams EXCEPT ![j] = s]
    PROVE  LineSet(j, live, closing, new)
<1>1. streams \in Seq(Stream) /\ streams[j] \in Stream
    BY DEF Typing, WireTyped
<1>2. /\ s \in Stream /\ SamePlace(streams[j], s) /\ SameQueue(streams[j], s)
      /\ s.handled = streams[j].handled /\ s.upto = streams[j].upto
      /\ s.filter = streams[j].filter /\ s.live = live /\ s.closing = closing
    BY <1>1 DEF Stream, SamePlace, SameQueue
<1>3. /\ new \in Seq(Stream) /\ Len(new) = Len(streams) /\ DOMAIN new = DOMAIN streams
      /\ new[j] = s /\ \A k \in DOMAIN streams : k # j => new[k] = streams[k]
    BY ONLY <1>1, <1>2, new = [streams EXCEPT ![j] = s], j \in DOMAIN streams
<1> QED
    BY <1>2, <1>3 DEF SamePlace, SameQueue, LineSet

LEMMA StreamEnded ==
    ASSUME Typing, NEW i \in DOMAIN streams, streams' = [streams EXCEPT ![i].live = FALSE]
    PROVE  LineSet(i, FALSE, streams[i].closing, streams')
<1>1. streams[i] \in Stream
    BY DEF Typing, WireTyped
<1>2. PICK s : s = [streams[i] EXCEPT !.live = FALSE, !.closing = streams[i].closing]
    OBVIOUS
<1>3. streams[i].closing \in BOOLEAN /\ streams' = [streams EXCEPT ![i] = s]
    BY <1>1, <1>2 DEF Stream
<1>4. PICK live \in BOOLEAN, closing \in BOOLEAN : live = FALSE /\ closing = streams[i].closing
    BY <1>3
<1>5. s = [streams[i] EXCEPT !.live = live, !.closing = closing]
    BY <1>2, <1>4
<1>6. LineSet(i, live, closing, streams')
    BY ONLY Typing, i \in DOMAIN streams, <1>3, <1>5, LineSetIs
<1> QED
    BY <1>4, <1>6

LEMMA ErrorEmitted ==
    ASSUME Typing, NEW i \in DOMAIN streams, CancelEmitsError(i)
    PROVE  LineSet(i, streams[i].live, FALSE, streams')
<1>1. streams[i] \in Stream
    BY DEF Typing, WireTyped
<1>2. PICK s : s = [streams[i] EXCEPT !.live = streams[i].live, !.closing = FALSE]
    OBVIOUS
<1>3. streams[i].live \in BOOLEAN /\ streams' = [streams EXCEPT ![i] = s]
    BY <1>1, <1>2 DEF Stream, CancelEmitsError
<1> QED
    BY <1>2, <1>3, LineSetIs

LEMMA LineSetTyped ==
    ASSUME Typing, UNCHANGED <<scenario, reached>>, current' \in {0, current},
           ending' \in SUBSET DOMAIN streams,
           NEW i, NEW live, NEW closing, LineSet(i, live, closing, streams')
    PROVE  WireTyped' /\ Len(streams') = Len(streams)
<1>1. \A k \in DOMAIN streams' : streams'[k].turn # "none" => streams'[k].jobs # <<>>
    BY DEF LineSet, SameQueue, Typing, WireTyped
<1> QED
    BY <1>1, SameScenario DEF LineSet, Typing, WireTyped

LEMMA StreamEndsTyped ==
    ASSUME Typing, NEW i \in DOMAIN streams, StreamEnds(i)
    PROVE  Typing'
<1>1. /\ WorldTyped' /\ UNCHANGED <<scenario, tip>>
      /\ UNCHANGED <<account, mode, pc, query, gaps, base, reached, metadata, control>>
    <2>1. CASE UNCHANGED world
        BY <2>1, UntouchedTyped DEF StreamEnds, world
    <2>2. CASE Incident("server")
        BY <2>2, IncidentAdds DEF StreamEnds, Typing
    <2> QED
        BY <2>1, <2>2 DEF StreamEnds
<1>2. LineSet(i, FALSE, streams[i].closing, streams')
    BY StreamEnded DEF StreamEnds
<1>3. /\ current' \in {0, current} /\ ending' \in SUBSET DOMAIN streams
      /\ outcome' \in {outcome, "gap", "end"}
    BY DEF StreamEnds, EndHandler, EndStream, Settle, Typing, WireTyped
<1>4. WireTyped' /\ Len(streams') = Len(streams)
    BY <1>1, <1>2, <1>3, LineSetTyped
<1> QED
    BY <1>1, <1>3, <1>4, SettledTyped

LEMMA EndingResumesTyped ==
    ASSUME Typing, NEW i \in DOMAIN streams, EndingResumes(i)
    PROVE  Typing'
<1>1. /\ UNCHANGED <<world, scenario, tip, streams>>
      /\ UNCHANGED <<account, mode, pc, query, gaps, base, reached, metadata, control>>
    BY DEF EndingResumes, world
<1>2. /\ current' \in {0, current} /\ ending' \in SUBSET DOMAIN streams
      /\ outcome' \in {outcome, "gap", "end"}
    BY DEF EndingResumes, EndStream, Settle, Typing, WireTyped
<1>3. WorldTyped' /\ WireTyped' /\ Len(streams') = Len(streams)
    BY <1>1, <1>2, UntouchedTyped, SameScenario DEF Typing, WireTyped
<1> QED
    BY <1>1, <1>2, <1>3, SettledTyped

LEMMA StreamFailsTyped ==
    ASSUME Typing, NEW i \in DOMAIN streams, NEW code \in Codes, StreamFails(i, code)
    PROVE  Typing'
<1>1. /\ WorldTyped' /\ UNCHANGED <<scenario, tip>>
      /\ UNCHANGED <<account, mode, pc, query, gaps, base, current, reached, ending, metadata, control>>
    BY IncidentAdds DEF StreamFails, Typing
<1>2. LineSet(i, FALSE, streams[i].closing, streams') /\ outcome' \in {outcome} \cup Codes
    BY StreamEnded DEF StreamFails, Settle
<1>3. WireTyped' /\ Len(streams') = Len(streams)
    BY <1>1, <1>2, LineSetTyped DEF Typing, WireTyped
<1> QED
    BY <1>1, <1>2, <1>3, SettledTyped

LEMMA CancelEmitsErrorTyped ==
    ASSUME Typing, NEW i \in DOMAIN streams, CancelEmitsError(i)
    PROVE  Typing'
<1>1. /\ UNCHANGED <<world, scenario, tip>>
      /\ UNCHANGED <<account, mode, pc, query, gaps, base, current, reached, ending, metadata, control>>
    BY DEF CancelEmitsError, world
<1>2. LineSet(i, streams[i].live, FALSE, streams') /\ outcome' \in {outcome, "CANCELLED"}
    BY ErrorEmitted DEF CancelEmitsError, Settle
<1>3. WorldTyped' /\ WireTyped' /\ Len(streams') = Len(streams)
    BY <1>1, <1>2, LineSetTyped, UntouchedTyped DEF Typing, WireTyped
<1> QED
    BY <1>1, <1>2, <1>3, SettledTyped

LEMMA WorkedTyped ==
    ASSUME Typing, UNCHANGED <<scenario, current, ending>>, reached' \in BOOLEAN,
           NEW i \in DOMAIN streams, Worked(i, streams')
    PROVE  WireTyped' /\ Len(streams') = Len(streams)
<1>1. \A k \in DOMAIN streams' : streams'[k].turn # "none" => streams'[k].jobs # <<>>
    BY DEF Worked, SameQueue, Typing, WireTyped
<1> QED
    BY <1>1, SameScenario DEF Worked, Typing, WireTyped

\* What is asked for once more, of a block that has been imported
LEMMA AskedTyped ==
    ASSUME Typing, UNCHANGED scenario, imported \subseteq imported', imported' \subseteq Block,
           NEW r \in Block \X Stages, r[1] \in imported', NEW n \in Nat,
           NEW q \in Block \X Stages, NEW m \in Nat, m <= requests[q],
           requests' = [requests EXCEPT ![q] = m, ![r] = n],
           pending' \in SUBSET Keys, described' \in SUBSET Block, unnoticed' \in BOOLEAN
    PROVE  MetadataTyped'
<1>1. requests \in [Block \X Stages -> Nat] /\ \A p \in Block \X Stages : requests[p] > 0 => p[1] \in imported
    BY DEF Typing, MetadataTyped
<1>2. requests' \in [Block \X Stages -> Nat]
    BY <1>1
<1>3. ASSUME NEW p \in Block \X Stages, requests'[p] > 0 PROVE p[1] \in imported'
    <2>1. CASE p = r
        BY <2>1
    <2>2. CASE p # r
        <3>1. requests[p] > 0
            BY <1>1, <1>3, <2>2
        <3> QED
            BY <1>1, <3>1
    <2> QED
        BY <2>1, <2>2
<1> QED
    BY <1>2, <1>3, SameScenario DEF MetadataTyped

LEMMA ProcessTransactionTyped ==
    ASSUME Typing, NEW i \in DOMAIN streams, ProcessTransaction(i)
    PROVE  Typing'
<1> DEFINE b == JobBlock(i)
           r == <<b, "tx">>
<1>1. /\ UNCHANGED <<scenario, tip, world, origin, hash, height, mode, pc, outcome, query, gaps, base,
                     current, ending, described, unnoticed, syncIncoming, stopping>>
      /\ imported' = imported \cup {b} /\ known' = Derived(b, known)
      /\ requests' = [requests EXCEPT ![r] = requests[r] + 1]
      /\ pending' = pending \cup {<<"tx", b>>}
      /\ reached' = ReachesGapLimit(b)
    BY DEF ProcessTransaction, world, frame
<1>2. /\ b \in Block /\ Worked(i, streams')
      /\ immediates' \in {immediates, Append(immediates, <<i, streams[i].turn, b>>)}
    BY TransactionProcessed
<1> HIDE DEF b
<1>3. known \in Nat /\ imported \in SUBSET Block /\ known' \in Nat /\ known' >= Gap
    <2>1. known \in Nat /\ known >= Gap /\ imported \in SUBSET Block /\ WorldTyped
        BY DEF Typing, AccountTyped
    <2>2. known' \in Nat /\ known' >= known
        BY <1>1, <1>2, <2>1, DerivedIs
    <2> QED
        BY <2>1, <2>2, ScenarioIs
<1>4. AccountTyped'
    BY <1>1, <1>2, <1>3, SameScenario DEF Typing, AccountTyped
<1>5. WireTyped' /\ Len(streams') = Len(streams)
    <2>1. reached' \in BOOLEAN
        BY <1>1 DEF ReachesGapLimit, Typing, WireTyped
    <2> QED
        BY <1>1, <1>2, <2>1, WorkedTyped
<1>6. MetadataTyped'
    <2>1. r \in Block \X Stages /\ requests[r] \in Nat /\ <<"tx", b>> \in Keys
        BY <1>2 DEF Stages, Keys, Typing, MetadataTyped
    <2>2. requests' = [requests EXCEPT ![r] = requests[r], ![r] = requests[r] + 1]
        BY <1>1, <2>1 DEF Typing, MetadataTyped
    <2>3. r[1] \in imported' /\ requests[r] + 1 \in Nat /\ requests[r] <= requests[r]
        BY <1>1, <2>1
    <2>4. pending' \in SUBSET Keys /\ described' \in SUBSET Block /\ unnoticed' \in BOOLEAN
        BY <1>1, <2>1 DEF Typing, MetadataTyped
    <2>5. imported \subseteq imported' /\ imported' \subseteq Block
        BY <1>1, <1>2, <1>3
    <2> HIDE DEF r
    <2> QED
        BY <1>1, <2>1, <2>2, <2>3, <2>4, <2>5, AskedTyped
<1>7. ControlTyped'
    <2>1. streams \in Seq(Stream) /\ streams[i] \in Stream
        BY DEF Typing, WireTyped
    <2>2. <<i, streams[i].turn, b>> \in Callbacks(Len(streams), Len(Chain))
        <3>1. i \in 0..Len(streams)
            BY <2>1
        <3>2. streams[i].turn \in {"none", "E", "P", "found"}
            BY <2>1 DEF Stream
        <3>3. b \in 0..Len(Chain)
            BY <1>2, ScenarioIs DEF Typing
        <3> QED
            BY <3>1, <3>2, <3>3 DEF Callbacks
    <2>3. PICK calls : calls = Callbacks(Len(streams), Len(Chain))
        OBVIOUS
    <2>4. PICK call \in calls : call = <<i, streams[i].turn, b>>
        BY <2>2, <2>3
    <2>5. immediates' \in Seq(Callbacks(Len(streams), Len(Chain)))
        <3>1. immediates \in Seq(calls)
            BY <2>3 DEF Typing, ControlTyped
        <3>2. immediates' \in {immediates, Append(immediates, call)}
            BY <1>2, <2>4
        <3>3. Append(immediates, call) \in Seq(calls)
            BY <2>4, <3>1, AppendProperties
        <3>4. immediates' \in Seq(calls)
            BY <3>1, <3>2, <3>3
        <3> QED
            BY <2>3, <3>4
    <2>6. syncIncoming' \in BOOLEAN /\ stopping' \in {"no", "waiting", "scheduled", "stopped"}
        BY <1>1 DEF Typing, ControlTyped
    <2> QED
        BY <1>1, <1>5, <2>5, <2>6, SameScenario DEF ControlTyped
<1>8. WorldTyped' /\ FrameTyped'
    BY <1>1, UntouchedTyped DEF frame
<1> QED
    BY <1>4, <1>5, <1>6, <1>7, <1>8 DEF Typing

LEMMA ImportFailsTyped ==
    ASSUME Typing, NEW i \in DOMAIN streams, ImportFails(i)
    PROVE  Typing'
<1>1. /\ WorldTyped' /\ UNCHANGED <<scenario, tip>>
      /\ UNCHANGED <<origin, known, hash, height, mode, pc, query, gaps, base, current, reached,
                     ending, metadata, described, requests, pending, unnoticed, control>>
      /\ imported' = imported \cup {JobBlock(i)} /\ outcome' \in {outcome, "FATAL"}
    BY IncidentAdds DEF ImportFails, Settle, metadata, Typing
<1>2. JobBlock(i) \in Block /\ Worked(i, streams')
    BY FailedImportWorked
<1>3. WireTyped' /\ Len(streams') = Len(streams)
    BY <1>1, <1>2, WorkedTyped DEF Typing, WireTyped
<1>4. AccountTyped'
    BY <1>1, <1>2, SameScenario DEF Typing, AccountTyped
<1>5. FrameTyped'
    BY <1>1, SameScenario DEF Typing, FrameTyped, Codes
<1>6. MetadataTyped'
    BY <1>1, SameScenario DEF Typing, MetadataTyped
<1>7. ControlTyped'
    BY <1>1, <1>3, UntouchedTyped
<1> QED
    BY <1>1, <1>3, <1>4, <1>5, <1>6, <1>7 DEF Typing

LEMMA ProcessMerkleBlockTyped ==
    ASSUME Typing, NEW i \in DOMAIN streams, ProcessMerkleBlock(i)
    PROVE  Typing'
<1>1. /\ UNCHANGED <<scenario, tip, world, origin, known, imported, height, frame, current, reached,
                     ending, metadata, control>>
      /\ hash' \in {hash, JobBlock(i)}
    BY DEF ProcessMerkleBlock, world
<1>2. JobBlock(i) \in Block /\ Worked(i, streams')
    BY MerkleBlockProcessed
<1>3. WireTyped' /\ Len(streams') = Len(streams)
    BY <1>1, <1>2, WorkedTyped DEF Typing, WireTyped
<1>4. AccountTyped'
    BY <1>1, <1>2, SameScenario, ScenarioIs DEF Typing, AccountTyped
<1> QED
    BY <1>1, <1>3, <1>4, UntouchedTyped DEF Typing

LEMMA JobCancelsTyped ==
    ASSUME Typing, JobCancels
    PROVE  Typing'
<1>1. /\ UNCHANGED <<scenario, tip, browser, incidents, account, mode, pc, query, gaps, base, reached,
                     metadata, syncIncoming, stopping>>
      /\ immediates # <<>> /\ immediates' = Tail(immediates)
    BY DEF JobCancels
<1>2. CASE current = 0
    <2>1. uncaught' = TRUE /\ UNCHANGED <<streams, current, outcome, ending>>
        BY <1>2 DEF JobCancels
    <2>2. WorldTyped'
        BY <1>1, <2>1, SameScenario DEF Typing, WorldTyped, Happened
    <2>3. AccountTyped' /\ MetadataTyped' /\ FrameTyped' /\ WireTyped'
        BY <1>1, <2>1, UntouchedTyped DEF frame, wire, account
    <2>4. ControlTyped'
        BY <1>1, <2>1, SameScenario DEF Typing, ControlTyped
    <2> QED
        BY <2>2, <2>3, <2>4 DEF Typing
<1>3. CASE current # 0
    <2>1. CancelledLine(current, streams') /\ current \in DOMAIN streams
        BY <1>3, JobCancelled DEF Typing, WireTyped
    <2>2. /\ outcome' \in {outcome, "CANCELLED"} /\ current' \in {0, current}
          /\ ending' \in {ending, ending \cup {current}} /\ uncaught' = uncaught
        BY <1>3 DEF JobCancels, HandlersCalled, Settle
    <2>3. \A k \in DOMAIN streams' : streams'[k].turn # "none" => streams'[k].jobs # <<>>
        BY <1>3, <2>1, JobCancelled DEF CancelledLine, SameQueue, Typing, WireTyped
    <2>4. streams' \in Seq(Stream) /\ Len(streams') = Len(streams) /\ DOMAIN streams' = DOMAIN streams
        BY <2>1 DEF CancelledLine
    <2>5. WireTyped'
        BY <1>1, <2>1, <2>2, <2>3, <2>4, SameScenario DEF Typing, WireTyped
    <2>6. WorldTyped' /\ AccountTyped' /\ MetadataTyped'
        BY <1>1, <2>2, UntouchedTyped DEF world, account
    <2>7. FrameTyped'
        BY <1>1, <2>2, SameScenario DEF Typing, FrameTyped
    <2>8. ControlTyped'
        BY <1>1, <2>4, SameScenario DEF Typing, ControlTyped
    <2> QED
        BY <2>5, <2>6, <2>7, <2>8 DEF Typing
<1> QED
    BY <1>2, <1>3

LEMMA TransactionAnsweredTyped ==
    ASSUME Typing, NEW b \in Block, TransactionAnswered(b)
    PROVE  Typing'
<1>1. /\ UNCHANGED <<scenario, tip, world, account, imported, frame, wire, streams, described,
                     unnoticed, control>>
      /\ requests[<<b, "tx">>] > 0
    BY DEF TransactionAnswered, account, wire, world
<1>2. /\ <<b, "tx">> \in Block \X Stages /\ <<b, "header">> \in Block \X Stages
      /\ <<b, "delayed">> \in Block \X Stages /\ <<"header", b>> \in Keys
      /\ requests \in [Block \X Stages -> Nat]
      /\ pending \in SUBSET Keys /\ described \in SUBSET Block /\ unnoticed \in BOOLEAN
      /\ imported \in SUBSET Block /\ b \in imported
    BY <1>1 DEF Stages, Keys, Typing, MetadataTyped, AccountTyped
<1>3. requests[<<b, "tx">>] - 1 \in Nat /\ requests[<<b, "tx">>] - 1 <= requests[<<b, "tx">>]
    BY <1>1, <1>2
<1>4. MetadataTyped'
    <2>1. PICK r \in {<<b, "header">>, <<b, "delayed">>} :
              requests' = [requests EXCEPT ![<<b, "tx">>] = requests[<<b, "tx">>] - 1, ![r] = requests[r] + 1]
        BY <1>2 DEF TransactionAnswered
    <2>2. r \in Block \X Stages /\ r[1] \in imported' /\ requests[r] + 1 \in Nat
        BY <1>1, <1>2, <2>1
    <2>3. pending' \in SUBSET Keys /\ described' \in SUBSET Block /\ unnoticed' \in BOOLEAN
        BY <1>1, <1>2 DEF TransactionAnswered
    <2> QED
        BY <1>1, <1>2, <1>3, <2>1, <2>2, <2>3, AskedTyped
<1> QED
    BY <1>1, <1>4, UntouchedTyped DEF Typing

LEMMA HeaderAnsweredTyped ==
    ASSUME Typing, NEW b \in Block, HeaderAnswered(b)
    PROVE  Typing'
<1>0. WorldTyped' /\ UNCHANGED <<scenario, tip>>
    <2>1. CASE Incident("answer")
        BY <2>1, IncidentAdds DEF Typing
    <2>2. CASE UNCHANGED world
        <3>1. UNCHANGED <<scenario, tip>>
            BY <2>2 DEF world
        <3> QED
            BY <2>2, <3>1, UntouchedTyped
    <2> QED
        BY <2>1, <2>2 DEF HeaderAnswered
<1>1. /\ UNCHANGED <<scenario, tip, origin, imported, height, frame, wire, streams, control>>
      /\ requests[<<b, "header">>] > 0
      /\ requests' = [requests EXCEPT ![<<b, "header">>] = requests[<<b, "header">>] - 1]
      /\ pending' = pending \ KeysOf(b) /\ described' = described \cup {b}
      /\ hash' = b /\ known' = Derived(b, known)
      /\ unnoticed' = (unnoticed \/ known' > known)
    BY <1>0 DEF HeaderAnswered, wire
<1>2. /\ known \in Nat /\ known >= Gap /\ WorldTyped /\ requests \in [Block \X Stages -> Nat]
      /\ pending \in SUBSET Keys /\ described \in SUBSET Block /\ unnoticed \in BOOLEAN
      /\ \A r \in Block \X Stages : requests[r] > 0 => r[1] \in imported
    BY DEF Typing, AccountTyped, MetadataTyped
<1>3. known' \in Nat /\ known' >= known /\ b \in 0..Len(Chain) /\ Gap \in Nat
    BY <1>1, <1>2, DerivedIs, ScenarioIs
<1>4. AccountTyped'
    <2>1. known' >= Gap
        BY <1>2, <1>3
    <2> QED
        BY <1>1, <1>3, <2>1, SameScenario DEF Typing, AccountTyped
<1>5. MetadataTyped'
    <2>1. <<b, "header">> \in Block \X Stages
        BY DEF Stages
    <2>2. PICK n \in Nat : n = requests[<<b, "header">>] - 1 /\ n <= requests[<<b, "header">>]
        BY <1>1, <1>2, <2>1
    <2>3. requests' = [requests EXCEPT ![<<b, "header">>] = n]
        BY <1>1, <2>2
    <2>4. /\ requests' \in [Block \X Stages -> Nat]
          /\ \A r \in Block \X Stages : requests'[r] > 0 => r[1] \in imported
        BY ONLY <1>2, <2>1, <2>2, <2>3
    <2>5. pending' \in SUBSET Keys /\ described' \in SUBSET Block /\ unnoticed' \in BOOLEAN
        BY <1>1, <1>2
    <2> QED
        BY <1>1, <2>4, <2>5, SameScenario DEF MetadataTyped
<1> QED
    BY <1>0, <1>1, <1>4, <1>5, UntouchedTyped DEF Typing

LEMMA RequestFailsTyped ==
    ASSUME Typing, NEW b \in Block, NEW stage \in Stages, RequestFails(b, stage)
    PROVE  Typing'
<1>1. /\ WorldTyped' /\ UNCHANGED <<scenario, tip>>
      /\ UNCHANGED <<account, imported, frame, wire, streams, described, pending, unnoticed, control>>
      /\ requests' = [requests EXCEPT ![<<b, stage>>] = requests[<<b, stage>>] - 1]
      /\ requests[<<b, stage>>] > 0
    BY IncidentAdds DEF RequestFails, account, wire, Typing
<1>2. /\ requests \in [Block \X Stages -> Nat] /\ <<b, stage>> \in Block \X Stages
      /\ \A r \in Block \X Stages : requests[r] > 0 => r[1] \in imported
    BY DEF Typing, MetadataTyped
<1>3. PICK n \in Nat : n = requests[<<b, stage>>] - 1 /\ n <= requests[<<b, stage>>]
    BY <1>1, <1>2
<1>4. requests' = [requests EXCEPT ![<<b, stage>>] = n]
    BY <1>1, <1>3
<1>5. /\ requests' \in [Block \X Stages -> Nat]
      /\ \A r \in Block \X Stages : requests'[r] > 0 => r[1] \in imported
    BY ONLY <1>2, <1>3, <1>4
<1>6. MetadataTyped'
    BY <1>1, <1>5, SameScenario DEF Typing, MetadataTyped
<1> QED
    BY <1>1, <1>6, UntouchedTyped DEF Typing

LEMMA MineTyped ==
    ASSUME Typing, Mine
    PROVE  Typing'
<1>1. /\ UNCHANGED <<scenario, browser, incidents, uncaught, account, imported, frame, wire, streams,
                     described, unnoticed, control>>
      /\ tip' = tip + 1 /\ tip < Len(Chain)
    BY DEF Mine, account, wire
<1>2. tip \in Block /\ Block = 1..Len(Chain) /\ Len(Chain) \in Nat /\ tip' \in Block
    BY <1>1, ScenarioIs DEF Typing, WorldTyped
<1>3. WorldTyped'
    BY <1>1, <1>2, SameScenario DEF Typing, WorldTyped, Happened
<1>4. FrameTyped'
    <2>1. base \in 0..tip' /\ query \in Query /\ query.best <= tip'
        BY <1>1, <1>2 DEF Typing, FrameTyped, Query
    <2> QED
        BY <1>1, <2>1, SameScenario DEF Typing, FrameTyped, frame
<1>5. /\ requests \in [Block \X Stages -> Nat] /\ pending \in SUBSET Keys
      /\ \A r \in Block \X Stages : requests[r] > 0 => r[1] \in imported
    BY DEF Typing, MetadataTyped
<1>6. /\ requests' \in [Block \X Stages -> Nat]
      /\ \A r \in Block \X Stages : requests'[r] > 0 => requests[r] > 0 \/ requests[<<r[1], "delayed">>] > 0
    <2> DEFINE Asked(r) ==
            CASE r[2] = "tx" -> requests[r] + requests[<<r[1], "delayed">>]
              [] r[2] = "header" -> requests[r]
              [] r[2] = "delayed" -> 0
    <2>1. requests' = [r \in Block \X Stages |-> Asked(r)]
        BY DEF Mine
    <2>2. ASSUME NEW r \in Block \X Stages
          PROVE  /\ requests'[r] \in Nat
                 /\ requests'[r] > 0 => requests[r] > 0 \/ requests[<<r[1], "delayed">>] > 0
        <3>1. requests[r] \in Nat /\ requests[<<r[1], "delayed">>] \in Nat
            BY <1>5 DEF Stages
        <3>2. CASE r[2] = "tx"
            BY <2>1, <3>1, <3>2
        <3>3. CASE r[2] = "header"
            BY <2>1, <3>1, <3>3
        <3>4. CASE r[2] = "delayed"
            BY <2>1, <3>1, <3>4
        <3>5. r[2] \in {"tx", "header", "delayed"}
            BY DEF Stages
        <3> QED
            BY <3>2, <3>3, <3>4, <3>5
    <2> HIDE DEF Asked
    <2>3. requests' = [r \in Block \X Stages |-> requests'[r]]
        BY <2>1
    <2> QED
        BY <2>2, <2>3
<1>7. pending' \in SUBSET Keys
    <2> DEFINE asked == {c \in Block : requests[<<c, "delayed">>] > 0}
    <2>1. asked \subseteq Block
        OBVIOUS
    <2>2. pending' = pending \cup {<<"tx", b>> : b \in asked}
        BY DEF Mine
    <2> HIDE DEF asked
    <2> QED
        BY <1>5, <2>1, <2>2 DEF Keys
<1>8. MetadataTyped'
    <2>1. ASSUME NEW r \in Block \X Stages, requests'[r] > 0 PROVE r[1] \in imported
        <3>1. <<r[1], "delayed">> \in Block \X Stages
            BY DEF Stages
        <3> QED
            BY <1>5, <1>6, <2>1, <3>1
    <2> QED
        BY <1>1, <1>6, <1>7, <2>1, SameScenario DEF Typing, MetadataTyped
<1> QED
    BY <1>1, <1>3, <1>4, <1>8, UntouchedTyped DEF Typing

LEMMA StopGoesOnTyped ==
    ASSUME Typing, StopGoesOn, UNCHANGED scenario, Len(streams') = Len(streams)
    PROVE  ControlTyped'
<1>1. PICK call : call = OfStop(current # 0)
    OBVIOUS
<1>2. call \in Callbacks(Len(streams), Len(Chain))
    <2>1. Len(streams) \in Nat /\ Len(Chain) \in Nat
        BY ScenarioIs DEF Typing, WireTyped
    <2> QED
        BY <1>1, <2>1 DEF OfStop, Callbacks
<1>3. immediates \in Seq(Callbacks(Len(streams), Len(Chain))) /\ immediates' = Append(immediates, call)
    BY <1>1 DEF Typing, ControlTyped, StopGoesOn
<1>4. immediates' \in Seq(Callbacks(Len(streams), Len(Chain)))
    BY <1>2, <1>3
<1> QED
    BY <1>4, SameScenario DEF ControlTyped, StopGoesOn

LEMMA StopTyped ==
    ASSUME Typing, NEW force \in BOOLEAN, Stop(force)
    PROVE  Typing'
<1>1. /\ WorldTyped' /\ UNCHANGED <<scenario, tip>>
      /\ UNCHANGED <<account, imported, frame, wire, streams, described, requests, unnoticed>>
      /\ pending' \subseteq pending
    BY IncidentAdds DEF Stop, account, wire, Typing
<1>2. ControlTyped'
    <2>1. CASE StopGoesOn
        BY <1>1, <2>1, StopGoesOnTyped
    <2>2. CASE stopping' = "waiting" /\ UNCHANGED <<syncIncoming, immediates>>
        BY <1>1, <2>2, SameScenario DEF Typing, ControlTyped
    <2> QED
        BY <2>1, <2>2 DEF Stop
<1>3. MetadataTyped'
    BY <1>1, SameScenario DEF Typing, MetadataTyped
<1> QED
    BY <1>1, <1>2, <1>3, UntouchedTyped DEF Typing

LEMMA StopResumesTyped ==
    ASSUME Typing, StopResumes
    PROVE  Typing'
<1>1. UNCHANGED <<scenario, tip, imported, streams, world, account, frame, wire, metadata>>
    BY DEF StopResumes, account, wire, world
<1>2. ControlTyped'
    BY <1>1, StopGoesOnTyped DEF StopResumes
<1> QED
    BY <1>1, <1>2, UntouchedTyped DEF Typing

LEMMA StopCancelsTyped ==
    ASSUME Typing, StopCancels
    PROVE  Typing'
<1>1. /\ UNCHANGED <<scenario, tip, world, account, imported, mode, pc, query, gaps, base, reached,
                     metadata, syncIncoming>>
      /\ immediates # <<>> /\ immediates' = Tail(immediates) /\ stopping' = "stopped" /\ current' = 0
      /\ outcome' \in {outcome, "CANCELLED"} /\ ending' \in {ending, ending \cup {current}}
    BY DEF StopCancels, Settle, world, account
<1>2. WireTyped' /\ Len(streams') = Len(streams)
    <2>1. CASE current = 0
        <3>1. UNCHANGED <<streams, ending>>
            BY <2>1 DEF StopCancels
        <3> QED
            BY <1>1, <3>1, SameScenario DEF Typing, WireTyped
    <2>2. CASE current # 0
        <3>1. current \in DOMAIN streams
            BY <2>2 DEF Typing, WireTyped
        <3>2. CancelledLine(current, streams') /\ \A k \in DOMAIN streams : SameQueue(streams[k], streams'[k])
            BY <2>2, StopCancelled
        <3>3. \A k \in DOMAIN streams' : streams'[k].turn # "none" => streams'[k].jobs # <<>>
            BY <3>2 DEF CancelledLine, SameQueue, Typing, WireTyped
        <3> QED
            BY <1>1, <3>1, <3>2, <3>3, SameScenario DEF CancelledLine, Typing, WireTyped
    <2> QED
        BY <2>1, <2>2
<1>3. FrameTyped'
    BY <1>1, SameScenario DEF Typing, FrameTyped
<1>4. ControlTyped'
    BY <1>1, <1>2, SameScenario DEF Typing, ControlTyped
<1> QED
    BY <1>1, <1>2, <1>3, <1>4, UntouchedTyped DEF Typing

LEMMA InitTyped ==
    ASSUME Init
    PROVE  Typing
<1>1. /\ tip = Scenarios[scenario].firstTip /\ origin = 0 /\ known = Gap /\ imported = {} /\ hash = 0
      /\ height = 0 /\ requests = [r \in Block \X Stages |-> 0] /\ streams = <<>> /\ immediates = <<>>
      /\ query = [start |-> 0, best |-> 0, from |-> 0, upto |-> 0, filter |-> 0]
    BY DEF Init
<1>2. /\ scenario \in DOMAIN Scenarios /\ Scenarios[scenario] \in Range(Scenarios)
      /\ browser \in Scenarios[scenario].browsers
    BY DEF Init, Range
<1>3. tip \in Block /\ browser \in BOOLEAN /\ Chain \in Seq(SUBSET Nat) /\ Gap \in Nat
    BY <1>1, <1>2, SyncAssumption DEF Chain, Block
<1>4. Block = 1..Len(Chain) /\ Len(Chain) \in Nat /\ 0 \in 0..tip /\ 0 \in 0..Len(Chain) /\ tip >= 0
    BY <1>3 DEF Block
<1>5. IsABag(incidents) /\ Happened = {}
    <2>1. incidents = [e \in {} |-> 1]
        BY DEF Init, EmptyBag, SetToBag
    <2>2. DOMAIN incidents = {} /\ incidents \in [{} -> {n \in Nat : n > 0}]
        BY <2>1
    <2> QED
        BY <2>2 DEF IsABag, Happened, BagToSet
<1>6. WorldTyped
    BY <1>2, <1>3, <1>5 DEF Init, WorldTyped, Happened
<1>7. AccountTyped
    <2>1. imported \in SUBSET Block /\ known \in Nat /\ known >= Gap
        BY <1>1, <1>3
    <2>2. origin \in 0..Len(Chain) /\ hash \in 0..Len(Chain) /\ height \in 0..Len(Chain)
        BY <1>1, <1>4
    <2> QED
        BY <2>1, <2>2 DEF AccountTyped
<1>8. FrameTyped
    <2>1. 0 \in 0..Len(Chain) /\ 0 \in Nat /\ 0 \in Int
        BY <1>4
    <2>2. query \in Query /\ query.best <= tip
        BY <1>1, <1>4, <2>1 DEF Query
    <2>3. /\ mode = "new" /\ pc = "none" /\ outcome = "pending" /\ gaps = 0 /\ base \in 0..tip
        BY <1>4 DEF Init
    <2> QED
        BY <2>2, <2>3 DEF FrameTyped
<1>9. WireTyped
    <2>1. streams \in Seq(Stream) /\ Len(streams) = 0 /\ DOMAIN streams = {}
        BY <1>1
    <2>2. ending = {} /\ reached \in BOOLEAN /\ current \in 0..Len(streams)
        <3>1. current = 0 /\ reached \in BOOLEAN /\ ending = {}
            BY DEF Init
        <3> QED
            BY <2>1, <3>1
    <2>3. \A i \in DOMAIN streams : streams[i].turn # "none" => streams[i].jobs # <<>>
        BY <2>1
    <2> QED
        BY <2>1, <2>2, <2>3 DEF WireTyped
<1>10. MetadataTyped
    <2>1. described = {} /\ pending = {} /\ unnoticed = FALSE
        BY DEF Init
    <2>2. requests \in [Block \X Stages -> Nat] /\ \A r \in Block \X Stages : ~ (requests[r] > 0)
        BY <1>1
    <2> QED
        BY <2>1, <2>2 DEF MetadataTyped
<1>11. ControlTyped
    <2>1. <<>> \in Seq(Callbacks(Len(streams), Len(Chain)))
        OBVIOUS
    <2> QED
        BY <1>1, <2>1 DEF Init, ControlTyped
<1> QED
    BY <1>6, <1>7, <1>8, <1>9, <1>10, <1>11 DEF Typing

-----------------------------------------------------------------------------
(* The frame *)

\* The frame has gone on to await something else, or nothing.
Resumed ==
    /\ mode' \in {"historical", "incoming", "over"} /\ pc' \in {"best", "subscribe", "none"}
    /\ mode' = "over" <=> pc' = "none"
    /\ outcome' = "pending" /\ current' = 0
    /\ StartHistorical \/ (\E h : StartIncoming(h)) \/ Over

LEMMA CatchesResumes ==
    ASSUME NEW code, Catches(code)
    PROVE  Resumed
BY DEF Catches, HistoricalCatches, HistoricalFails, HistoricalReturns, HistoricalRejects,
       HistoricalRestarts, IncomingCatches, StartHistorical, StartIncoming, Over, Resumed

LEMMA StartResumes ==
    ASSUME FrameOK, NEW all \in BOOLEAN, NEW h, Start(all, h)
    PROVE  Resumed /\ streams' = streams /\ pc # "stream"
BY DEF FrameOK, Start, HistoricalReturns, StartHistorical, StartIncoming, Resumed, wire

LEMMA BestHeightFailsResumes ==
    ASSUME FrameOK, NEW code, BestHeightFails(code)
    PROVE  Resumed /\ streams' = streams /\ pc # "stream"
<1>1. CASE gaps = 0 /\ Over /\ UNCHANGED current
    BY <1>1 DEF FrameOK, BestHeightFails, Over, Resumed
<1>2. CASE current' = 0 /\ HistoricalFails(base)
    BY <1>2 DEF BestHeightFails, HistoricalFails, HistoricalReturns, HistoricalRejects, StartIncoming,
                Over, Resumed
<1>3. CASE current' = 0 /\ StartHistorical
    BY <1>3 DEF BestHeightFails, StartHistorical, Resumed
<1> QED
    BY <1>1, <1>2, <1>3 DEF BestHeightFails

LEMMA SubscriptionFailsResumes ==
    ASSUME NEW code, SubscriptionFails(code)
    PROVE  Resumed /\ streams' = streams /\ pc # "stream"
BY CatchesResumes DEF SubscriptionFails

LEMMA ContinueResumes ==
    ASSUME FrameOK, Continue
    PROVE  Resumed /\ streams' = streams /\ pc = "stream" /\ outcome # "pending"
<1>1. CASE outcome \in {"gap", "end"}
    <2>1. current' = 0 /\ streams' = streams /\ pc = "stream"
        BY <1>1 DEF FrameOK, Continue, Codes
    <2>2. \/ StartHistorical
          \/ HistoricalReturns(LastSet(query.best))
          \/ mode = "incoming" /\ StartIncoming(height)
          \/ Over
        BY <1>1 DEF Continue, Codes
    <2> QED
        BY <1>1, <2>1, <2>2 DEF StartHistorical, HistoricalReturns, StartIncoming, Over, Resumed
<1>2. CASE outcome \in Codes \cup {"CANCELLED"}
    BY <1>2, CatchesResumes DEF Continue, Codes
<1> QED
    BY <1>1, <1>2 DEF Continue

LEMMA FrameResumed ==
    ASSUME Typing, FrameOK, Resumed, streams' = streams
    PROVE  FrameOK'
<1>1. pc' = "best" => mode' = "historical"
    BY DEF Resumed, StartHistorical, StartIncoming, Over
<1> QED
    BY <1>1 DEF FrameOK, Resumed

\* A step of another actor, once the worker has started
LEMMA FrameStands ==
    ASSUME Typing, FrameOK, mode # "new", UNCHANGED <<mode, pc>>,
           Len(streams') = Len(streams), DOMAIN streams' = DOMAIN streams, streams' \in Seq(Stream),
           \A k \in DOMAIN streams : streams'[k].handled = streams[k].handled,
           outcome' = outcome \/ pc = "stream",
           current' \in {0, current}, outcome' \in {"gap", "end"} => current' = 0
    PROVE  FrameOK'
<1>1. streams \in Seq(Stream)
    BY DEF Typing, WireTyped
<1>2. pc' = "stream" => streams' # <<>>
    <2>1. streams # <<>> => Len(streams) # 0
        BY <1>1
    <2> QED
        BY <2>1 DEF FrameOK
<1>3. \A k \in DOMAIN streams' : streams'[k].handled
    BY DEF FrameOK
<1> QED
    BY <1>2, <1>3 DEF FrameOK

LEMMA SomeStream ==
    ASSUME Typing, FrameOK, NEW i \in DOMAIN streams
    PROVE  mode # "new" /\ streams # <<>>
<1>1. streams # <<>>
    OBVIOUS
<1> QED
    BY <1>1 DEF FrameOK

\* Settling the awaited promise
LEMMA SettleIs ==
    ASSUME NEW i, NEW result, Settle(i, result)
    PROVE  /\ outcome' \in {outcome, result}
           /\ outcome' # outcome => pc = "stream" /\ outcome = "pending" /\ i = Len(streams)
           /\ Awaited(i) => outcome' = result
           /\ ~ Awaited(i) => outcome' = outcome
BY DEF Settle, Awaited

\* The steps, one by one
Step ==
    \/ \E all \in BOOLEAN, h \in Scenarios[scenario].skipBefore : Start(all, h)
    \/ BestHeightAnswered
    \/ \E code \in Codes : BestHeightFails(code)
    \/ Subscribed
    \/ \E code \in Codes : SubscriptionFails(code)
    \/ Continue
    \/ \E i \in DOMAIN streams : \/ ReceiveTransaction(i)
                               \/ ReceiveMerkleBlock(i)
                               \/ \E b \in Block : ReceiveUnmined(i, b)
    \/ \E i \in DOMAIN streams : StreamEnds(i)
    \/ \E i \in DOMAIN streams : EndingResumes(i)
    \/ \E i \in DOMAIN streams, code \in Codes : StreamFails(i, code)
    \/ \E i \in DOMAIN streams : CancelEmitsError(i)
    \/ \E i \in DOMAIN streams : ProcessTransaction(i) \/ ProcessMerkleBlock(i) \/ ImportFails(i)
    \/ JobCancels
    \/ \E b \in Block : \/ TransactionAnswered(b)
                       \/ HeaderAnswered(b)
                       \/ \E stage \in Stages : RequestFails(b, stage)
    \/ Mine
    \/ StopResumes \/ \E force \in BOOLEAN : Stop(force)
    \/ StopCancels

LEMMA NextIs ==
    ASSUME Typing, Next
    PROVE  Step
<1>1. Scenarios[scenario].skipAll \subseteq BOOLEAN /\ Stops \subseteq BOOLEAN
    <2>1. Scenarios[scenario] \in Range(Scenarios)
        BY DEF Typing, WorldTyped, Range
    <2> QED
        BY <2>1, SyncAssumption
<1>2. Starting => Step
    BY <1>1 DEF Starting, Step
<1>3. (\E force \in Stops : Stop(force)) => Step
    BY <1>1 DEF Step
<1>4. Frame \/ Streams \/ Jobs \/ Requests \/ Stopping \/ Mine \/ Failures
      \/ (\E i \in DOMAIN streams, b \in Block : ReceiveUnmined(i, b)) => Step
    BY DEF Frame, Streams, Jobs, Requests, Stopping, Failures, Step
<1> QED
    BY <1>2, <1>3, <1>4 DEF Next, Users

LEMMA FrameKept ==
    ASSUME Typing, FrameOK, Next
    PROVE  FrameOK'
<1> USE DEF wire, frame, account, metadata, control, world
<1>1. ASSUME NEW all \in BOOLEAN, NEW h, Start(all, h) PROVE FrameOK'
    BY <1>1, StartResumes, FrameResumed
<1>2. CASE BestHeightAnswered
    BY <1>2 DEF BestHeightAnswered, FrameOK
<1>3. ASSUME NEW code, BestHeightFails(code) PROVE FrameOK'
    BY <1>3, BestHeightFailsResumes, FrameResumed
<1>4. CASE Subscribed
    <2>1. /\ current = 0 /\ current' = Len(streams) + 1 /\ pc' = "stream" /\ pc = "subscribe"
          /\ UNCHANGED <<mode, outcome>> /\ outcome = "pending"
        BY <1>4 DEF Subscribed, FrameOK
    <2>2. /\ streams' \in Seq(Stream) /\ Len(streams') = Len(streams) + 1
          /\ DOMAIN streams' = 1..(Len(streams) + 1) /\ DOMAIN streams = 1..Len(streams)
          /\ streams'[Len(streams) + 1] = Opened
          /\ \A k \in DOMAIN streams : streams'[k] = streams[k]
        BY <1>4, SubscribedOpens
    <2>3. PICK n \in Nat : n = Len(streams)
        BY DEF Typing, WireTyped
    <2>4. Opened.handled
        BY <2>1 DEF Opened
    <2>5. \A k \in DOMAIN streams' : streams'[k].handled
        BY <2>2, <2>3, <2>4 DEF FrameOK
    <2>6. streams' # <<>> /\ current' = Len(streams')
        BY <2>1, <2>2, <2>3
    <2> QED
        BY <2>1, <2>5, <2>6 DEF FrameOK
<1>5. ASSUME NEW code, SubscriptionFails(code) PROVE FrameOK'
    BY <1>5, SubscriptionFailsResumes, FrameResumed
<1>6. CASE Continue
    BY <1>6, ContinueResumes, FrameResumed
<1>7. ASSUME NEW i \in DOMAIN streams,
             \/ ReceiveTransaction(i)
             \/ ReceiveMerkleBlock(i)
             \/ \E b \in Block : ReceiveUnmined(i, b)
      PROVE  FrameOK'
    <2>1. \E chunk : Handed(i, chunk, streams')
        BY <1>7, TransactionReceived, MerkleBlockReceived, UnminedReceived
    <2>2. UNCHANGED <<mode, pc, outcome, current>>
        BY <1>7 DEF ReceiveTransaction, ReceiveMerkleBlock, ReceiveUnmined
    <2>3. mode # "new"
        BY SomeStream
    <2>4. /\ Len(streams') = Len(streams) /\ DOMAIN streams' = DOMAIN streams /\ streams' \in Seq(Stream)
          /\ \A k \in DOMAIN streams : streams'[k].handled = streams[k].handled
        BY <2>1 DEF Handed, SameLine
    <2> QED
        BY <2>2, <2>3, <2>4, FrameStands DEF FrameOK
<1>8. ASSUME NEW i \in DOMAIN streams,
             NEW live, NEW closing, LineSet(i, live, closing, streams'),
             UNCHANGED <<mode, pc>>, outcome' = outcome \/ pc = "stream",
             current' \in {0, current}, outcome' \in {"gap", "end"} => current' = 0
      PROVE  FrameOK'
    <2>1. mode # "new"
        BY SomeStream
    <2>2. /\ Len(streams') = Len(streams) /\ DOMAIN streams' = DOMAIN streams /\ streams' \in Seq(Stream)
          /\ \A k \in DOMAIN streams : streams'[k].handled = streams[k].handled
        BY <1>8 DEF LineSet
    <2> QED
        BY <1>8, <2>1, <2>2, FrameStands
<1>9. ASSUME NEW i \in DOMAIN streams, StreamEnds(i) PROVE FrameOK'
    <2>1. LineSet(i, FALSE, streams[i].closing, streams') /\ UNCHANGED <<mode, pc>>
        BY <1>9, StreamEnded DEF StreamEnds
    <2>2. /\ outcome' = outcome \/ pc = "stream"
          /\ current' \in {0, current}
          /\ outcome' \in {"gap", "end"} => current' = 0
        BY <1>9, SettleIs DEF StreamEnds, EndHandler, EndStream, FrameOK
    <2> QED
        BY <1>8, <2>1, <2>2
<1>10. ASSUME NEW i \in DOMAIN streams, EndingResumes(i) PROVE FrameOK'
    <2>1. UNCHANGED <<mode, pc, streams>> /\ mode # "new"
        BY <1>10, SomeStream DEF EndingResumes
    <2>2. (outcome' = outcome \/ pc = "stream") /\ current' = 0
        BY <1>10, SettleIs DEF EndingResumes, EndStream
    <2> QED
        BY <2>1, <2>2, FrameStands DEF Typing, WireTyped
<1>11. ASSUME NEW i \in DOMAIN streams, NEW code \in Codes, StreamFails(i, code) PROVE FrameOK'
    <2>1. LineSet(i, FALSE, streams[i].closing, streams') /\ UNCHANGED <<mode, pc, current>>
        BY <1>11, StreamEnded DEF StreamFails
    <2>2. /\ outcome' = outcome \/ pc = "stream"
          /\ outcome' \in {"gap", "end"} => current' = 0
        BY <1>11, <2>1, SettleIs DEF StreamFails, FrameOK, Codes
    <2> QED
        BY <1>8, <2>1, <2>2
<1>12. ASSUME NEW i \in DOMAIN streams, CancelEmitsError(i) PROVE FrameOK'
    <2>1. LineSet(i, streams[i].live, FALSE, streams') /\ UNCHANGED <<mode, pc, current>>
        BY <1>12, ErrorEmitted DEF CancelEmitsError
    <2>2. /\ outcome' = outcome \/ pc = "stream"
          /\ outcome' \in {"gap", "end"} => current' = 0
        BY <1>12, <2>1, SettleIs DEF CancelEmitsError, FrameOK
    <2> QED
        BY <1>8, <2>1, <2>2
<1>13. ASSUME NEW i \in DOMAIN streams, ProcessTransaction(i) \/ ProcessMerkleBlock(i) \/ ImportFails(i)
       PROVE  FrameOK'
    <2>1. Worked(i, streams')
        BY <1>13, TransactionProcessed, MerkleBlockProcessed, FailedImportWorked
    <2>2. /\ UNCHANGED <<mode, pc, current>>
          /\ outcome' = outcome \/ pc = "stream"
          /\ outcome' \in {"gap", "end"} => current' = 0
        BY <1>13, SettleIs DEF ProcessTransaction, ProcessMerkleBlock, ImportFails, FrameOK
    <2>3. mode # "new"
        BY SomeStream
    <2>4. /\ Len(streams') = Len(streams) /\ DOMAIN streams' = DOMAIN streams /\ streams' \in Seq(Stream)
          /\ \A k \in DOMAIN streams : streams'[k].handled = streams[k].handled
        BY <2>1 DEF Worked, SameLine
    <2> QED
        BY <2>2, <2>3, <2>4, FrameStands
<1>14. ASSUME NEW j \in DOMAIN streams, CancelledLine(j, streams'),
              UNCHANGED <<mode, pc>>, outcome' = outcome \/ pc = "stream",
              current' \in {0, current}, outcome' \in {"gap", "end"} => current' = 0
       PROVE  FrameOK'
    <2>1. mode # "new"
        BY SomeStream
    <2>2. /\ Len(streams') = Len(streams) /\ DOMAIN streams' = DOMAIN streams /\ streams' \in Seq(Stream)
          /\ \A k \in DOMAIN streams : streams'[k].handled = streams[k].handled
        BY <1>14 DEF CancelledLine
    <2> QED
        BY <1>14, <2>1, <2>2, FrameStands
<1>15. CASE JobCancels
    <2>1. UNCHANGED <<mode, pc>> /\ mode # "new" /\ streams \in Seq(Stream)
        BY <1>15 DEF JobCancels, FrameOK, Typing, WireTyped
    <2>2. CASE current = 0
        <3>1. UNCHANGED <<streams, current, outcome>>
            BY <1>15, <2>2 DEF JobCancels
        <3> QED
            BY <2>1, <3>1, FrameStands DEF FrameOK
    <2>3. CASE current # 0
        <3>1. current \in DOMAIN streams /\ CancelledLine(current, streams')
            BY <1>15, <2>3, JobCancelled DEF Typing, WireTyped
        <3>2. /\ outcome' = outcome \/ pc = "stream"
              /\ current' \in {0, current}
              /\ outcome' \in {"gap", "end"} => current' = 0
            BY <1>15, <2>3, SettleIs DEF JobCancels, HandlersCalled, FrameOK
        <3> QED
            BY <1>14, <2>1, <3>1, <3>2
    <2> QED
        BY <2>2, <2>3
<1>16. CASE StopCancels
    <2>1. UNCHANGED <<mode, pc>> /\ mode # "new" /\ streams \in Seq(Stream) /\ current' = 0
        BY <1>16 DEF StopCancels, FrameOK, Typing, WireTyped
    <2>2. CASE current = 0
        <3>1. UNCHANGED <<streams, outcome>>
            BY <1>16, <2>2 DEF StopCancels
        <3> QED
            BY <2>1, <3>1, FrameStands
    <2>3. CASE current # 0
        <3>1. current \in DOMAIN streams /\ CancelledLine(current, streams')
            BY <1>16, <2>3, CancelledIs DEF Typing, WireTyped, StopCancels
        <3>2. outcome' = outcome \/ pc = "stream"
            BY <1>16, <2>3, SettleIs DEF StopCancels
        <3> QED
            BY <1>14, <2>1, <3>1, <3>2
    <2> QED
        BY <2>2, <2>3
<1>17. ASSUME UNCHANGED <<mode, pc, outcome, streams, current>>, mode # "new" PROVE FrameOK'
    BY <1>17 DEF FrameOK
<1>18. ASSUME NEW b \in Block,
              \/ TransactionAnswered(b)
              \/ HeaderAnswered(b)
              \/ \E stage \in Stages : RequestFails(b, stage)
       PROVE  FrameOK'
    <2>1. UNCHANGED <<mode, pc, outcome, streams, current>>
        BY <1>18 DEF TransactionAnswered, HeaderAnswered, RequestFails
    <2>2. PICK stage \in Stages : requests[<<b, stage>>] > 0
        BY <1>18 DEF TransactionAnswered, HeaderAnswered, RequestFails, Stages
    <2>3. b \in imported
        BY <2>2 DEF Typing, MetadataTyped
    <2> QED
        BY <1>17, <2>1, <2>3 DEF FrameOK
<1>19. CASE Mine
    BY <1>19 DEF Mine, FrameOK
<1>20. CASE StopResumes \/ \E force : Stop(force)
    BY <1>17, <1>20 DEF StopResumes, Stop, FrameOK
<1> QED
    BY <1>1, <1>2, <1>3, <1>4, <1>5, <1>6, <1>7, <1>9, <1>10, <1>11, <1>12, <1>13, <1>15, <1>16,
       <1>18, <1>19, <1>20, NextIs DEF Step

LEMMA TypingKept ==
    ASSUME Typing, FrameOK, Next
    PROVE  Typing'
BY StartTyped, BestHeightAnsweredTyped, BestHeightFailsTyped, SubscribedTyped, SubscriptionFailsTyped,
   ContinueTyped, ReceivedTyped, StreamEndsTyped, EndingResumesTyped, StreamFailsTyped,
   CancelEmitsErrorTyped, ProcessTransactionTyped, ProcessMerkleBlockTyped, ImportFailsTyped,
   JobCancelsTyped, TransactionAnsweredTyped, HeaderAnsweredTyped, RequestFailsTyped, MineTyped,
   StopResumesTyped, StopTyped, StopCancelsTyped, NextIs DEF Step

-----------------------------------------------------------------------------
(* What has happened stays so *)

LEMMA WorldKept ==
    ASSUME Typing, Next
    PROVE  UNCHANGED <<scenario, browser>> /\ Happened \subseteq Happened'
<1> USE DEF world
<1>1. ASSUME UNCHANGED <<scenario, browser, incidents>>
      PROVE  UNCHANGED <<scenario, browser>> /\ Happened \subseteq Happened'
    BY <1>1 DEF Happened
<1>2. ASSUME NEW kind, Incident(kind)
      PROVE  UNCHANGED <<scenario, browser>> /\ Happened \subseteq Happened'
    BY <1>2, IncidentAdds DEF Typing
<1>3. ASSUME NEW kind, InTime(kind)
      PROVE  UNCHANGED <<scenario, browser>> /\ Happened \subseteq Happened'
    BY <1>3, InTimeIs DEF Typing
<1>4. ASSUME \/ \E all \in BOOLEAN, h \in Scenarios[scenario].skipBefore : Start(all, h)
             \/ BestHeightAnswered \/ Subscribed \/ Continue \/ JobCancels \/ Mine
             \/ StopResumes \/ StopCancels
      PROVE  UNCHANGED <<scenario, browser, incidents>>
    BY <1>4 DEF Start, BestHeightAnswered, Subscribed, Continue, JobCancels, Mine, StopResumes, StopCancels
<1>5. ASSUME NEW i \in DOMAIN streams,
             \/ EndingResumes(i) \/ CancelEmitsError(i)
             \/ ProcessTransaction(i) \/ ProcessMerkleBlock(i)
      PROVE  UNCHANGED <<scenario, browser, incidents>>
    BY <1>5 DEF EndingResumes, CancelEmitsError, ProcessTransaction, ProcessMerkleBlock
<1>6. ASSUME NEW b \in Block, TransactionAnswered(b) \/ HeaderAnswered(b)
      PROVE  UNCHANGED <<scenario, browser>> /\ Happened \subseteq Happened'
    BY <1>1, <1>2, <1>6 DEF TransactionAnswered, HeaderAnswered
<1>7. ASSUME NEW i \in DOMAIN streams,
             \/ ReceiveTransaction(i) \/ ReceiveMerkleBlock(i) \/ StreamEnds(i) \/ ImportFails(i)
             \/ \E b \in Block : ReceiveUnmined(i, b)
             \/ \E code \in Codes : StreamFails(i, code)
      PROVE  UNCHANGED <<scenario, browser>> /\ Happened \subseteq Happened'
    BY <1>1, <1>2, <1>3, <1>7
    DEF ReceiveTransaction, ReceiveMerkleBlock, ReceiveUnmined, StreamEnds, ImportFails, StreamFails
<1>8. ASSUME \/ \E code \in Codes : BestHeightFails(code) \/ SubscriptionFails(code)
             \/ \E b \in Block, stage \in Stages : RequestFails(b, stage)
             \/ \E force \in BOOLEAN : Stop(force)
      PROVE  UNCHANGED <<scenario, browser>> /\ Happened \subseteq Happened'
    BY <1>2, <1>8 DEF BestHeightFails, SubscriptionFails, RequestFails, Stop
<1> QED
    BY <1>1, <1>4, <1>5, <1>6, <1>7, <1>8, NextIs DEF Step

LEMMA SameWorld ==
    ASSUME Typing, Next
    PROVE  /\ browser' = browser /\ Chain' = Chain /\ Block' = Block
           /\ NoImport' => NoImport
           /\ Calm' => Calm
BY WorldKept, SameScenario DEF NoImport, Calm

-----------------------------------------------------------------------------
(* The streams that are open *)

LEMMA WireStands ==
    ASSUME Typing, WireOK, Next, UNCHANGED <<pc, outcome, ending>>,
           Len(streams') = Len(streams), DOMAIN streams' = DOMAIN streams,
           \A k \in DOMAIN streams : SameLine(streams[k], streams'[k])
    PROVE  WireOK'
BY SameWorld DEF Typing, WireTyped, WireOK, SameLine, Awaited

\* Stream i sends no more, and the others do what they did.
Silenced(i) ==
    /\ DOMAIN streams' = DOMAIN streams /\ Len(streams') = Len(streams)
    /\ ~ streams'[i].live /\ ~ streams'[i].closing
    /\ \A k \in DOMAIN streams :
           k # i => streams'[k].live = streams[k].live /\ streams'[k].closing = streams[k].closing

LEMMA WireEnds ==
    ASSUME Typing, WireOK, Next, NEW i \in DOMAIN streams, streams[i].live \/ streams[i].closing,
           Silenced(i), UNCHANGED pc,
           \A k \in ending' : NoImport /\ ~ browser => Awaited(k)',
           ending' \subseteq ending \cup {i}
    PROVE  WireOK'
<1>1. browser' = browser /\ (NoImport' => NoImport) /\ ending \subseteq DOMAIN streams
    BY SameWorld DEF Typing, WireTyped
<1>2. ASSUME NEW k \in DOMAIN streams'
      PROVE  /\ streams'[k].closing => ~ streams'[k].live /\ ~ browser /\ k \notin ending'
             /\ NoImport' /\ (streams'[k].live \/ streams'[k].closing) => Awaited(k)'
    <2>1. CASE k = i
        BY <1>1, <2>1 DEF Silenced, WireOK
    <2>2. CASE k # i
        BY <1>1, <2>2 DEF Silenced, WireOK, Awaited
    <2> QED
        BY <2>1, <2>2
<1>3. ASSUME NEW k \in ending' PROVE ~ streams'[k].live
    <2>1. CASE k = i
        BY <1>1, <2>1 DEF Silenced
    <2>2. CASE k # i
        BY <1>1, <2>2 DEF Silenced, WireOK
    <2> QED
        BY <2>1, <2>2
<1> QED
    BY <1>1, <1>2, <1>3 DEF WireOK

LEMMA WireKept ==
    ASSUME Typing, FrameOK, WireOK, Next
    PROVE  WireOK'
<1> USE DEF wire, frame, account, metadata, control
<1>0. /\ browser' = browser /\ (NoImport' => NoImport) /\ Happened \subseteq Happened'
      /\ ending \subseteq DOMAIN streams /\ streams \in Seq(Stream)
    BY SameWorld, WorldKept DEF Typing, WireTyped
<1>1. ASSUME UNCHANGED <<streams, ending>>,
             NoImport => ~ (pc = "stream" /\ outcome = "pending")
      PROVE  WireOK'
    BY <1>0, <1>1 DEF WireOK, Awaited
<1>2. ASSUME NEW all \in BOOLEAN, NEW h, Start(all, h) PROVE WireOK'
    BY <1>1, <1>2, StartResumes DEF Start
<1>3. CASE BestHeightAnswered
    BY <1>1, <1>3 DEF BestHeightAnswered
<1>4. ASSUME NEW code, BestHeightFails(code) PROVE WireOK'
    BY <1>1, <1>4, BestHeightFailsResumes DEF BestHeightFails
<1>5. CASE Subscribed
    <2>1. /\ pc' = "stream" /\ outcome' = "pending" /\ UNCHANGED ending /\ pc = "subscribe"
        BY <1>5 DEF Subscribed, FrameOK
    <2>2. PICK n : n = Len(streams)
        OBVIOUS
    <2>3. /\ n \in Nat /\ Len(streams') = n + 1 /\ DOMAIN streams' = 1..(n + 1)
          /\ streams'[n + 1] = Opened /\ DOMAIN streams = 1..n
          /\ \A k \in DOMAIN streams : streams'[k] = streams[k]
        BY <1>5, <2>2, SubscribedOpens
    <2>4. Opened.live /\ ~ Opened.closing
        BY DEF Opened
    <2>5. ASSUME NEW k \in DOMAIN streams'
          PROVE  /\ streams'[k].closing => ~ streams'[k].live /\ ~ browser' /\ k \notin ending'
                 /\ NoImport' /\ (streams'[k].live \/ streams'[k].closing) => Awaited(k)'
        <3>1. CASE k = n + 1
            BY <2>1, <2>3, <2>4, <3>1 DEF Awaited
        <3>2. CASE k # n + 1
            <4>1. k \in DOMAIN streams /\ streams'[k] = streams[k]
                BY <2>3, <3>2
            <4> QED
                BY <1>0, <2>1, <4>1 DEF WireOK, Awaited
        <3> QED
            BY <3>1, <3>2
    <2>6. ASSUME NEW k \in ending'
          PROVE  ~ streams'[k].live /\ (NoImport' /\ ~ browser' => Awaited(k)')
        BY <1>0, <2>1, <2>3 DEF WireOK, Awaited
    <2> QED
        BY <2>5, <2>6 DEF WireOK
<1>6. ASSUME NEW code, SubscriptionFails(code) PROVE WireOK'
    BY <1>1, <1>6, SubscriptionFailsResumes DEF SubscriptionFails
<1>7. CASE Continue
    BY <1>1, <1>7, ContinueResumes DEF Continue
<1>8. ASSUME NEW i \in DOMAIN streams,
             \/ ReceiveTransaction(i)
             \/ ReceiveMerkleBlock(i)
             \/ \E b \in Block : ReceiveUnmined(i, b)
      PROVE  WireOK'
    <2>1. \E chunk : Handed(i, chunk, streams')
        BY <1>8, TransactionReceived, MerkleBlockReceived, UnminedReceived
    <2>2. UNCHANGED <<pc, outcome, ending>>
        BY <1>8 DEF ReceiveTransaction, ReceiveMerkleBlock, ReceiveUnmined
    <2>3. /\ Len(streams') = Len(streams) /\ DOMAIN streams' = DOMAIN streams
          /\ \A k \in DOMAIN streams : SameLine(streams[k], streams'[k])
        BY <2>1 DEF Handed
    <2> QED
        BY <2>2, <2>3, WireStands
<1>9. ASSUME NEW i \in DOMAIN streams, StreamEnds(i) PROVE WireOK'
    <2>1. /\ LineSet(i, FALSE, streams[i].closing, streams') /\ UNCHANGED pc
          /\ streams[i].live
        BY <1>9, StreamEnded DEF StreamEnds, Receives
    <2>2. ~ streams[i].closing /\ i \notin ending /\ (NoImport => Awaited(i))
        BY <2>1 DEF WireOK
    <2>3. ending' \subseteq ending \cup {i} /\ (ending' = ending \/ outcome' = outcome)
        BY <1>9 DEF StreamEnds, EndHandler
    <2>4. ASSUME NEW k \in ending', NoImport, ~ browser PROVE Awaited(k)'
        <3>1. k = i
            BY <2>2, <2>3, <2>4 DEF WireOK, Awaited
        <3> QED
            BY <2>1, <2>2, <2>3, <2>4, <3>1 DEF Awaited, LineSet
    <2>5. Silenced(i)
        BY <2>1, <2>2 DEF LineSet, Silenced
    <2> QED
        BY <2>1, <2>3, <2>4, <2>5, WireEnds
<1>10. ASSUME NEW i \in DOMAIN streams, EndingResumes(i) PROVE WireOK'
    <2>1. /\ UNCHANGED <<pc, streams>> /\ ending' = ending \ {i} /\ i \in ending
          /\ outcome' = outcome \/ Awaited(i)
        BY <1>10, SettleIs DEF EndingResumes, EndStream
    <2>2. ~ streams[i].live /\ ~ streams[i].closing
        BY <2>1 DEF WireOK
    <2>3. ASSUME NEW k \in DOMAIN streams, NoImport, streams[k].live \/ streams[k].closing
          PROVE  Awaited(k)'
        <3>1. Awaited(k) /\ k # i
            BY <2>2, <2>3 DEF WireOK
        <3> QED
            BY <2>1, <3>1 DEF Awaited
    <2>4. ASSUME NEW k \in ending', NoImport, ~ browser PROVE Awaited(k)'
        <3>1. Awaited(k) /\ Awaited(i) /\ k # i
            BY <2>1, <2>4 DEF WireOK
        <3> QED
            BY <3>1 DEF Awaited
    <2> QED
        BY <1>0, <2>1, <2>3, <2>4 DEF WireOK
<1>11. ASSUME NEW i \in DOMAIN streams, NEW code \in Codes, StreamFails(i, code) PROVE WireOK'
    <2>1. /\ LineSet(i, FALSE, streams[i].closing, streams') /\ UNCHANGED <<pc, ending>>
          /\ streams[i].live
        BY <1>11, StreamEnded DEF StreamFails, Receives
    <2>2. ~ streams[i].closing /\ i \notin ending /\ (NoImport => Awaited(i))
        BY <2>1 DEF WireOK
    <2>3. NoImport /\ ~ browser => ending' = {}
        BY <2>1, <2>2 DEF WireOK, Awaited
    <2>4. Silenced(i)
        BY <2>1, <2>2 DEF LineSet, Silenced
    <2> QED
        BY <2>1, <2>3, <2>4, WireEnds
<1>12. ASSUME NEW i \in DOMAIN streams, CancelEmitsError(i) PROVE WireOK'
    <2>1. /\ LineSet(i, streams[i].live, FALSE, streams') /\ UNCHANGED <<pc, ending>>
          /\ streams[i].closing
        BY <1>12, ErrorEmitted DEF CancelEmitsError
    <2>2. ~ streams[i].live /\ i \notin ending /\ (NoImport => Awaited(i))
        BY <2>1 DEF WireOK
    <2>3. NoImport /\ ~ browser => ending' = {}
        BY <2>1, <2>2 DEF WireOK, Awaited
    <2>4. Silenced(i)
        BY <2>1, <2>2 DEF LineSet, Silenced
    <2> QED
        BY <2>1, <2>3, <2>4, WireEnds
<1>13. ASSUME NEW i \in DOMAIN streams, ProcessTransaction(i) \/ ProcessMerkleBlock(i) PROVE WireOK'
    <2>1. Worked(i, streams')
        BY <1>13, TransactionProcessed, MerkleBlockProcessed
    <2>2. UNCHANGED <<pc, outcome, ending>>
        BY <1>13 DEF ProcessTransaction, ProcessMerkleBlock
    <2> QED
        BY <2>1, <2>2, WireStands DEF Worked
<1>14. ASSUME NEW i \in DOMAIN streams, ImportFails(i) PROVE WireOK'
    <2>1. Worked(i, streams') /\ UNCHANGED ending /\ "import" \in Happened'
        BY <1>14, FailedImportWorked, IncidentAdds DEF ImportFails, Typing
    <2>2. ~ NoImport'
        BY <2>1 DEF NoImport
    <2> QED
        BY <1>0, <2>1, <2>2 DEF Worked, SameLine, WireOK
<1>15. ASSUME NEW j, j = current, j # 0, CancelledLine(j, streams'), UNCHANGED pc,
              \/ UNCHANGED <<outcome, ending>>
              \/ browser /\ Settle(j, "CANCELLED") /\ ending' \in {ending, ending \cup {j}}
       PROVE  WireOK'
    <2>1. j \in DOMAIN streams /\ j = Len(streams)
        BY <1>15 DEF FrameOK, Typing, WireTyped
    <2>2. /\ ~ streams'[j].live /\ DOMAIN streams' = DOMAIN streams /\ Len(streams') = Len(streams)
          /\ streams'[j].closing => streams[j].closing \/ (streams[j].live /\ ~ browser)
          /\ \A k \in DOMAIN streams : k # j =>
                 streams'[k].live = streams[k].live /\ streams'[k].closing = streams[k].closing
        BY <1>15 DEF CancelledLine
    <2>3. ASSUME NEW k \in DOMAIN streams
          PROVE  /\ streams'[k].closing => ~ streams'[k].live /\ ~ browser /\ k \notin ending'
                 /\ NoImport /\ (streams'[k].live \/ streams'[k].closing) => Awaited(k)'
        <3>1. CASE k = j
            BY <1>15, <2>1, <2>2, <3>1 DEF WireOK, Awaited
        <3>2. CASE k # j
            BY <1>15, <2>1, <2>2, <3>2 DEF WireOK, Awaited
        <3> QED
            BY <3>1, <3>2
    <2>4. ASSUME NEW k \in ending'
          PROVE  ~ streams'[k].live /\ (NoImport /\ ~ browser => Awaited(k)')
        BY <1>0, <1>15, <2>1, <2>2 DEF WireOK, Awaited
    <2> QED
        BY <1>0, <2>2, <2>3, <2>4 DEF WireOK
<1>16. CASE JobCancels \/ StopCancels
    <2>1. CASE current = 0
        <3>1. UNCHANGED <<pc, outcome, streams, ending>>
            BY <1>16, <2>1 DEF JobCancels, StopCancels
        <3> QED
            BY <3>1, WireStands DEF SameLine
    <2>2. CASE current # 0
        <3>1. CancelledLine(current, streams') /\ UNCHANGED pc
            BY <1>16, <2>2, JobCancelled, StopCancelled DEF JobCancels, StopCancels
        <3>2. \/ UNCHANGED <<outcome, ending>>
              \/ browser /\ Settle(current, "CANCELLED") /\ ending' \in {ending, ending \cup {current}}
            BY <1>16, <2>2 DEF JobCancels, StopCancels, HandlersCalled
        <3> QED
            BY <1>15, <2>2, <3>1, <3>2
    <2> QED
        BY <2>1, <2>2
<1>17. CASE UNCHANGED <<pc, outcome, streams, ending>>
    BY <1>17, WireStands DEF SameLine
<1>18. ASSUME \/ \E b \in Block : \/ TransactionAnswered(b)
                                  \/ HeaderAnswered(b)
                                  \/ \E stage \in Stages : RequestFails(b, stage)
              \/ Mine \/ StopResumes \/ \E force : Stop(force)
       PROVE  WireOK'
    BY <1>17, <1>18 DEF TransactionAnswered, HeaderAnswered, RequestFails, Mine, StopResumes, Stop
<1> QED
    BY <1>2, <1>3, <1>4, <1>5, <1>6, <1>7, <1>8, <1>9, <1>10, <1>11, <1>12, <1>13, <1>14, <1>16, <1>18,
       NextIs DEF Step

-----------------------------------------------------------------------------
(* The filter *)

LEMMA ResumedFilter ==
    ASSUME Typing, Resumed, pc' = "subscribe"
    PROVE  query'.filter = known
<1>1. PICK h : StartIncoming(h)
    BY DEF Resumed, StartHistorical, Over
<1>2. query \in Query
    BY DEF Typing, FrameTyped
<1> QED
    BY <1>1, <1>2 DEF StartIncoming, Query

\* The frame goes on while no stream sends and no job starts.
LEMMA FilterResumed ==
    ASSUME Typing, Resumed, streams' = streams, known' = known,
           \A i \in DOMAIN streams : streams[i].turn = "none" /\ ~ streams[i].live
    PROVE  JobsAwaited' /\ FilterKnown'
BY ResumedFilter DEF Resumed, JobsAwaited, FilterKnown

\* What another stream or job leaves alone
LEMMA FilterStands ==
    ASSUME Typing, JobsAwaited, ~ unnoticed => FilterKnown,
           UNCHANGED <<pc, query, reached, known>>, unnoticed' = unnoticed,
           Len(streams') = Len(streams), DOMAIN streams' = DOMAIN streams,
           \A k \in DOMAIN streams : /\ streams'[k].filter = streams[k].filter
                                     /\ streams'[k].live => streams[k].live /\ current' = k,
           outcome' = outcome \/ (outcome' = "end" => ~ reached),
           \A k \in DOMAIN streams : streams'[k].turn # "none" => pc = "stream" /\ outcome' = "pending",
           immediates # <<>> /\ immediates' = <<>> => \A k \in DOMAIN streams : ~ streams'[k].live
    PROVE  JobsAwaited' /\ (~ unnoticed' => FilterKnown')
<1>1. JobsAwaited'
    BY DEF JobsAwaited
<1>2. ASSUME ~ unnoticed PROVE FilterKnown'
    BY <1>2 DEF FilterKnown, Typing, WireTyped
<1> QED
    BY <1>1, <1>2

\* Between two turns of the event loop no job starts and the frame waits.
LEMMA NoTurns ==
    ASSUME ~ Microtasks
    PROVE  /\ \A k \in DOMAIN streams : streams[k].turn = "none"
           /\ pc = "stream" => outcome = "pending"
BY DEF Microtasks

LEMMA AppendedIs ==
    ASSUME NEW S, NEW s \in Seq(S), NEW e
    PROVE  Append(s, e) # <<>>
<1>1. Len(Append(s, e)) = Len(s) + 1 /\ Len(s) \in Nat
    OBVIOUS
<1>2. Len(<<>>) = 0
    OBVIOUS
<1> QED
    BY <1>1, <1>2

LEMMA FilterKept ==
    ASSUME Typing, FrameOK, WireOK, FilterOK, Next
    PROVE  FilterOK'
<1> USE DEF wire, frame, account, metadata, control
<1> SUFFICES ASSUME NoImport', ~ browser'
             PROVE  JobsAwaited' /\ (~ unnoticed' => FilterKnown')
    BY DEF FilterOK
<1>0. /\ NoImport /\ ~ browser /\ JobsAwaited /\ (~ unnoticed => FilterKnown)
      /\ streams \in Seq(Stream) /\ reached \in BOOLEAN
    BY SameWorld DEF FilterOK, Typing, WireTyped
<1>1. ASSUME Resumed, streams' = streams, known' = known, pc # "stream" \/ outcome # "pending"
      PROVE  JobsAwaited' /\ FilterKnown'
    BY <1>0, <1>1, FilterResumed DEF JobsAwaited, WireOK, Awaited, Typing, WireTyped, Stream
<1>2. ASSUME NEW all \in BOOLEAN, NEW h, Start(all, h) PROVE JobsAwaited' /\ FilterKnown'
    BY <1>1, <1>2, StartResumes DEF Start
<1>3. CASE BestHeightAnswered
    <2>1. query'.filter = known /\ pc' = "subscribe" /\ pc = "best"
        BY <1>3 DEF BestHeightAnswered, Typing, FrameTyped, Query
    <2>2. UNCHANGED <<streams, known, current, outcome, reached, immediates, unnoticed>>
        BY <1>3 DEF BestHeightAnswered
    <2> QED
        BY <1>0, <2>1, <2>2 DEF JobsAwaited, FilterKnown
<1>4. ASSUME NEW code, BestHeightFails(code) PROVE JobsAwaited' /\ FilterKnown'
    BY <1>1, <1>4, BestHeightFailsResumes DEF BestHeightFails
<1>5. CASE Subscribed
    <2>1. /\ current = 0 /\ current' = Len(streams) + 1 /\ pc' = "stream" /\ outcome' = "pending"
          /\ UNCHANGED <<known, query, immediates, unnoticed>> /\ pc = "subscribe" /\ ~ reached'
        BY <1>5 DEF Subscribed, FrameOK
    <2>2. PICK n : n = Len(streams)
        OBVIOUS
    <2>3. /\ n \in Nat /\ Len(streams') = n + 1 /\ DOMAIN streams' = 1..(n + 1)
          /\ streams'[n + 1] = Opened /\ DOMAIN streams = 1..n
          /\ \A k \in DOMAIN streams : streams'[k] = streams[k]
        BY <1>5, <2>2, SubscribedOpens
    <2>4. Opened.turn = "none" /\ Opened.filter = query.filter
        BY DEF Opened
    <2>5. \A k \in DOMAIN streams : ~ streams[k].live
        BY <1>0, <2>1 DEF WireOK, Awaited
    <2>6. JobsAwaited'
        <3>1. ASSUME NEW k \in DOMAIN streams'
              PROVE  streams'[k].turn = "none" \/ pc' = "stream"
            BY <2>1
        <3>2. ASSUME NEW k \in DOMAIN streams', streams'[k].live PROVE current' = k
            BY <2>1, <2>2, <2>3, <2>5, <3>2
        <3> QED
            BY <2>1, <3>1, <3>2 DEF JobsAwaited
    <2>7. ASSUME ~ unnoticed PROVE FilterKnown'
        <3>1. query.filter = known
            BY <1>0, <2>1, <2>7 DEF FilterKnown
        <3>2. ASSUME NEW k \in DOMAIN streams', streams'[k].live PROVE streams'[k].filter = known
            BY <2>3, <2>4, <2>5, <3>1, <3>2
        <3>3. streams'[Len(streams')].filter = known
            BY <2>3, <2>4, <3>1
        <3> QED
            BY <2>1, <3>2, <3>3 DEF FilterKnown
    <2> QED
        BY <2>1, <2>6, <2>7
<1>6. ASSUME NEW code, SubscriptionFails(code) PROVE JobsAwaited' /\ FilterKnown'
    BY <1>1, <1>6, SubscriptionFailsResumes DEF SubscriptionFails
<1>7. CASE Continue
    <2> QED
        BY <1>1, <1>7, ContinueResumes DEF Continue
<1>8. ASSUME NEW i \in DOMAIN streams,
             \/ ReceiveTransaction(i)
             \/ ReceiveMerkleBlock(i)
             \/ \E b \in Block : ReceiveUnmined(i, b)
      PROVE  JobsAwaited' /\ (~ unnoticed' => FilterKnown')
    <2>1. \E chunk : Handed(i, chunk, streams')
        BY <1>8, TransactionReceived, MerkleBlockReceived, UnminedReceived
    <2>2. UNCHANGED <<pc, query, outcome, current, reached, known, unnoticed, immediates>> /\ streams[i].live
        BY <1>8 DEF ReceiveTransaction, ReceiveMerkleBlock, ReceiveUnmined, Receives
    <2>3. pc = "stream" /\ outcome = "pending"
        BY <1>0, <2>2 DEF WireOK, Awaited
    <2>4. /\ Len(streams') = Len(streams) /\ DOMAIN streams' = DOMAIN streams
          /\ \A k \in DOMAIN streams : SameLine(streams[k], streams'[k])
        BY <2>1 DEF Handed
    <2>5. \A k \in DOMAIN streams : /\ streams'[k].filter = streams[k].filter
                                    /\ streams'[k].live => streams[k].live /\ current' = k
        BY <1>0, <2>2, <2>4 DEF SameLine, JobsAwaited
    <2> QED
        BY <1>0, <2>2, <2>3, <2>4, <2>5, FilterStands
<1>9. ASSUME NEW i \in DOMAIN streams, streams[i].live \/ streams[i].closing \/ i \in ending,
             \A k \in DOMAIN streams : /\ streams'[k].filter = streams[k].filter
                                       /\ streams'[k].turn = streams[k].turn
                                       /\ streams'[k].live => streams[k].live,
             ~ streams'[i].live,
             Len(streams') = Len(streams), DOMAIN streams' = DOMAIN streams, ~ Microtasks,
             UNCHANGED <<pc, query, reached, known, unnoticed, immediates>>,
             outcome' = outcome \/ (outcome' = "end" => ~ reached)
      PROVE  JobsAwaited' /\ (~ unnoticed' => FilterKnown')
    <2>1. ASSUME NEW k \in DOMAIN streams PROVE ~ streams'[k].live /\ streams'[k].turn = "none"
        BY <1>0, <1>9, NoTurns DEF WireOK, Awaited
    <2> QED
        BY <1>0, <1>9, <2>1, FilterStands
<1>10. ASSUME NEW i \in DOMAIN streams, StreamEnds(i) PROVE JobsAwaited' /\ (~ unnoticed' => FilterKnown')
    <2>1. LineSet(i, FALSE, streams[i].closing, streams') /\ streams[i].live /\ ~ Microtasks
        BY <1>10, StreamEnded DEF StreamEnds, Receives
    <2>2. /\ UNCHANGED <<pc, query, reached, known, unnoticed, immediates>>
          /\ outcome' = outcome \/ (outcome' = "end" => ~ reached)
        BY <1>0, <1>10, SettleIs DEF StreamEnds, EndHandler, EndStream
    <2> QED
        BY <1>9, <2>1, <2>2 DEF LineSet, SameQueue
<1>11. ASSUME NEW i \in DOMAIN streams, EndingResumes(i) PROVE JobsAwaited' /\ (~ unnoticed' => FilterKnown')
    <2>1. i \in ending /\ ~ Microtasks /\ streams' = streams /\ ~ streams[i].live
        BY <1>11 DEF EndingResumes, WireOK
    <2>2. /\ UNCHANGED <<pc, query, reached, known, unnoticed, immediates>>
          /\ outcome' = outcome \/ (outcome' = "end" => ~ reached)
        BY <1>0, <1>11, SettleIs DEF EndingResumes, EndStream
    <2> QED
        BY <1>9, <2>1, <2>2
<1>12. ASSUME NEW i \in DOMAIN streams, NEW code \in Codes, StreamFails(i, code)
       PROVE  JobsAwaited' /\ (~ unnoticed' => FilterKnown')
    <2>1. LineSet(i, FALSE, streams[i].closing, streams') /\ streams[i].live /\ ~ Microtasks
        BY <1>12, StreamEnded DEF StreamFails, Receives
    <2>2. /\ UNCHANGED <<pc, query, reached, known, unnoticed, immediates>>
          /\ outcome' = outcome \/ (outcome' = "end" => ~ reached)
        BY <1>12, SettleIs DEF StreamFails, Codes
    <2> QED
        BY <1>9, <2>1, <2>2 DEF LineSet, SameQueue
<1>13. ASSUME NEW i \in DOMAIN streams, CancelEmitsError(i)
       PROVE  JobsAwaited' /\ (~ unnoticed' => FilterKnown')
    <2>1. LineSet(i, streams[i].live, FALSE, streams') /\ streams[i].closing /\ ~ Microtasks
        BY <1>13, ErrorEmitted DEF CancelEmitsError
    <2>2. ~ streams[i].live
        BY <2>1 DEF WireOK
    <2>3. /\ UNCHANGED <<pc, query, reached, known, unnoticed, immediates>>
          /\ outcome' = outcome \/ (outcome' = "end" => ~ reached)
        BY <1>13, SettleIs DEF CancelEmitsError
    <2> QED
        BY <1>9, <2>1, <2>2, <2>3 DEF LineSet, SameQueue
<1>14. ASSUME NEW i \in DOMAIN streams, Worked(i, streams'), UNCHANGED <<pc, outcome, current>>,
              streams[i].turn # "none"
       PROVE  /\ \A k \in DOMAIN streams : /\ streams'[k].filter = streams[k].filter
                                           /\ streams'[k].live => streams[k].live /\ current' = k
              /\ \A k \in DOMAIN streams : streams'[k].turn # "none" => pc = "stream" /\ outcome' = "pending"
              /\ Len(streams') = Len(streams) /\ DOMAIN streams' = DOMAIN streams
    BY <1>0, <1>14 DEF Worked, SameLine, SameQueue, JobsAwaited
<1>15. ASSUME NEW i \in DOMAIN streams, ProcessMerkleBlock(i)
       PROVE  JobsAwaited' /\ (~ unnoticed' => FilterKnown')
    <2>1. /\ Worked(i, streams') /\ streams[i].turn # "none"
          /\ UNCHANGED <<pc, query, outcome, current, reached, known, unnoticed, immediates>>
        BY <1>15, MerkleBlockProcessed DEF ProcessMerkleBlock, JobStarts
    <2> QED
        BY <1>0, <1>14, <2>1, FilterStands
<1>16. ASSUME NEW i \in DOMAIN streams, ProcessTransaction(i)
       PROVE  JobsAwaited' /\ (~ unnoticed' => FilterKnown')
    <2>1. /\ Worked(i, streams') /\ streams[i].turn # "none" /\ JobBlock(i) \in Block
          /\ reached' /\ current # 0 => immediates' # <<>>
          /\ immediates # <<>> => immediates' # <<>>
        <3>1. Append(immediates, <<i, streams[i].turn, JobBlock(i)>>) # <<>>
            BY AppendedIs DEF Typing, ControlTyped
        <3> QED
            BY <1>16, <3>1, TransactionProcessed DEF ProcessTransaction, JobStarts
    <2>2. /\ UNCHANGED <<pc, query, outcome, current, unnoticed>>
          /\ known' = Derived(JobBlock(i), known) /\ (reached' <=> reached \/ known' > known)
        BY <1>16 DEF ProcessTransaction, ReachesGapLimit
    <2>3. known' \in Nat /\ known \in Nat /\ known' >= known
        <3>1. PICK b \in Block : b = JobBlock(i)
            BY <2>1
        <3>2. WorldTyped /\ known \in Nat /\ known' = Derived(b, known)
            BY <2>2, <3>1 DEF Typing, AccountTyped
        <3> QED
            BY <3>2, DerivedIs
    <2>4. ~ reached' => ~ reached /\ known' = known
        BY <2>2, <2>3
    <2>5. /\ \A k \in DOMAIN streams : /\ streams'[k].filter = streams[k].filter
                                       /\ streams'[k].live => streams[k].live /\ current' = k
          /\ \A k \in DOMAIN streams : streams'[k].turn # "none" => pc = "stream" /\ outcome' = "pending"
          /\ Len(streams') = Len(streams) /\ DOMAIN streams' = DOMAIN streams
        BY <1>14, <2>1, <2>2
    <2>6. pc = "stream" /\ outcome = "pending"
        BY <1>0, <2>1 DEF JobsAwaited
    <2>7. JobsAwaited'
        BY <2>2, <2>5, <2>6 DEF JobsAwaited
    <2>8. ASSUME ~ unnoticed PROVE FilterKnown'
        <3>1. ~ reached' => streams'[Len(streams')].filter = known'
            BY <1>0, <2>4, <2>5, <2>6, <2>8 DEF FilterKnown, FrameOK
        <3>2. ASSUME NEW k \in DOMAIN streams', streams'[k].live
              PROVE  streams'[k].filter = known' \/ immediates' # <<>>
            <4>1. k # 0 /\ current = k
                BY <2>2, <2>5, <3>2, <1>0
            <4> QED
                BY <1>0, <2>1, <2>4, <2>5, <2>8, <3>2, <4>1 DEF FilterKnown
        <3> QED
            BY <2>2, <2>6, <3>1, <3>2 DEF FilterKnown
    <2> QED
        BY <2>2, <2>7, <2>8
<1>17. CASE JobCancels \/ StopCancels
    <2>1. /\ UNCHANGED <<pc, query, reached, known, unnoticed, outcome>> /\ ~ Microtasks
          /\ immediates # <<>>
        BY <1>0, <1>17 DEF JobCancels, StopCancels
    <2>2. CASE current = 0
        <3>1. UNCHANGED streams
            BY <1>17, <2>2 DEF JobCancels, StopCancels
        <3>2. \A k \in DOMAIN streams : ~ streams[k].live /\ streams[k].turn = "none"
            BY <1>0, <2>1, <2>2, NoTurns DEF JobsAwaited
        <3> QED
            BY <1>0, <2>1, <3>1, <3>2, FilterStands
    <2>3. CASE current # 0
        <3>1. CancelledLine(current, streams')
            BY <1>17, <2>3, JobCancelled, StopCancelled
        <3>2. \A k \in DOMAIN streams : streams'[k].filter = streams[k].filter /\ ~ streams'[k].live
            BY <1>0, <3>1 DEF CancelledLine, JobsAwaited
        <3>3. pc = "stream" /\ outcome = "pending"
            BY <2>1, <2>3, NoTurns DEF FrameOK
        <3> QED
            BY <1>0, <2>1, <3>1, <3>2, <3>3, FilterStands DEF CancelledLine
    <2> QED
        BY <2>2, <2>3
<1>18. ASSUME UNCHANGED <<pc, query, outcome, streams, current, reached>>,
              (known' = known /\ unnoticed' = unnoticed) \/ unnoticed',
              immediates # <<>> => immediates' # <<>>
       PROVE  JobsAwaited' /\ (~ unnoticed' => FilterKnown')
    BY <1>0, <1>18 DEF JobsAwaited, FilterKnown
<1>19. ASSUME NEW b \in Block, HeaderAnswered(b) PROVE JobsAwaited' /\ (~ unnoticed' => FilterKnown')
    <2>1. known' \in Nat /\ known \in Nat /\ known' >= known
        BY <1>19, DerivedIs DEF HeaderAnswered, Typing, AccountTyped
    <2>2. unnoticed \in BOOLEAN /\ (unnoticed' <=> unnoticed \/ known' > known)
        BY <1>19 DEF HeaderAnswered, Typing, MetadataTyped
    <2>3. UNCHANGED <<pc, query, outcome, streams, current, reached, immediates>>
        BY <1>19 DEF HeaderAnswered
    <2>4. (known' = known /\ unnoticed' = unnoticed) \/ unnoticed'
        <3>1. unnoticed' \in BOOLEAN
            BY <1>19 DEF HeaderAnswered, Typing, MetadataTyped
        <3> QED
            BY <2>1, <2>2, <3>1
    <2> QED
        BY <1>18, <2>3, <2>4
<1>20. ASSUME \/ \E b \in Block : \/ TransactionAnswered(b)
                                  \/ \E stage \in Stages : RequestFails(b, stage)
              \/ Mine \/ StopResumes \/ \E force : Stop(force)
       PROVE  JobsAwaited' /\ (~ unnoticed' => FilterKnown')
    <2>1. Append(immediates, OfStop(current # 0)) # <<>>
        BY AppendedIs DEF Typing, ControlTyped
    <2>2. UNCHANGED <<pc, query, outcome, streams, current, reached, known, unnoticed>>
        BY <1>20 DEF TransactionAnswered, RequestFails, Mine, StopResumes, Stop
    <2>3. immediates # <<>> => immediates' # <<>>
        BY <1>20, <2>1 DEF TransactionAnswered, RequestFails, Mine, StopResumes, Stop, StopGoesOn
    <2> QED
        BY <1>18, <2>2, <2>3
<1>21. ASSUME NEW i \in DOMAIN streams, ImportFails(i) PROVE FALSE
    BY <1>21, IncidentAdds DEF ImportFails, Typing, NoImport
<1> QED
    BY <1>2, <1>3, <1>4, <1>5, <1>6, <1>7, <1>8, <1>10, <1>11, <1>12, <1>13, <1>15, <1>16, <1>17,
       <1>19, <1>20, <1>21, NextIs DEF Step

-----------------------------------------------------------------------------
(* The cancels *)

\* What must not have happened
LEMMA CalmExcludes ==
    ASSUME Typing, Calm', NEW kind, kind \notin Harmless
    PROVE  ~ Incident(kind) /\ (InTime(kind) => immediates = <<>>)
BY IncidentAdds, InTimeIs DEF Calm, Typing

LEMMA CalmNoImport ==
    ASSUME Calm
    PROVE  NoImport
BY DEF Calm, NoImport, Harmless

\* What the callback belongs to
LEMMA OneCancelIs ==
    ASSUME CancelAwaited, immediates # <<>>
    PROVE  /\ Head(immediates)[1] = Len(streams) /\ Tail(immediates) = <<>>
           /\ pending # {} /\ current # 0 /\ reached
           /\ \E b \in Block : CancelAwaits(b) /\ <<"tx", b>> \in pending
<1>1. PICK b \in Block, listener \in {"E", "P"} :
          immediates = << <<Len(streams), listener, b>> >> /\ <<"tx", b>> \in pending
    BY DEF CancelAwaited, OneCancel
<1>2. Head(immediates)[1] = Len(streams) /\ Tail(immediates) = <<>>
    BY <1>1
<1>3. 1 \in DOMAIN immediates /\ immediates[1][3] = b
    BY <1>1
<1> QED
    BY <1>1, <1>2, <1>3 DEF CancelAwaited, CancelAwaits

\* The key of the job's transaction stays.
LEMMA OneCancelStands ==
    ASSUME OneCancel, UNCHANGED immediates, Len(streams') = Len(streams), Block' = Block,
           \A b \in Block : CancelAwaits(b) /\ <<"tx", b>> \in pending => <<"tx", b>> \in pending'
    PROVE  OneCancel'
<1>1. PICK b \in Block, listener \in {"E", "P"} :
          immediates = << <<Len(streams), listener, b>> >> /\ <<"tx", b>> \in pending
    BY DEF OneCancel
<1>2. 1 \in DOMAIN immediates /\ immediates[1][3] = b
    BY <1>1
<1>3. CancelAwaits(b)
    BY <1>2 DEF CancelAwaits
<1> QED
    BY <1>1, <1>3 DEF OneCancel

\* The queues, and the cancel that is scheduled, stay what they are.
LEMMA CancelStands ==
    ASSUME CancelAwaited, Block' = Block, UNCHANGED <<uncaught, stopping, immediates, reached>>,
           Len(streams') = Len(streams), DOMAIN streams' = DOMAIN streams,
           \A k \in DOMAIN streams : SameQueue(streams[k], streams'[k]),
           current' = current \/ immediates = <<>>,
           \A b \in Block : CancelAwaits(b) /\ <<"tx", b>> \in pending => <<"tx", b>> \in pending',
           \/ /\ outcome' \in {outcome, "pending"}
              /\ \A k \in DOMAIN streams : streams'[k].closing => streams[k].closing
           \/ immediates = <<>> /\ \A k \in DOMAIN streams : streams[k].turn # "E"
    PROVE  CancelAwaited'
<1>1. \A k \in DOMAIN streams' : QueueOK(k)'
    BY DEF CancelAwaited, SameQueue, QueueOK
<1>2. outcome' # "pending" \/ (\E k \in DOMAIN streams' : streams'[k].closing) =>
          immediates' = <<>> /\ \A k \in DOMAIN streams' : streams'[k].turn # "E"
    BY DEF CancelAwaited, SameQueue
<1>3. immediates' # <<>> => OneCancel' /\ current' # 0 /\ reached'
    BY OneCancelStands DEF CancelAwaited
<1> QED
    BY <1>1, <1>2, <1>3 DEF CancelAwaited

\* A chunk in a queue that waits for nothing is started; one behind a job that
\* waits for its cancel waits, too.
LEMMA CancelReceived ==
    ASSUME Typing, WireOK, CancelAwaited, Calm, ~ Microtasks, Block' = Block,
           NEW i \in DOMAIN streams, streams[i].live,
           NEW chunk, Handed(i, chunk, streams'), immediates = <<>> \/ chunk[1] = "block",
           UNCHANGED <<uncaught, stopping, immediates, reached, current, pending, outcome>>
    PROVE  CancelAwaited'
<1> DEFINE n == Len(streams)
<1>1. /\ DOMAIN streams' = DOMAIN streams /\ Len(streams') = n /\ n \in DOMAIN streams
      /\ streams[n].jobs \in Seq(Chunk)
    <2>1. streams \in Seq(Stream) /\ DOMAIN streams = 1..n /\ n \in DOMAIN streams
        BY DEF Typing, WireTyped
    <2>2. streams[n] \in Stream
        BY <2>1
    <2> QED
        BY <2>1, <2>2 DEF Handed, Stream, Chunk
<1>2. NoImport /\ outcome = "pending" /\ i = n
    BY CalmNoImport DEF WireOK, Awaited
<1>3. \A k \in DOMAIN streams : ~ streams[k].closing
    BY <1>2 DEF WireOK, Awaited
<1>4. \A k \in DOMAIN streams' : ~ streams'[k].closing
    BY <1>1, <1>3 DEF Handed, SameLine
<1>5. \A k \in DOMAIN streams : streams[k].turn = "none" /\ QueueOK(k)
    BY NoTurns DEF CancelAwaited
<1>6. ASSUME NEW k \in DOMAIN streams, k # n PROVE QueueOK(k)'
    <2>1. SameQueue(streams[k], streams'[k])
        BY <1>6 DEF Handed
    <2> QED
        BY <1>1, <1>5, <1>6, <2>1 DEF QueueOK, SameQueue
<1>7. QueueOK(n)'
    <2>1. /\ streams'[n].jobs = Append(streams[n].jobs, chunk)
          /\ streams'[n].turn = (IF streams[n].listens THEN "E" ELSE "none") /\ ~ streams'[n].listens
        BY DEF Handed
    <2>2. CASE immediates = <<>>
        <3>1. streams[n].jobs = <<>> /\ streams[n].listens
            BY <1>1, <1>5, <2>2 DEF QueueOK
        <3>2. Len(streams'[n].jobs) = 1 /\ streams'[n].turn = "E"
            BY <2>1, <3>1
        <3> QED
            BY <1>1, <2>1, <2>2, <3>2 DEF QueueOK
    <2>3. CASE immediates # <<>>
        <3>1. ~ streams[n].listens /\ \A m \in DOMAIN streams[n].jobs : streams[n].jobs[m][1] = "block"
            BY <1>1, <1>5, <2>3 DEF QueueOK
        <3>2. streams'[n].turn = "none" /\ chunk[1] = "block"
            BY <2>1, <2>3, <3>1
        <3>3. \A m \in DOMAIN streams'[n].jobs : streams'[n].jobs[m][1] = "block"
            <4>1. PICK jobs \in Seq(Chunk) : jobs = streams[n].jobs
                BY <1>1
            <4>2. PICK more : more = Append(jobs, chunk)
                OBVIOUS
            <4>3. /\ DOMAIN more = 1..(Len(jobs) + 1) /\ DOMAIN jobs = 1..Len(jobs) /\ Len(jobs) \in Nat
                  /\ more[Len(jobs) + 1] = chunk /\ \A m \in 1..Len(jobs) : more[m] = jobs[m]
                BY <4>2
            <4>4. ASSUME NEW m \in DOMAIN more PROVE more[m][1] = "block"
                <5>1. CASE m = Len(jobs) + 1
                    BY <3>2, <4>3, <5>1
                <5>2. CASE m # Len(jobs) + 1
                    <6>1. m \in 1..Len(jobs)
                        BY <4>3, <5>2
                    <6> QED
                        BY <3>1, <4>1, <4>3, <6>1
                <5> QED
                    BY <5>1, <5>2
            <4> QED
                BY <2>1, <4>1, <4>2, <4>4
        <3> QED
            BY <1>1, <2>1, <2>3, <3>2, <3>3 DEF QueueOK
    <2> QED
        BY <2>2, <2>3
<1>8. \A k \in DOMAIN streams' : QueueOK(k)'
    BY <1>1, <1>6, <1>7
<1>9. OneCancel => OneCancel'
    BY <1>1, OneCancelStands
<1> QED
    BY <1>1, <1>2, <1>4, <1>8, <1>9 DEF CancelAwaited

\* The job that starts is in the queue of the newest stream; that of a
\* transaction is alone there.
LEMMA JobIs ==
    ASSUME Typing, CancelAwaited, NEW i \in DOMAIN streams, NEW kind, JobStarts(i, kind)
    PROVE  /\ i = Len(streams) /\ streams[i].turn # "none" /\ immediates = <<>>
           /\ streams[i].jobs \in Seq(Chunk) /\ streams[i].jobs # <<>>
           /\ kind = "tx" => /\ streams[i].turn = "E" /\ Tail(streams[i].jobs) = <<>>
                             /\ ~ streams[i].listens
           /\ streams[i].turn = "E" => Tail(streams[i].jobs) = <<>>
           /\ streams[i].turn = "P" =>
                  \A m \in DOMAIN Tail(streams[i].jobs) : Tail(streams[i].jobs)[m][1] = "block"
<1>1. /\ streams[i].turn # "none" /\ Head(streams[i].jobs)[1] = kind /\ QueueOK(i)
      /\ streams[i] \in Stream /\ streams[i].jobs # <<>>
    BY DEF JobStarts, CancelAwaited, Typing, WireTyped
<1>2. PICK jobs \in Seq(Chunk) : jobs = streams[i].jobs
    BY <1>1 DEF Stream, Chunk
<1>3. i = Len(streams) /\ immediates = <<>> /\ streams[i].turn \in {"E", "P"}
    BY <1>1 DEF QueueOK, Stream
<1>4. CASE streams[i].turn = "E"
    <2>1. Len(jobs) = 1 /\ ~ streams[i].listens
        BY <1>1, <1>2, <1>4 DEF QueueOK
    <2>2. Tail(jobs) = <<>>
        <3>1. jobs # <<>>
            BY <1>1, <1>2
        <3>2. Tail(jobs) \in Seq(Chunk) /\ Len(Tail(jobs)) = 0
            BY <2>1, <3>1, HeadTailProperties
        <3> QED
            BY <3>2, EmptySeq
    <2> QED
        BY <1>1, <1>2, <1>3, <1>4, <2>1, <2>2
<1>5. CASE streams[i].turn = "P"
    <2>1. \A m \in DOMAIN jobs : jobs[m][1] = "block"
        BY <1>1, <1>2, <1>5 DEF QueueOK
    <2>2. /\ jobs # <<>> /\ Head(jobs) = jobs[1] /\ 1 \in DOMAIN jobs
          /\ DOMAIN Tail(jobs) = 1..(Len(jobs) - 1) /\ DOMAIN jobs = 1..Len(jobs)
          /\ Len(jobs) \in Nat /\ \A m \in 1..(Len(jobs) - 1) : Tail(jobs)[m] = jobs[m + 1]
        <3>1. jobs # <<>> /\ DOMAIN jobs = 1..Len(jobs) /\ Len(jobs) \in Nat /\ Len(jobs) # 0
            BY <1>1, <1>2
        <3>2. Head(jobs) = jobs[1] /\ 1 \in DOMAIN jobs
            BY <3>1
        <3>3. Len(Tail(jobs)) = Len(jobs) - 1 /\ Tail(jobs) \in Seq(Chunk)
            BY <3>1
        <3>4. \A m \in 1..(Len(jobs) - 1) : Tail(jobs)[m] = jobs[m + 1]
            BY <3>1
        <3> QED
            BY <3>1, <3>2, <3>3, <3>4
    <2>3. kind = "block"
        BY <1>1, <1>2, <2>1, <2>2
    <2>4. ASSUME NEW m \in DOMAIN Tail(jobs) PROVE Tail(jobs)[m][1] = "block"
        <3>1. m + 1 \in DOMAIN jobs /\ Tail(jobs)[m] = jobs[m + 1]
            BY <2>2
        <3> QED
            BY <2>1, <3>1
    <2> QED
        BY <1>1, <1>2, <1>3, <1>5, <2>3, <2>4
<1> QED
    BY <1>3, <1>4, <1>5

\* The queues of the other streams are empty.
LEMMA OthersEmpty ==
    ASSUME CancelAwaited, NEW k \in DOMAIN streams, k # Len(streams),
           SameQueue(streams[k], streams'[k]), Len(streams') = Len(streams)
    PROVE  QueueOK(k)' /\ streams[k].turn = "none" /\ streams'[k].turn = "none"
<1>1. QueueOK(k)
    BY DEF CancelAwaited
<1> QED
    BY <1>1 DEF QueueOK, SameQueue

\* The queue of a job that ends is empty, or goes on with Merkle blocks.
LEMMA CancelWorked ==
    ASSUME Typing, CancelAwaited, NEW i \in DOMAIN streams, streams[i].turn # "none",
           Worked(i, streams'), NEW kind, JobStarts(i, kind),
           streams'[i].turn = (IF streams'[i].jobs = <<>> THEN "none" ELSE "P"),
           streams'[i].jobs = <<>> => streams'[i].listens,
           UNCHANGED <<uncaught, stopping, immediates, outcome>>
    PROVE  CancelAwaited'
<1>1. /\ i = Len(streams) /\ immediates = <<>>
      /\ streams[i].turn = "E" => Tail(streams[i].jobs) = <<>>
      /\ streams[i].turn = "P" =>
             \A m \in DOMAIN Tail(streams[i].jobs) : Tail(streams[i].jobs)[m][1] = "block"
      /\ streams[i].turn \in {"E", "P"}
    <2>1. streams[i] \in Stream
        BY DEF Typing, WireTyped
    <2>2. streams[i].turn \in {"E", "P"}
        BY <2>1 DEF Stream
    <2> QED
        BY <2>2, JobIs
<1>2. /\ streams'[i].jobs = Tail(streams[i].jobs)
      /\ DOMAIN streams' = DOMAIN streams /\ Len(streams') = Len(streams)
      /\ \A k \in DOMAIN streams : k # i => SameQueue(streams[k], streams'[k])
    BY DEF Worked
<1>3. QueueOK(i)'
    BY <1>1, <1>2 DEF QueueOK
<1>4. ASSUME NEW k \in DOMAIN streams PROVE QueueOK(k)' /\ streams'[k].turn # "E"
    BY <1>1, <1>2, <1>3, OthersEmpty
<1> QED
    BY <1>1, <1>2, <1>4 DEF CancelAwaited

\* A transaction's job that waits has scheduled the only cancel.
LEMMA CancelScheduled ==
    ASSUME Typing, CancelAwaited, Block' = Block, NEW i \in DOMAIN streams, ProcessTransaction(i),
           reached', current # 0
    PROVE  CancelAwaited'
<1>1. /\ i = Len(streams) /\ immediates = <<>> /\ streams[i].turn = "E"
      /\ Tail(streams[i].jobs) = <<>> /\ ~ streams[i].listens
    BY JobIs DEF ProcessTransaction
<1>2. /\ Worked(i, streams') /\ immediates' = Append(immediates, <<i, streams[i].turn, JobBlock(i)>>)
      /\ streams'[i].turn = "none" /\ streams'[i].listens = streams[i].listens
    BY TransactionProcessed
<1>3. immediates' = << <<Len(streams), "E", JobBlock(i)>> >> /\ immediates' # <<>>
    BY <1>1, <1>2
<1>4. /\ streams'[i].jobs = Tail(streams[i].jobs)
      /\ DOMAIN streams' = DOMAIN streams /\ Len(streams') = Len(streams)
      /\ \A k \in DOMAIN streams : k # i => SameQueue(streams[k], streams'[k])
      /\ \A k \in DOMAIN streams : SameLine(streams[k], streams'[k])
    BY <1>2 DEF Worked
<1>5. QueueOK(i)'
    BY <1>1, <1>2, <1>3, <1>4 DEF QueueOK
<1>6. ASSUME NEW k \in DOMAIN streams PROVE QueueOK(k)'
    BY <1>1, <1>4, <1>5, OthersEmpty
<1>7. UNCHANGED <<uncaught, stopping, outcome, current>> /\ OneCancel'
    <2>1. /\ UNCHANGED <<uncaught, stopping, outcome, current>>
          /\ <<"tx", JobBlock(i)>> \in pending' /\ JobBlock(i) \in Block
        BY TransactionProcessed DEF ProcessTransaction, world, frame
    <2> QED
        BY <1>3, <1>4, <2>1 DEF OneCancel
<1>8. outcome = "pending" /\ \A k \in DOMAIN streams : ~ streams[k].closing
    BY <1>1 DEF CancelAwaited
<1>9. \A k \in DOMAIN streams' : ~ streams'[k].closing
    BY <1>4, <1>8 DEF SameLine
<1> QED
    BY <1>3, <1>4, <1>6, <1>7, <1>8, <1>9 DEF CancelAwaited

\* The callback finds this.stream, and its job ends.
LEMMA CancelCalled ==
    ASSUME Typing, FrameOK, CancelAwaited, JobCancels
    PROVE  CancelAwaited' /\ current # 0
<1>1. /\ immediates # <<>> /\ immediates' = Tail(immediates) /\ UNCHANGED stopping /\ ~ Microtasks
    BY DEF JobCancels
<1>2. /\ current # 0 /\ current = Len(streams) /\ current \in DOMAIN streams
    BY <1>1 DEF CancelAwaited, FrameOK, Typing, WireTyped
<1>3. Head(immediates)[1] = Len(streams) /\ immediates' = <<>>
    BY <1>1, OneCancelIs
<1>4. CancelledLine(current, streams') /\ uncaught' = uncaught
    BY <1>2, JobCancelled DEF JobCancels
<1>5. /\ DOMAIN streams' = DOMAIN streams /\ Len(streams') = Len(streams)
      /\ \A k \in DOMAIN streams : streams'[k].jobs = streams[k].jobs
    BY <1>4 DEF CancelledLine
<1>6. /\ \A k \in DOMAIN streams : k # Len(streams) => SameQueue(streams[k], streams'[k])
      /\ streams'[Len(streams)].turn = (IF streams[Len(streams)].jobs = <<>> THEN "none" ELSE "P")
      /\ streams[Len(streams)].jobs = <<>> => streams'[Len(streams)].listens
    BY <1>2, <1>3, JobCancelled
<1>7. PICK n : n = Len(streams)
    OBVIOUS
<1>8. QueueOK(n)' /\ streams'[n].turn # "E"
    <2>1. QueueOK(n)
        BY <1>2, <1>7 DEF CancelAwaited
    <2>2. \A m \in DOMAIN streams[n].jobs : streams[n].jobs[m][1] = "block"
        BY <1>1, <2>1 DEF QueueOK
    <2>3. /\ streams'[n].turn = (IF streams'[n].jobs = <<>> THEN "none" ELSE "P")
          /\ streams'[n].jobs = <<>> => streams'[n].listens
          /\ \A m \in DOMAIN streams'[n].jobs : streams'[n].jobs[m][1] = "block"
          /\ Len(streams') = n
        BY <1>2, <1>5, <1>6, <1>7, <2>2
    <2> QED
        BY <1>3, <2>3 DEF QueueOK
<1>9. ASSUME NEW k \in DOMAIN streams PROVE QueueOK(k)' /\ streams'[k].turn # "E"
    BY <1>5, <1>6, <1>7, <1>8, OthersEmpty
<1> QED
    BY <1>1, <1>2, <1>3, <1>4, <1>5, <1>9 DEF CancelAwaited

LEMMA CancelKept ==
    ASSUME Typing, FrameOK, WireOK, CancelOK, Next
    PROVE  CancelOK'
<1> USE DEF wire, frame, account, metadata, control, world
<1> SUFFICES ASSUME Calm' PROVE CancelAwaited'
    BY DEF CancelOK
<1>0. /\ Calm /\ CancelAwaited /\ NoImport /\ streams \in Seq(Stream)
      /\ ~ Incident("best") /\ ~ Incident("subscribe") /\ ~ Incident("import") /\ ~ Incident("stream")
      /\ ~ Incident("server") /\ ~ Incident("unmined") /\ ~ Incident("stop") /\ ~ Incident("answer")
      /\ InTime("burst") => immediates = <<>>
      /\ Block' = Block
    BY SameWorld, CalmNoImport, CalmExcludes DEF CancelOK, Harmless, Typing, WireTyped
<1>1. ASSUME NEW all \in BOOLEAN, NEW h, Start(all, h) PROVE CancelAwaited'
    <2>1. /\ UNCHANGED <<uncaught, stopping, immediates, reached, streams, pending>>
          /\ outcome' = "pending"
        BY <1>1, StartResumes DEF Start, Resumed
    <2>2. streams = <<>> /\ immediates = <<>>
        BY <1>1 DEF Start, FrameOK
    <2> QED
        BY <1>0, <2>1, <2>2, CancelStands DEF SameQueue
<1>2. CASE BestHeightAnswered
    <2>1. UNCHANGED <<uncaught, stopping, immediates, reached, streams, pending, outcome, current>>
        BY <1>2 DEF BestHeightAnswered
    <2> QED
        BY <1>0, <2>1, CancelStands DEF SameQueue, CancelAwaited
<1>3. CASE Subscribed
    <2>1. /\ pc = "subscribe" /\ current = 0 /\ outcome' = "pending" /\ ~ Microtasks
          /\ UNCHANGED <<uncaught, stopping, immediates>>
        BY <1>3 DEF Subscribed, FrameOK
    <2>2. PICK n : n = Len(streams)
        OBVIOUS
    <2>3. /\ n \in Nat /\ Len(streams') = n + 1 /\ DOMAIN streams' = 1..(n + 1)
          /\ streams'[n + 1] = Opened /\ DOMAIN streams = 1..n
          /\ \A k \in DOMAIN streams : streams'[k] = streams[k]
        BY <1>3, <2>2, SubscribedOpens
    <2>4. immediates = <<>> /\ immediates' = <<>>
        BY <1>0, <2>1 DEF CancelAwaited
    <2>5. ASSUME NEW k \in DOMAIN streams'
          PROVE  streams'[k].turn = "none" /\ streams'[k].jobs = <<>> /\ streams'[k].listens
        <3>1. CASE k = n + 1
            BY <2>3, <3>1 DEF Opened
        <3>2. CASE k # n + 1
            <4>1. k \in DOMAIN streams /\ streams'[k] = streams[k]
                BY <2>3, <3>2
            <4>2. QueueOK(k) /\ streams[k].turn = "none"
                BY <1>0, <2>1, <4>1, NoTurns DEF CancelAwaited
            <4> QED
                BY <2>4, <4>1, <4>2 DEF QueueOK
        <3> QED
            BY <3>1, <3>2
    <2>6. \A k \in DOMAIN streams' : QueueOK(k)'
        BY <2>4, <2>5 DEF QueueOK
    <2> QED
        BY <1>0, <2>1, <2>4, <2>5, <2>6 DEF CancelAwaited
<1>4. CASE Continue
    <2>1. /\ UNCHANGED <<uncaught, stopping, immediates, reached, streams, pending>>
          /\ outcome' = "pending" /\ outcome # "pending"
        BY <1>4, ContinueResumes DEF Continue, Resumed
    <2>2. immediates = <<>>
        BY <1>0, <2>1 DEF CancelAwaited
    <2> QED
        BY <1>0, <2>1, <2>2, CancelStands DEF SameQueue
<1>5. ASSUME NEW i \in DOMAIN streams, ReceiveTransaction(i) \/ ReceiveMerkleBlock(i)
      PROVE  CancelAwaited'
    <2>1. /\ ~ Microtasks /\ streams[i].live
          /\ UNCHANGED <<uncaught, stopping, immediates, reached, current, pending, outcome>>
        BY <1>5, InTimeIs DEF ReceiveTransaction, ReceiveMerkleBlock, Receives, Typing
    <2>2. CASE ReceiveTransaction(i)
        <3>1. PICK b \in Block : Handed(i, <<"tx", b>>, streams')
            BY <2>2, TransactionReceived
        <3>2. immediates = <<>>
            BY <1>0, <2>2 DEF ReceiveTransaction
        <3> QED
            BY <1>0, <2>1, <3>1, <3>2, CancelReceived
    <2>3. CASE ReceiveMerkleBlock(i)
        <3>1. PICK chunk : chunk = <<"block", streams[i].due>>
            OBVIOUS
        <3>2. Handed(i, chunk, streams') /\ chunk[1] = "block"
            BY <2>3, <3>1, MerkleBlockReceived
        <3> QED
            BY <1>0, <2>1, <3>2, CancelReceived
    <2> QED
        BY <1>5, <2>2, <2>3
<1>6. ASSUME NEW i \in DOMAIN streams, NEW live, NEW closing, LineSet(i, live, closing, streams'),
             UNCHANGED <<uncaught, stopping, immediates, reached, pending>>, ~ Microtasks,
             \A k \in DOMAIN streams : streams'[k].closing => streams[k].closing,
             outcome' = outcome \/ immediates = <<>>, current' = current \/ immediates = <<>>
      PROVE  CancelAwaited'
    <2>1. \A k \in DOMAIN streams : streams[k].turn # "E"
        BY <1>6, NoTurns
    <2>2. /\ Len(streams') = Len(streams) /\ DOMAIN streams' = DOMAIN streams
          /\ \A k \in DOMAIN streams : SameQueue(streams[k], streams'[k])
        BY <1>6 DEF LineSet
    <2> QED
        BY <1>0, <1>6, <2>1, <2>2, CancelStands
<1>7. ASSUME NEW i \in DOMAIN streams, StreamEnds(i) PROVE CancelAwaited'
    <2>1. /\ LineSet(i, FALSE, streams[i].closing, streams') /\ ~ Microtasks
          /\ UNCHANGED <<uncaught, stopping, immediates, reached, pending>>
        BY <1>0, <1>7, StreamEnded DEF StreamEnds, Receives
    <2>2. (outcome' = outcome /\ current' = current) \/ immediates = <<>>
        BY <1>0, <1>7, OneCancelIs DEF StreamEnds, EndHandler
    <2>3. \A k \in DOMAIN streams : streams'[k].closing => streams[k].closing
        BY <2>1 DEF LineSet
    <2> QED
        BY <1>6, <2>1, <2>2, <2>3
<1>8. ASSUME NEW i \in DOMAIN streams, EndingResumes(i) PROVE CancelAwaited'
    <2>1. /\ UNCHANGED <<uncaught, stopping, immediates, reached, pending, streams>>
          /\ ~ Microtasks /\ immediates = <<>>
        BY <1>0, <1>8, OneCancelIs DEF EndingResumes
    <2>2. \A k \in DOMAIN streams : streams[k].turn # "E"
        BY <2>1, NoTurns
    <2> QED
        BY <1>0, <2>1, <2>2, CancelStands DEF SameQueue
<1>9. ASSUME NEW i \in DOMAIN streams, CancelEmitsError(i) PROVE CancelAwaited'
    <2>1. /\ LineSet(i, streams[i].live, FALSE, streams') /\ ~ Microtasks /\ streams[i].closing
          /\ UNCHANGED <<uncaught, stopping, immediates, reached, pending, current>>
        BY <1>9, ErrorEmitted DEF CancelEmitsError
    <2>2. immediates = <<>>
        BY <1>0, <2>1 DEF CancelAwaited
    <2>3. \A k \in DOMAIN streams : streams'[k].closing => streams[k].closing
        BY <2>1 DEF LineSet
    <2> QED
        BY <1>6, <2>1, <2>2, <2>3
<1>10. ASSUME NEW i \in DOMAIN streams, ProcessTransaction(i) PROVE CancelAwaited'
    <2>1. CASE reached' /\ current # 0
        BY <1>0, <1>10, <2>1, CancelScheduled
    <2>2. CASE ~ (reached' /\ current # 0)
        <3>1. /\ JobStarts(i, "tx") /\ UNCHANGED <<uncaught, stopping, outcome>>
              /\ streams[i].turn # "none"
            BY <1>10 DEF ProcessTransaction, JobStarts
        <3> QED
            BY <1>0, <1>10, <2>2, <3>1, TransactionProcessed, CancelWorked
    <2> QED
        BY <2>1, <2>2
<1>11. ASSUME NEW i \in DOMAIN streams, ProcessMerkleBlock(i) PROVE CancelAwaited'
    <2>1. /\ JobStarts(i, "block") /\ UNCHANGED <<uncaught, stopping, immediates, outcome>>
          /\ streams[i].turn # "none"
        BY <1>11 DEF ProcessMerkleBlock, JobStarts
    <2> QED
        BY <1>0, <1>11, <2>1, MerkleBlockProcessed, CancelWorked
<1>12. CASE JobCancels
    BY <1>0, <1>12, CancelCalled
<1>13. ASSUME UNCHANGED <<uncaught, stopping, immediates, reached, streams, outcome, current>>,
              \A b \in Block : CancelAwaits(b) /\ <<"tx", b>> \in pending => <<"tx", b>> \in pending'
       PROVE  CancelAwaited'
    BY <1>0, <1>13, CancelStands DEF SameQueue
<1>14. ASSUME NEW b \in Block,
              TransactionAnswered(b) \/ \E stage \in Stages : RequestFails(b, stage)
       PROVE  CancelAwaited'
    <2>1. uncaught' = uncaught /\ pending \subseteq pending'
        BY <1>14, IncidentAdds DEF TransactionAnswered, RequestFails, Typing
    <2> QED
        BY <1>13, <1>14, <2>1 DEF TransactionAnswered, RequestFails
<1>15. CASE Mine
    <2>1. pending \subseteq pending'
        BY <1>15 DEF Mine
    <2> QED
        BY <1>13, <1>15, <2>1 DEF Mine
<1>16. ASSUME StopResumes \/ StopCancels PROVE FALSE
    <2>1. CASE StopResumes
        BY <1>0, <2>1 DEF StopResumes, CancelAwaited
    <2>2. CASE StopCancels
        <3>1. immediates # <<>> /\ Head(immediates)[1] = 0
            BY <2>2 DEF StopCancels
        <3>2. Head(immediates)[1] = current /\ current # 0
            BY <1>0, <3>1, OneCancelIs DEF FrameOK
        <3> QED
            BY <3>1, <3>2
    <2> QED
        BY <1>16, <2>1, <2>2
<1>17. ASSUME NEW b \in Block, HeaderAnswered(b) PROVE CancelAwaited'
    <2>1. ~ CancelAwaits(b) /\ uncaught' = uncaught
        BY <1>0, <1>17 DEF HeaderAnswered
    <2>2. ASSUME NEW c \in Block, CancelAwaits(c), <<"tx", c>> \in pending
          PROVE  <<"tx", c>> \in pending'
        <3>1. c # b
            BY <2>1, <2>2
        <3>2. <<"tx", c>> \notin KeysOf(b)
            BY <3>1 DEF KeysOf
        <3> QED
            BY <1>17, <2>2, <3>2 DEF HeaderAnswered
    <2> QED
        BY <1>13, <1>17, <2>1, <2>2 DEF HeaderAnswered
<1> QED
    BY <1>0, <1>1, <1>2, <1>3, <1>4, <1>5, <1>7, <1>8, <1>9, <1>10, <1>11, <1>12, <1>14, <1>15,
       <1>16, <1>17, NextIs
    DEF Step, BestHeightFails, SubscriptionFails, ReceiveUnmined, StreamFails, ImportFails, Stop

-----------------------------------------------------------------------------
(* The blocks that are due *)

LEMMA ScanTyped ==
    ASSUME NEW chain \in Seq(SUBSET Nat), NEW start \in Nat, NEW scan, scan = ScanOf(chain, start)
    PROVE  \A b \in 0..Len(chain) : scan[b] \in Nat
<1>1. Gap \in Nat /\ Len(chain) \in Nat /\ \A b \in 1..Len(chain) : chain[b] \in SUBSET Nat
    BY SyncAssumption
<1>2. \A b \in 0..Len(chain) :
          scan[b] = IF b = 0 \/ b < start THEN Gap ELSE Grown(chain[b], scan[b - 1])
    BY ScanUnfolds
<1> DEFINE untyped == {b \in 0..Len(chain) : scan[b] \notin Nat}
<1>3. CASE untyped # {}
    <2>1. untyped \in SUBSET Nat
        BY <1>1
    <2>2. PICK b \in untyped : \A c \in untyped : b <= c
        BY <1>3, <2>1, MinIsLeast
    <2>3. b \in 0..Len(chain) /\ scan[b] \notin Nat
        OBVIOUS
    <2>4. b # 0 /\ ~ (b < start)
        BY <1>1, <1>2, <2>3
    <2>5. b - 1 \in 0..Len(chain) /\ b - 1 \notin untyped
        <3>1. b \in Nat /\ b - 1 \in 0..Len(chain) /\ ~ (b <= b - 1)
            BY <1>1, <2>3, <2>4
        <3> HIDE DEF untyped
        <3> QED
            BY <2>2, <3>1
    <2>6. scan[b - 1] \in Nat /\ chain[b] \in SUBSET Nat
        BY <1>1, <2>3, <2>4, <2>5
    <2>7. scan[b] \in Nat
        BY <1>2, <2>3, <2>4, <2>6, GrownIs
    <2> QED
        BY <2>3, <2>7
<1> QED
    BY <1>3

\* Who has found all that is due before block n has at least the addresses
\* that a scan has there.
LEMMA KnownCovers ==
    ASSUME NEW chain \in Seq(SUBSET Nat), NEW start \in Nat, NEW found \in SUBSET DOMAIN chain,
           NEW count \in Nat, count >= Gap, Covered(chain, start, found, count),
           NEW n \in Nat, Complete(chain, start, found, n),
           NEW m \in 0..Len(chain), m < n
    PROVE  count >= ScanOf(chain, start)[m]
<1>0. PICK scan : scan = ScanOf(chain, start)
    OBVIOUS
<1>1. Gap \in Nat /\ Len(chain) \in Nat /\ DOMAIN chain = 1..Len(chain)
      /\ \A b \in 1..Len(chain) : chain[b] \in SUBSET Nat
    BY SyncAssumption
<1>2. \A b \in 0..Len(chain) :
          scan[b] = IF b = 0 \/ b < start THEN Gap ELSE Grown(chain[b], scan[b - 1])
    BY <1>0, ScanUnfolds
<1>3. \A b \in 0..Len(chain) : scan[b] \in Nat
    BY <1>0, ScanTyped
<1> DEFINE ahead == {b \in 0..Len(chain) : b < n /\ scan[b] > count}
<1>4. CASE ahead # {}
    <2>1. ahead \in SUBSET Nat
        BY <1>1
    <2>2. PICK b \in ahead : \A c \in ahead : b <= c
        BY <1>4, <2>1, MinIsLeast
    <2>3. b \in 0..Len(chain) /\ b < n /\ scan[b] > count
        OBVIOUS
    <2>4. b # 0 /\ ~ (b < start)
        BY <1>1, <1>2, <2>3
    <2>5. b \in 1..Len(chain) /\ b - 1 \in 0..Len(chain) /\ b - 1 < n /\ start <= b
        BY <1>1, <2>3, <2>4
    <2>6. scan[b - 1] <= count /\ scan[b - 1] \in Nat
        <3>1. b \in Nat /\ ~ (b <= b - 1)
            BY <2>5
        <3>2. b - 1 \notin ahead
            <4> HIDE DEF ahead
            <4> QED
                BY <2>2, <3>1
        <3> QED
            BY <1>3, <2>5, <3>2
    <2>7. scan[b] = Grown(chain[b], scan[b - 1]) /\ scan[b] # scan[b - 1]
        BY <1>2, <2>3, <2>4, <2>6
    <2>8. \E a \in chain[b] : a < scan[b - 1]
        BY <1>1, <2>5, <2>6, <2>7, GrownIs
    <2>9. DueIn(chain, start, b)
        BY <1>0, <2>5, <2>8 DEF DueIn
    <2>10. b \in found
        BY <1>1, <2>3, <2>5, <2>9 DEF Complete
    <2>11. count >= scan[b]
        BY <1>0, <2>10 DEF Covered
    <2> QED
        BY <1>3, <2>3, <2>11
<1>5. CASE ahead = {}
    <2>1. ~ (scan[m] > count)
        BY <1>5
    <2> QED
        BY <1>0, <1>3, <2>1
<1> QED
    BY <1>4, <1>5

\* Nothing due is left before block n if all of it was found before an earlier
\* one, and no block between them uses an address of the account.
LEMMA CompleteGoesOn ==
    ASSUME NEW chain \in Seq(SUBSET Nat), NEW start \in Nat, NEW found \in SUBSET DOMAIN chain,
           NEW count \in Nat, count >= Gap, Covered(chain, start, found, count),
           NEW first \in Nat, Complete(chain, start, found, first), NEW n \in Nat,
           \A b \in DOMAIN chain : b >= first /\ b < n => ~ \E a \in chain[b] : a < count
    PROVE  Complete(chain, start, found, n)
<1>1. Len(chain) \in Nat /\ DOMAIN chain = 1..Len(chain)
      /\ \A b \in 1..Len(chain) : chain[b] \in SUBSET Nat
    OBVIOUS
<1> DEFINE missed == {b \in DOMAIN chain : b < n /\ DueIn(chain, start, b) /\ b \notin found}
<1>2. CASE missed # {}
    <2>1. missed \in SUBSET Nat
        BY <1>1
    <2>2. PICK b \in missed : \A c \in missed : b <= c
        BY <1>2, <2>1, MinIsLeast
    <2>3. b \in DOMAIN chain /\ b < n /\ DueIn(chain, start, b) /\ b \notin found /\ b \in Nat
        BY <1>1
    <2>4. Complete(chain, start, found, b)
        <3>1. ASSUME NEW c \in DOMAIN chain, c < b, DueIn(chain, start, c) PROVE c \in found
            <4>1. c \in Nat /\ c < n /\ ~ (b <= c)
                BY <1>1, <2>3, <3>1
            <4>2. c \notin missed
                <5> HIDE DEF missed
                <5> QED
                    BY <2>2, <4>1
            <4> QED
                BY <3>1, <4>1, <4>2
        <3> QED
            BY <3>1 DEF Complete
    <2>5. b - 1 \in 0..Len(chain) /\ b - 1 < b
        BY <1>1, <2>3
    <2>6. count >= ScanOf(chain, start)[b - 1]
        BY <2>3, <2>4, <2>5, KnownCovers
    <2>7. PICK a \in chain[b] : a < ScanOf(chain, start)[b - 1]
        BY <2>3 DEF DueIn
    <2>8. a < count
        <3>1. a \in Nat
            BY <1>1, <2>3
        <3>2. ScanOf(chain, start)[b - 1] \in Nat
            BY <2>5, ScanTyped
        <3> QED
            BY <2>6, <2>7, <3>1, <3>2
    <2>9. b >= first
        BY <1>1, <2>3 DEF Complete
    <2> QED
        BY <2>3, <2>8, <2>9
<1>3. CASE missed = {}
    BY <1>3 DEF Complete
<1> QED
    BY <1>2, <1>3

LEMMA CompleteGrows ==
    ASSUME NEW chain \in Seq(SUBSET Nat), NEW start, NEW found, NEW more, found \subseteq more,
           NEW n \in Int, NEW m \in Int, m <= n, Complete(chain, start, found, n)
    PROVE  Complete(chain, start, more, m)
BY DEF Complete

\* Nothing is due before the height the account starts from.
LEMMA CompleteAtFirst ==
    ASSUME NEW chain \in Seq(SUBSET Nat), NEW start \in Nat, NEW found, NEW n \in Int,
           n <= start \/ n <= 1
    PROVE  Complete(chain, start, found, n)
<1>1. \A b \in DOMAIN chain : b >= 1 /\ b \in Int
    OBVIOUS
<1> QED
    BY <1>1 DEF Complete, DueIn

\* The next block found lies behind all that is due before it.
LEMMA CoveredGrows ==
    ASSUME NEW chain \in Seq(SUBSET Nat), NEW start \in Nat, NEW found \in SUBSET DOMAIN chain,
           NEW count \in Nat, count >= Gap, Covered(chain, start, found, count),
           NEW b \in DOMAIN chain, Complete(chain, start, found, b)
    PROVE  /\ Covered(chain, start, found \cup {b}, Grown(chain[b], count))
           /\ Complete(chain, start, found \cup {b}, b + 1)
<1>0. PICK scan : scan = ScanOf(chain, start)
    OBVIOUS
<1>1. /\ Len(chain) \in Nat /\ DOMAIN chain = 1..Len(chain) /\ chain[b] \in SUBSET Nat /\ Gap \in Nat
      /\ b \in 1..Len(chain) /\ b - 1 \in 0..Len(chain) /\ b \in 0..Len(chain) /\ b - 1 < b /\ b \in Nat
    BY SyncAssumption
<1>2. Grown(chain[b], count) \in Nat /\ Grown(chain[b], count) >= count
    BY <1>1, GrownIs
<1>3. Grown(chain[b], count) >= scan[b]
    <2>1. scan[b - 1] \in Nat /\ scan[b] \in Nat /\ count >= scan[b - 1]
        BY <1>0, <1>1, KnownCovers, ScanTyped
    <2>2. scan[b] = Gap \/ scan[b] = Grown(chain[b], scan[b - 1])
        BY <1>0, <1>1, ScanUnfolds
    <2>3. Grown(chain[b], scan[b - 1]) <= Grown(chain[b], count)
        BY <1>1, <2>1, GrownGrows
    <2> QED
        BY <1>1, <1>2, <2>1, <2>2, <2>3
<1>4. ASSUME NEW c \in found
      PROVE  Complete(chain, start, found \cup {b}, c) /\ Grown(chain[b], count) >= scan[c]
    <2>1. Complete(chain, start, found, c) /\ count >= scan[c]
        BY <1>0 DEF Covered
    <2>2. scan[c] \in Nat /\ c \in Int
        BY <1>0, <1>1, ScanTyped
    <2> QED
        BY <1>2, <2>1, <2>2 DEF Complete
<1>5. Complete(chain, start, found \cup {b}, b + 1) /\ Complete(chain, start, found \cup {b}, b)
    BY <1>1 DEF Complete
<1> QED
    BY <1>0, <1>3, <1>4, <1>5 DEF Covered

-----------------------------------------------------------------------------
(* The scan of the account *)

LEMMA AccountIs ==
    ASSUME Typing
    PROVE  /\ Chain \in Seq(SUBSET Nat) /\ Len(Chain) \in Nat /\ Block = 1..Len(Chain)
           /\ Block = DOMAIN Chain /\ imported \in SUBSET DOMAIN Chain /\ imported \subseteq Nat
           /\ origin \in Nat /\ height \in Nat /\ hash \in Nat /\ tip \in Nat
           /\ known \in Nat /\ known >= Gap
BY ScenarioIs DEF Typing, AccountTyped, WorldTyped, Block

LEMMA LessComplete ==
    ASSUME NEW n \in Int, NEW m \in Int, m <= n, Typing, CompleteTo(n)
    PROVE  CompleteTo(m)
BY AccountIs, CompleteGrows DEF CompleteTo

LEMMA FirstComplete ==
    ASSUME Typing, NEW n \in Int, n <= origin \/ n <= 1
    PROVE  CompleteTo(n)
BY AccountIs, CompleteAtFirst DEF CompleteTo

LEMMA FoundComplete ==
    ASSUME AccountComplete, NEW b \in imported
    PROVE  CompleteTo(b)
BY DEF AccountComplete, Covered, CompleteTo

\* Blocks that use no address of the account
LEMMA PassedComplete ==
    ASSUME Typing, AccountComplete, NEW first \in Nat, CompleteTo(first), NEW n \in Nat,
           \A b \in Block : b >= first /\ b < n => ~ Wanted(b, known)
    PROVE  CompleteTo(n)
<1>1. \A b \in DOMAIN Chain : b >= first /\ b < n => ~ \E a \in Chain[b] : a < known
    BY AccountIs DEF Wanted
<1> QED
    BY <1>1, AccountIs, CompleteGoesOn DEF CompleteTo, AccountComplete

LEMMA SameComplete ==
    ASSUME UNCHANGED <<scenario, origin, imported>>
    PROVE  \A n : CompleteTo(n)' <=> CompleteTo(n)
BY SameScenario DEF CompleteTo

LEMMA SameCovered ==
    ASSUME UNCHANGED <<scenario, origin, imported, known>>
    PROVE  Covered(Chain, origin, imported, known)' <=> Covered(Chain, origin, imported, known)
BY SameScenario

\* The account as it is, or with another block header
LEMMA AccountStands ==
    ASSUME Typing, AccountComplete, UNCHANGED <<scenario, origin, imported, known>>,
           hash' = hash \/ hash' \in imported \ {0},
           height' = height \/ (hash = 0 => CompleteTo(LastHeight(height'))) 
    PROVE  AccountComplete'
BY SameComplete, SameCovered DEF AccountComplete

-----------------------------------------------------------------------------
(* The scan: the frame *)

\* In node, as long as nothing but Harmless has happened
Scanning ==
    /\ Typing /\ FrameOK /\ WireOK /\ JobsAwaited /\ FilterKnown /\ CancelAwaited
    /\ ScanComplete /\ RangeComplete
    /\ NoImport /\ ~ browser

LEMMA NothingCloses ==
    ASSUME Scanning, pc # "stream" \/ outcome # "pending"
    PROVE  \A k \in DOMAIN streams : ~ streams[k].closing /\ ~ streams[k].live
BY DEF Scanning, WireOK, Awaited

\* The second part starts, or goes on, from a height before which nothing is
\* missing.
LEMMA IncomingScans ==
    ASSUME Scanning, Resumed, UNCHANGED <<scenario, origin, known, imported, hash, streams>>,
           pc # "stream" \/ outcome # "pending",
           height' \in Nat, hash = 0 => CompleteTo(LastHeight(height')), StartIncoming(height')
    PROVE  ScanComplete' /\ RangeComplete'
<1>1. Typing /\ ScanComplete /\ \A k \in DOMAIN streams' : ~ streams'[k].closing
    BY NothingCloses DEF Scanning
<1>2. AccountComplete /\ AccountComplete'
    BY <1>1, AccountStands DEF ScanComplete
<1>3. PICK from : from = IF hash = 0 THEN LastHeight(height') ELSE hash
    OBVIOUS
<1>4. query'.from = from
    BY <1>1, <1>3 DEF StartIncoming, Typing, FrameTyped, Query
<1>5. CompleteTo(from)
    BY <1>2, <1>3, FoundComplete DEF AccountComplete
<1>6. CompleteTo(query.from)'
    BY <1>4, <1>5, SameComplete
<1>7. mode' = "incoming" /\ pc' = "subscribe" /\ outcome' = "pending"
    BY DEF StartIncoming
<1> QED
    BY <1>1, <1>2, <1>6, <1>7 DEF ScanComplete, RangeComplete, Codes

\* The first part goes on from the last block header imported.
LEMMA HistoricalScans ==
    ASSUME Scanning, UNCHANGED <<scenario, origin, known, imported, hash, height, streams>>,
           pc # "stream" \/ outcome # "pending", mode = "historical", StartHistorical
    PROVE  ScanComplete' /\ RangeComplete'
<1>1. Typing /\ ScanComplete /\ \A k \in DOMAIN streams' : ~ streams'[k].closing
    BY NothingCloses DEF Scanning
<1>2. AccountComplete /\ AccountComplete'
    BY <1>1, AccountStands DEF ScanComplete
<1>3. query'.start = hash
    BY <1>1 DEF StartHistorical, Typing, FrameTyped, Query
<1>4. mode' = "historical" /\ pc' = "best" /\ outcome' = "pending" /\ height' = origin'
    BY <1>1 DEF StartHistorical, ScanComplete
<1> QED
    BY <1>1, <1>2, <1>3, <1>4 DEF ScanComplete, AccountComplete, RangeComplete, Codes

LEMMA OverScans ==
    ASSUME Scanning, UNCHANGED <<scenario, origin, known, imported, hash, height, streams>>,
           pc # "stream" \/ outcome # "pending", Over
    PROVE  ScanComplete' /\ RangeComplete'
<1>1. Typing /\ ScanComplete /\ \A k \in DOMAIN streams' : ~ streams'[k].closing
    BY NothingCloses DEF Scanning
<1>2. AccountComplete'
    BY <1>1, AccountStands DEF ScanComplete
<1>3. mode' = "over" /\ pc' = "none" /\ outcome' = "pending"
    BY DEF Over
<1> QED
    BY <1>1, <1>2, <1>3 DEF ScanComplete, RangeComplete, Codes

LEMMA StartScans ==
    ASSUME Scanning, NEW all \in BOOLEAN, NEW h \in Scenarios[scenario].skipBefore, Start(all, h), Typing'
    PROVE  ScanComplete' /\ RangeComplete'
<1>1. /\ mode = "new" /\ UNCHANGED <<scenario, known, imported, hash, streams>>
      /\ streams = <<>> /\ imported = {} /\ hash = 0 /\ height = 0
    BY DEF Start, Scanning, FrameOK, world, wire
<1>2. Typing /\ \A k \in DOMAIN streams' : FALSE
    BY <1>1 DEF Scanning
<1>3. height' = origin' /\ origin' \in Nat
    <2>1. origin' \in Nat
        BY <1>1, SameScenario, ScenarioIs DEF Typing, AccountTyped
    <2> QED
        BY <1>1, <2>1 DEF Start, HistoricalReturns
<1>4. LastHeight(height') <= origin' \/ LastHeight(height') <= 1
    BY <1>3, LastHeightIs
<1>5. PICK n \in Nat : n = LastHeight(height')
    BY <1>3, LastHeightIs
<1>6. CompleteTo(n)'
    <2>1. (n <= origin \/ n <= 1)'
        BY <1>4, <1>5
    <2>2. Chain' = Chain /\ Chain \in Seq(SUBSET Nat)
        BY <1>1, <1>2, SameScenario, AccountIs
    <2>3. Complete(Chain', origin', imported', n)
        BY <1>3, <2>1, <2>2, CompleteAtFirst
    <2> QED
        BY <2>3 DEF CompleteTo
<1>7. AccountComplete'
    BY <1>1, <1>5, <1>6 DEF AccountComplete, Covered
<1>8. CASE all
    <2>1. HistoricalReturns(tip) /\ height' = tip
        BY <1>8 DEF Start, HistoricalReturns
    <2>2. StartIncoming(height') /\ query'.from = n
        BY <1>1, <1>2, <1>5, <2>1 DEF HistoricalReturns, StartIncoming, Typing, FrameTyped, Query
    <2>3. mode' = "incoming" /\ pc' = "subscribe" /\ outcome' = "pending"
        BY <2>2 DEF StartIncoming
    <2> QED
        BY <1>2, <1>6, <1>7, <2>2, <2>3 DEF ScanComplete, RangeComplete, Codes
<1>9. CASE ~ all
    <2>1. StartHistorical
        BY <1>9 DEF Start
    <2>2. mode' = "historical" /\ pc' = "best" /\ outcome' = "pending" /\ query'.start = 0
        BY <1>1, <1>2, <2>1 DEF StartHistorical, Typing, FrameTyped, Query
    <2> QED
        BY <1>2, <1>3, <1>7, <2>2 DEF ScanComplete, RangeComplete, Codes
<1> QED
    BY <1>8, <1>9

LEMMA BestHeightScans ==
    ASSUME Scanning, BestHeightAnswered
    PROVE  ScanComplete' /\ RangeComplete'
<1> DEFINE count == IF tip - LastHeight(height) = 0 THEN 1 ELSE tip - LastHeight(height)
<1>1. /\ UNCHANGED <<scenario, origin, known, imported, hash, height, mode, outcome, gaps, base, streams>>
      /\ pc = "best" /\ pc' = "subscribe" /\ mode = "historical" /\ outcome = "pending" /\ height = origin
      /\ Typing /\ ScanComplete /\ base \in 0..tip
    BY DEF BestHeightAnswered, world, account, wire, Scanning, FrameOK, ScanComplete, Typing, FrameTyped
<1>2. PICK first \in Nat : first = LastHeight(height) /\ (first <= origin \/ first <= 1)
    BY <1>1, AccountIs, LastHeightIs
<1>3. PICK from : from = IF query.start = 0 THEN first ELSE query.start
    OBVIOUS
<1>4. query' = [query EXCEPT !.best = tip, !.from = from, !.upto = from + count - 1, !.filter = known]
    BY <1>2, <1>3 DEF BestHeightAnswered
<1>5. tip \in Nat /\ count \in Int /\ count >= tip - first
    BY <1>1, <1>2, AccountIs
<1>6. query'.best = tip /\ query'.from = from /\ query'.upto = from + count - 1
    BY <1>1, <1>4 DEF Typing, FrameTyped, Query
<1>7. CompleteTo(from)
    <2>1. CASE query.start = 0
        BY <1>1, <1>2, <1>3, <2>1, FirstComplete
    <2>2. CASE query.start # 0
        BY <1>1, <1>3, <2>2, FoundComplete DEF ScanComplete
    <2> QED
        BY <2>1, <2>2
<1>8. CompleteTo(query.from)'
    BY <1>1, <1>6, <1>7, SameComplete
<1>9. AccountComplete'
    BY <1>1, AccountStands DEF ScanComplete
<1>10. hash = 0 => query'.upto >= query'.best - 1
    BY <1>1, <1>2, <1>3, <1>5, <1>6 DEF ScanComplete
<1>11. \A k \in DOMAIN streams' : ~ streams'[k].closing
    BY <1>1, NothingCloses
<1>12. ScanComplete'
    BY <1>1, <1>8, <1>9 DEF ScanComplete
<1>13. base' <= query'.best
    BY <1>1, <1>5, <1>6
<1> QED
    BY <1>1, <1>10, <1>11, <1>12, <1>13 DEF RangeComplete, Codes

LEMMA SubscribedScans ==
    ASSUME Scanning, Subscribed
    PROVE  ScanComplete' /\ RangeComplete'
<1>1. /\ UNCHANGED <<scenario, origin, known, imported, hash, height, mode, outcome, query, gaps, base>>
      /\ pc = "subscribe" /\ pc' = "stream" /\ outcome = "pending"
      /\ Typing /\ ScanComplete /\ RangeComplete
    BY DEF Subscribed, world, Scanning, FrameOK
<1>2. PICK n : n = Len(streams)
    OBVIOUS
<1>3. /\ n \in Nat /\ Len(streams') = n + 1 /\ DOMAIN streams' = 1..(n + 1)
      /\ streams'[n + 1] = Opened /\ DOMAIN streams = 1..n
      /\ \A k \in DOMAIN streams : streams'[k] = streams[k]
    BY <1>1, <1>2, SubscribedOpens
<1>4. PICK s : s = Opened
    OBVIOUS
<1>5. /\ s.next = query.from /\ s.turn = "none" /\ s.live /\ ~ s.closing /\ s.upto = query.upto
      /\ streams'[Len(streams')] = s
    BY <1>3, <1>4 DEF Opened
<1>6. ASSUME NEW k \in DOMAIN streams' PROVE ~ streams'[k].closing
    <2>1. CASE k = n + 1
        BY <1>3, <1>4, <1>5, <2>1
    <2>2. CASE k # n + 1
        <3>1. k \in DOMAIN streams
            BY <1>3, <2>2
        <3> QED
            BY <1>1, <1>3, <3>1, NothingCloses
    <2> QED
        BY <2>1, <2>2
<1>7. CompleteTo(query.from)'
    BY <1>1, SameComplete DEF ScanComplete
<1>8. SentOK(streams[Len(streams)])'
    BY <1>1, <1>5, <1>7 DEF SentOK, CompleteTo
<1>9. AccountComplete'
    BY <1>1, AccountStands DEF ScanComplete
<1>10. ScanComplete'
    BY <1>1, <1>8, <1>9 DEF ScanComplete
<1> QED
    BY <1>1, <1>5, <1>6, <1>10 DEF RangeComplete, Codes

LEMMA ContinueScans ==
    ASSUME Scanning, Continue
    PROVE  ScanComplete' /\ RangeComplete'
<1>1. /\ Typing /\ FrameOK /\ ScanComplete /\ RangeComplete /\ pc = "stream"
      /\ outcome \notin Codes
    BY DEF Continue, Scanning, RangeComplete
<1>2. /\ Resumed /\ streams' = streams /\ outcome # "pending"
      /\ UNCHANGED <<scenario, origin, known, imported, hash>>
    BY <1>1, ContinueResumes DEF Continue, world
<1>3. /\ \A k \in DOMAIN streams : ~ streams[k].closing /\ ~ streams[k].live
      /\ height \in Nat /\ AccountComplete
    BY <1>1, <1>2, NothingCloses, AccountIs DEF ScanComplete
<1>4. CASE mode = "incoming" /\ outcome # "CANCELLED"
    <2>1. height' = height /\ (StartIncoming(height) \/ Over)
        BY <1>1, <1>2, <1>4 DEF Continue
    <2> QED
        BY <1>1, <1>2, <1>3, <2>1, IncomingScans, OverScans DEF AccountComplete
<1>5. CASE mode = "incoming" /\ outcome = "CANCELLED"
    <2>1. height' = height /\ (StartIncoming(height) \/ Over)
        BY <1>1, <1>2, <1>5 DEF Continue, Catches, IncomingCatches
    <2> QED
        BY <1>1, <1>2, <1>3, <2>1, IncomingScans, OverScans DEF AccountComplete
<1>6. CASE mode = "historical" /\ outcome = "CANCELLED"
    <2>1. StartHistorical /\ height' = height
        BY <1>1, <1>6 DEF Continue, Catches, HistoricalCatches, HistoricalRestarts, RangeComplete
    <2> QED
        BY <1>1, <1>2, <1>6, <2>1, HistoricalScans
<1>7. CASE mode = "historical" /\ outcome = "gap"
    <2>1. StartHistorical /\ height' = height
        BY <1>1, <1>7 DEF Continue
    <2> QED
        BY <1>1, <1>2, <1>7, <2>1, HistoricalScans
<1>8. CASE mode = "historical" /\ outcome = "end"
    <2>1. PICK h : h = LastSet(query.best)
        OBVIOUS
    <2>2. HistoricalReturns(h) /\ height' = h /\ StartIncoming(height')
        BY <1>1, <1>8, <2>1 DEF Continue, HistoricalReturns
    <2>3. query.best \in Nat /\ base \in Nat /\ gaps \in Nat
        BY <1>1, ScenarioIs DEF Typing, FrameTyped, Query
    <2>4. h \in Nat /\ h <= query.best
        BY <1>1, <1>8, <2>1, <2>3 DEF LastSet, RangeComplete
    <2>5. ASSUME hash = 0 PROVE CompleteTo(LastHeight(h))
        <3>1. Len(streams) \in DOMAIN streams
            BY <1>1 DEF FrameOK, Typing, WireTyped
        <3>2. ~ reached
            BY <1>8 DEF Scanning, JobsAwaited
        <3>3. CompleteTo(query.best)
            BY <1>1, <1>3, <1>8, <2>5, <3>1, <3>2 DEF RangeComplete
        <3>4. LastHeight(h) = IF h = 0 THEN 1 ELSE h
            BY <2>4, LastHeightIs
        <3>5. CASE h = 0
            BY <1>1, <3>4, <3>5, FirstComplete
        <3>6. CASE h # 0
            BY <1>1, <2>3, <2>4, <3>3, <3>4, <3>6, LessComplete
        <3> QED
            BY <3>5, <3>6
    <2> QED
        BY <1>2, <2>2, <2>4, <2>5, IncomingScans
<1>9. outcome \in {"gap", "end", "CANCELLED"} /\ mode \in {"historical", "incoming"}
    BY <1>1, <1>2 DEF FrameOK, Typing, FrameTyped
<1> QED
    BY <1>4, <1>5, <1>6, <1>7, <1>8, <1>9

-----------------------------------------------------------------------------
(* The scan: the streams *)

LEMMA MoreComplete ==
    ASSUME Typing, UNCHANGED <<scenario, origin>>, imported \subseteq imported', NEW n \in Int, CompleteTo(n)
    PROVE  CompleteTo(n)'
BY SameScenario, AccountIs, CompleteGrows DEF CompleteTo

LEMMA NewestIs ==
    ASSUME Scanning, pc = "stream", NEW n, n = Len(streams)
    PROVE  /\ n \in Nat /\ n # 0 /\ n \in DOMAIN streams /\ DOMAIN streams = 1..n
           /\ streams[n] \in Stream /\ streams[n].next \in Nat /\ streams[n].upto \in Int
           /\ SentOK(streams[n]) /\ QueueOK(n)
<1>1. streams \in Seq(Stream) /\ streams # <<>>
    BY DEF Scanning, Typing, WireTyped, FrameOK
<1>2. n \in Nat /\ n # 0 /\ n \in DOMAIN streams /\ DOMAIN streams = 1..n /\ streams[n] \in Stream
    BY <1>1
<1> QED
    BY <1>2 DEF Scanning, Stream, CancelAwaited, ScanComplete

\* The frame awaits what it did.
LEMMA ScanStands ==
    ASSUME Scanning, AccountComplete', UNCHANGED <<scenario, origin, height, mode, pc, query>>,
           imported \subseteq imported', hash' = 0 => hash = 0,
           pc = "stream" => SentOK(streams[Len(streams)])'
    PROVE  ScanComplete'
<1>1. Typing /\ ScanComplete /\ query.from \in Int
    BY DEF Scanning, Typing, FrameTyped, Query
<1>2. pc = "subscribe" => CompleteTo(query.from)'
    BY <1>1, MoreComplete DEF ScanComplete
<1> QED
    BY <1>1, <1>2 DEF ScanComplete

LEMMA RangeStands ==
    ASSUME Scanning, UNCHANGED <<scenario, origin, mode, pc, query, gaps, base>>,
           imported \subseteq imported', hash' = 0 => hash = 0,
           outcome' \notin Codes, outcome' = "CANCELLED" => current' # 0,
           \A k \in DOMAIN streams' : streams'[k].closing => current' = k,
           NEW n, n = Len(streams), Len(streams') = n,
           pc = "stream" => /\ streams'[n].upto = streams[n].upto
                            /\ \/ streams'[n].live \/ streams'[n].closing
                               \/ reached' \/ outcome' = "CANCELLED"
                               \/ mode = "historical" /\ hash = 0 => CompleteTo(query.best)
    PROVE  RangeComplete'
<1>1. Typing /\ RangeComplete /\ query.best \in Int
    BY DEF Scanning, Typing, FrameTyped, Query
<1>2. CompleteTo(query.best) => CompleteTo(query.best)'
    BY <1>1, MoreComplete
<1> QED
    BY <1>1, <1>2 DEF RangeComplete

\* Nothing is found.
LEMMA NothingFound ==
    ASSUME Scanning, UNCHANGED <<scenario, origin, imported, known, hash, height, mode, pc, query>>,
           NEW n, n = Len(streams), Len(streams') = n,
           pc = "stream" => /\ streams'[n].next = streams[n].next
                            /\ streams'[n].turn = "E" =>
                                   \/ streams[n].turn = "E" /\ streams'[n].jobs = streams[n].jobs
                                   \/ Head(streams'[n].jobs)[1] = "block"
                            /\ streams[n].turn = "E" =>
                                   \/ streams'[n].turn = "E" /\ streams'[n].jobs = streams[n].jobs
                                   \/ Head(streams[n].jobs)[1] = "block"
    PROVE  ScanComplete'
<1>1. Typing /\ ScanComplete
    BY DEF Scanning
<1>2. AccountComplete'
    BY <1>1, AccountStands DEF ScanComplete
<1>3. ASSUME pc = "stream" PROVE SentOK(streams[n])'
    <2>1. SentOK(streams[n]) /\ \A m : CompleteTo(m)' <=> CompleteTo(m)
        BY <1>3, NewestIs, SameComplete
    <2>2. PICK s : s = streams[n]
        OBVIOUS
    <2>3. PICK t : t = streams'[n]
        OBVIOUS
    <2>4. CASE s.turn = "E" /\ Head(s.jobs)[1] = "tx"
        <3>1. s.next = Head(s.jobs)[2] + 1 /\ CompleteTo(Head(s.jobs)[2])
            BY <2>1, <2>2, <2>4 DEF SentOK
        <3>2. t.next = s.next /\ t.turn = "E" /\ t.jobs = s.jobs
            BY <1>3, <2>2, <2>3, <2>4
        <3>3. CompleteTo(Head(t.jobs)[2])'
            BY <2>1, <3>1, <3>2
        <3> QED
            BY <2>3, <2>4, <3>1, <3>2, <3>3 DEF SentOK, CompleteTo
    <2>5. CASE ~ (s.turn = "E" /\ Head(s.jobs)[1] = "tx")
        <3>1. CompleteTo(s.next)
            BY <2>1, <2>2, <2>5 DEF SentOK
        <3>2. t.next = s.next /\ ~ (t.turn = "E" /\ Head(t.jobs)[1] = "tx")
            BY <1>3, <2>2, <2>3, <2>5
        <3>3. CompleteTo(t.next)'
            BY <2>1, <3>1, <3>2
        <3> QED
            BY <2>3, <3>2, <3>3 DEF SentOK, CompleteTo
    <2> QED
        BY <2>4, <2>5
<1> QED
    BY <1>1, <1>2, <1>3, ScanStands

\* A stream that sends is the newest, and what it has sent is imported; its
\* filter is the account's unless a cancel is scheduled.
LEMMA SenderIs ==
    ASSUME Scanning, ~ Microtasks, ~ unnoticed, NEW i \in DOMAIN streams, streams[i].live
    PROVE  /\ pc = "stream" /\ outcome = "pending" /\ i = Len(streams) /\ current = i
           /\ streams[i].turn = "none" /\ CompleteTo(streams[i].next)
           /\ immediates = <<>> => /\ streams[i].filter = known
                                   /\ streams[i].jobs = <<>> /\ streams[i].listens
           /\ immediates # <<>> => ~ streams[i].listens
           /\ \A k \in DOMAIN streams : ~ streams[k].closing
<1>1. /\ pc = "stream" /\ outcome = "pending" /\ i = Len(streams) /\ current = i
      /\ streams[i].turn = "none"
      /\ \A k \in DOMAIN streams : ~ streams[k].closing
    BY NoTurns DEF Scanning, WireOK, Awaited, JobsAwaited
<1>2. SentOK(streams[i]) /\ QueueOK(i) /\ (streams[i].filter = known \/ immediates # <<>>)
    BY <1>1, NewestIs DEF Scanning, FilterKnown
<1> QED
    BY <1>1, <1>2 DEF SentOK, QueueOK

LEMMA TransactionScans ==
    ASSUME Scanning, ~ unnoticed, NEW i \in DOMAIN streams, ReceiveTransaction(i), immediates = <<>>
    PROVE  ScanComplete' /\ RangeComplete'
<1>1. /\ UNCHANGED <<origin, known, imported, hash, height, mode, pc, outcome, query, gaps, base,
                     current, reached>>
      /\ streams[i].live /\ ~ Microtasks /\ Typing /\ FrameOK /\ ScanComplete
    BY DEF ReceiveTransaction, Receives, account, frame, Scanning
<1>2. scenario' = scenario
    BY <1>1, InTimeIs DEF ReceiveTransaction, Typing
<1>3. /\ pc = "stream" /\ outcome = "pending" /\ i = Len(streams) /\ CompleteTo(streams[i].next)
      /\ streams[i].filter = known /\ streams[i].jobs = <<>> /\ streams[i].listens
      /\ \A k \in DOMAIN streams : ~ streams[k].closing
    BY <1>1, SenderIs
<1>4. PICK b \in Block :
          /\ \A c \in Block : c >= streams[i].next /\ c < b => ~ Wanted(c, streams[i].filter)
          /\ Handed(i, <<"tx", b>>, streams') /\ streams'[i].next = b + 1
    BY <1>1, TransactionReceived
<1>5. PICK t : t = streams'[i]
    OBVIOUS
<1>6. t.jobs = << <<"tx", b>> >> /\ t.next = b + 1 /\ t.turn = "E"
    BY <1>3, <1>4, <1>5 DEF Handed
<1>7. /\ Len(streams') = Len(streams) /\ DOMAIN streams' = DOMAIN streams
      /\ \A k \in DOMAIN streams : SameLine(streams[k], streams'[k])
    BY <1>4 DEF Handed
<1>8. CompleteTo(b)
    <2>1. streams[i].next \in Nat /\ b \in Nat
        BY <1>1, <1>3, NewestIs, AccountIs
    <2> QED
        BY <1>1, <1>3, <1>4, <2>1, PassedComplete DEF ScanComplete
<1>9. SentOK(t)'
    BY <1>2, <1>1, <1>6, <1>8, SameComplete DEF SentOK
<1>10. AccountComplete'
    BY <1>1, <1>2, AccountStands DEF ScanComplete
<1>11. ScanComplete'
    BY <1>1, <1>2, <1>3, <1>5, <1>7, <1>9, <1>10, ScanStands
<1>12. streams'[i].live /\ streams'[i].upto = streams[i].upto /\ \A k \in DOMAIN streams' : ~ streams'[k].closing
    BY <1>1, <1>3, <1>7 DEF SameLine
<1> QED
    BY <1>1, <1>2, <1>3, <1>7, <1>11, <1>12, RangeStands DEF Codes

LEMMA MerkleBlockScans ==
    ASSUME Scanning, ~ unnoticed, NEW i \in DOMAIN streams, ReceiveMerkleBlock(i)
    PROVE  ScanComplete' /\ RangeComplete'
<1>1. /\ UNCHANGED <<origin, known, imported, hash, height, mode, pc, outcome, query, gaps, base,
                     current, reached>>
      /\ streams[i].live /\ ~ Microtasks /\ Typing /\ FrameOK /\ ScanComplete
    BY DEF ReceiveMerkleBlock, Receives, account, frame, Scanning
<1>2. scenario' = scenario
    BY <1>1, InTimeIs DEF ReceiveMerkleBlock, Typing
<1>3. /\ pc = "stream" /\ outcome = "pending" /\ i = Len(streams) /\ streams[i].turn = "none"
      /\ streams[i].listens => streams[i].jobs = <<>>
      /\ \A k \in DOMAIN streams : ~ streams[k].closing
    BY <1>1, SenderIs
<1>4. PICK chunk : chunk = <<"block", streams[i].due>>
    OBVIOUS
<1>5. Handed(i, chunk, streams') /\ streams'[i].next = streams[i].next /\ chunk[1] = "block"
    BY <1>1, <1>4, MerkleBlockReceived
<1>6. streams'[i].turn = "E" => Head(streams'[i].jobs)[1] = "block"
    <2>1. ASSUME streams[i].listens PROVE Head(streams'[i].jobs) = chunk
        <3>1. streams'[i].jobs = Append(<<>>, chunk)
            BY <1>3, <1>5, <2>1 DEF Handed
        <3>2. Head(Append(<<>>, chunk)) = chunk
            OBVIOUS
        <3> QED
            BY <3>1, <3>2
    <2> QED
        BY <1>3, <1>5, <2>1 DEF Handed
<1>7. /\ Len(streams') = Len(streams) /\ DOMAIN streams' = DOMAIN streams
      /\ \A k \in DOMAIN streams : SameLine(streams[k], streams'[k])
    BY <1>5 DEF Handed
<1>8. ScanComplete'
    BY <1>1, <1>2, <1>3, <1>5, <1>6, <1>7, NothingFound
<1>9. streams'[i].live /\ streams'[i].upto = streams[i].upto /\ \A k \in DOMAIN streams' : ~ streams'[k].closing
    BY <1>1, <1>3, <1>7 DEF SameLine
<1> QED
    BY <1>1, <1>2, <1>3, <1>7, <1>8, <1>9, RangeStands DEF Codes

\* A stream that has no block left to send has sent all that was asked for.
LEMMA EmptiedComplete ==
    ASSUME Scanning, ~ unnoticed, pc = "stream", NEW n, n = Len(streams), ~ reached,
           streams[n].turn = "none", NextBlocks(streams[n]) = {}, mode = "historical", hash = 0
    PROVE  CompleteTo(query.best)
<1>1. PICK s \in Stream : s = streams[n] /\ SentOK(s) /\ s.next \in Nat /\ s.upto \in Int
    BY NewestIs
<1>2. /\ Typing /\ AccountComplete /\ query.best \in Nat /\ query.best <= tip /\ tip \in Nat
      /\ Block \subseteq Nat
    BY AccountIs DEF Scanning, ScanComplete, Typing, FrameTyped, Query
<1>3. CompleteTo(s.next)
    BY <1>1 DEF SentOK
<1>4. s.filter = known
    BY <1>1 DEF Scanning, FilterKnown
<1>5. s.upto >= query.best - 1
    BY <1>1 DEF Scanning, RangeComplete
<1>6. ASSUME NEW b \in Block, b >= s.next, b < query.best PROVE ~ Wanted(b, known)
    <2>1. b \in Nat /\ b <= tip /\ b <= s.upto
        BY <1>1, <1>2, <1>5, <1>6
    <2>2. b \in s.next..Min({tip, s.upto})
        <3>1. Min({tip, s.upto}) = IF tip <= s.upto THEN tip ELSE s.upto
            BY <1>1, <1>2, MinOfTwo
        <3> QED
            BY <1>1, <1>2, <1>6, <2>1, <3>1
    <2>3. NextBlocks(s) = {}
        BY <1>1
    <2> QED
        BY <1>4, <2>2, <2>3 DEF NextBlocks
<1> QED
    BY <1>1, <1>2, <1>3, <1>6, PassedComplete

LEMMA StreamEndScans ==
    ASSUME Scanning, ~ unnoticed, NEW i \in DOMAIN streams, StreamEnds(i), ~ Incident("server")
    PROVE  ScanComplete' /\ RangeComplete'
<1>1. /\ UNCHANGED <<scenario, origin, known, imported, hash, height, mode, pc, query, gaps, base, reached>>
      /\ streams[i].live /\ ~ Microtasks /\ Typing /\ NextBlocks(streams[i]) = {}
    BY DEF StreamEnds, Receives, account, world, Scanning
<1>2. /\ pc = "stream" /\ outcome = "pending" /\ i = Len(streams) /\ streams[i].turn = "none"
      /\ \A k \in DOMAIN streams : ~ streams[k].closing
    BY <1>1, SenderIs
<1>3. LineSet(i, FALSE, streams[i].closing, streams')
    BY <1>1, StreamEnded DEF StreamEnds
<1>4. /\ Len(streams') = Len(streams) /\ DOMAIN streams' = DOMAIN streams
      /\ \A k \in DOMAIN streams' : ~ streams'[k].closing
      /\ streams'[i].next = streams[i].next /\ streams'[i].upto = streams[i].upto
      /\ streams'[i].turn = streams[i].turn
    BY <1>2, <1>3 DEF LineSet, SamePlace, SameQueue
<1>5. outcome' \in {"pending", "gap", "end"}
    BY <1>2, SettleIs DEF StreamEnds, EndHandler, EndStream
<1>6. ScanComplete'
    BY <1>1, <1>2, <1>4, NothingFound
<1>7. reached \/ (mode = "historical" /\ hash = 0 => CompleteTo(query.best))
    BY <1>1, <1>2, EmptiedComplete
<1> QED
    BY <1>1, <1>2, <1>4, <1>5, <1>6, <1>7, RangeStands DEF Codes

LEMMA EndingScans ==
    ASSUME Scanning, NEW i \in DOMAIN streams, EndingResumes(i)
    PROVE  ScanComplete' /\ RangeComplete'
<1>1. /\ UNCHANGED <<scenario, origin, known, imported, hash, height, mode, pc, query, gaps, base,
                     reached, streams>>
      /\ i \in ending
    BY DEF EndingResumes, account, world
<1>2. /\ pc = "stream" /\ outcome = "pending" /\ i = Len(streams)
      /\ \A k \in DOMAIN streams : ~ streams[k].closing /\ ~ streams[k].live
    BY <1>1 DEF Scanning, WireOK, Awaited
<1>3. outcome' \in {"pending", "gap", "end"}
    BY <1>2, SettleIs DEF EndingResumes, EndStream
<1>4. ScanComplete'
    BY <1>1, NothingFound
<1>5. reached \/ (mode = "historical" /\ hash = 0 => CompleteTo(query.best))
    BY <1>2 DEF Scanning, RangeComplete
<1> QED
    BY <1>1, <1>2, <1>3, <1>4, <1>5, RangeStands DEF Codes

LEMMA ErrorScans ==
    ASSUME Scanning, NEW i \in DOMAIN streams, CancelEmitsError(i)
    PROVE  ScanComplete' /\ RangeComplete'
<1>1. /\ UNCHANGED <<scenario, origin, known, imported, hash, height, mode, pc, query, gaps, base,
                     reached, current>>
      /\ streams[i].closing /\ Typing
    BY DEF CancelEmitsError, account, world, Scanning
<1>2. /\ Awaited(i) /\ i = Len(streams) /\ current = i /\ i # 0
      /\ \A k \in DOMAIN streams : k # i => ~ streams[k].closing
    BY <1>1 DEF Scanning, WireOK, Awaited, RangeComplete, Typing, WireTyped
<1>3. LineSet(i, streams[i].live, FALSE, streams')
    BY <1>1, ErrorEmitted
<1>4. /\ Len(streams') = Len(streams) /\ DOMAIN streams' = DOMAIN streams
      /\ \A k \in DOMAIN streams' : ~ streams'[k].closing
      /\ streams'[i].next = streams[i].next /\ streams'[i].upto = streams[i].upto
      /\ streams'[i].turn = streams[i].turn /\ streams'[i].jobs = streams[i].jobs
    BY <1>2, <1>3 DEF LineSet, SamePlace, SameQueue
<1>5. outcome' = "CANCELLED"
    BY <1>2, SettleIs DEF CancelEmitsError
<1>6. ScanComplete'
    BY <1>1, <1>2, <1>4, NothingFound
<1> QED
    BY <1>1, <1>2, <1>4, <1>5, <1>6, RangeStands DEF Codes

-----------------------------------------------------------------------------
(* The scan: the jobs and the requests *)

\* A job that starts is one of the stream the frame awaits.
LEMMA StarterIs ==
    ASSUME Scanning, NEW i \in DOMAIN streams, NEW kind, JobStarts(i, kind)
    PROVE  pc = "stream" /\ outcome = "pending" /\ i = Len(streams)
BY JobIs DEF Scanning, JobsAwaited

LEMMA ProcessedScans ==
    ASSUME Scanning, NEW i \in DOMAIN streams, ProcessTransaction(i)
    PROVE  ScanComplete' /\ RangeComplete'
<1>1. /\ UNCHANGED <<scenario, origin, hash, height, mode, pc, query, gaps, base, outcome, current>>
      /\ JobStarts(i, "tx") /\ Typing /\ ScanComplete /\ RangeComplete /\ CancelAwaited
    BY DEF ProcessTransaction, frame, world, Scanning
<1>2. /\ pc = "stream" /\ outcome = "pending" /\ i = Len(streams) /\ streams[i].turn = "E"
      /\ Tail(streams[i].jobs) = <<>> /\ Head(streams[i].jobs)[1] = "tx"
    <2>1. PICK kind : kind = "tx" /\ JobStarts(i, kind)
        BY <1>1
    <2>2. pc = "stream" /\ outcome = "pending" /\ i = Len(streams)
        BY <2>1, StarterIs
    <2>3. streams[i].turn = "E" /\ Tail(streams[i].jobs) = <<>>
        BY <1>1, <2>1, JobIs
    <2> QED
        BY <2>1, <2>2, <2>3 DEF JobStarts
<1>3. PICK b \in Block : b = JobBlock(i)
    BY <1>1, TransactionProcessed
<1>4. /\ Worked(i, streams') /\ streams'[i].turn # "E"
    BY <1>1, <1>2, TransactionProcessed DEF Worked
<1>5. imported' = imported \cup {b} /\ known' = Derived(b, known) /\ (~ reached' => ~ reached)
    BY <1>3 DEF ProcessTransaction, ReachesGapLimit
<1>6. /\ Len(streams') = Len(streams) /\ DOMAIN streams' = DOMAIN streams
      /\ streams'[i].next = streams[i].next
      /\ \A k \in DOMAIN streams : SameLine(streams[k], streams'[k])
    BY <1>4 DEF Worked, SamePlace
<1>7. streams[i].next = b + 1 /\ CompleteTo(b)
    BY <1>2, <1>3, NewestIs DEF SentOK, JobBlock
<1>8. /\ Covered(Chain, origin, imported', known')
      /\ Complete(Chain, origin, imported', b + 1)
    <2>1. known' = Grown(Chain[b], known)
        BY <1>1, <1>5, AccountIs, DerivedIs DEF Typing
    <2>2. Covered(Chain, origin, imported, known) /\ Complete(Chain, origin, imported, b)
        BY <1>1, <1>7 DEF ScanComplete, AccountComplete, CompleteTo
    <2>3. b \in DOMAIN Chain
        BY DEF Block
    <2> QED
        BY <1>1, <1>5, <2>1, <2>2, <2>3, AccountIs, CoveredGrows
<1>9. Chain' = Chain /\ imported \subseteq imported'
    BY <1>1, <1>5, SameScenario
<1>10. AccountComplete'
    <2>1. PICK h \in Nat : h = LastHeight(height)
        BY <1>1, AccountIs, LastHeightIs
    <2>2. hash = 0 => CompleteTo(h)'
        BY <1>1, <1>9, <2>1, MoreComplete DEF ScanComplete, AccountComplete
    <2>3. hash' \in imported' \cup {0}
        BY <1>1, <1>9 DEF ScanComplete, AccountComplete
    <2> QED
        BY <1>1, <1>8, <1>9, <2>1, <2>2, <2>3 DEF AccountComplete
<1>11. SentOK(streams[i])'
    BY <1>1, <1>4, <1>6, <1>7, <1>8, <1>9 DEF SentOK, CompleteTo
<1>12. ScanComplete'
    BY <1>1, <1>2, <1>6, <1>9, <1>10, <1>11, ScanStands
<1>13. /\ streams'[i].live = streams[i].live /\ streams'[i].closing = streams[i].closing
       /\ streams'[i].upto = streams[i].upto
       /\ \A k \in DOMAIN streams' : streams'[k].closing => current' = k
    BY <1>1, <1>6 DEF SameLine, RangeComplete
<1>14. \/ streams'[i].live \/ streams'[i].closing \/ reached'
       \/ mode = "historical" /\ hash = 0 => CompleteTo(query.best)
    BY <1>1, <1>2, <1>5, <1>13 DEF RangeComplete
<1> QED
    BY <1>1, <1>2, <1>6, <1>9, <1>12, <1>13, <1>14, RangeStands DEF Codes

LEMMA MerkleBlockProcessedScans ==
    ASSUME Scanning, NEW i \in DOMAIN streams, ProcessMerkleBlock(i)
    PROVE  ScanComplete' /\ RangeComplete'
<1>1. /\ UNCHANGED <<scenario, origin, known, imported, height, mode, pc, query, gaps, base, outcome,
                     current, reached>>
      /\ JobStarts(i, "block") /\ Typing /\ ScanComplete /\ RangeComplete
    BY DEF ProcessMerkleBlock, frame, world, Scanning
<1>2. /\ pc = "stream" /\ outcome = "pending" /\ i = Len(streams) /\ Head(streams[i].jobs)[1] = "block"
    <2>1. PICK kind : kind = "block" /\ JobStarts(i, kind)
        BY <1>1
    <2>2. pc = "stream" /\ outcome = "pending" /\ i = Len(streams)
        BY <2>1, StarterIs
    <2> QED
        BY <2>1, <2>2 DEF JobStarts
<1>3. /\ Worked(i, streams') /\ streams'[i].turn # "E"
      /\ hash' = hash \/ hash' \in imported \ {0}
    <2>1. /\ JobBlock(i) \in Block /\ Worked(i, streams')
          /\ streams'[i].turn = (IF streams'[i].jobs = <<>> THEN "none" ELSE "P")
        BY <1>1, MerkleBlockProcessed
    <2>2. JobBlock(i) # 0
        BY <1>1, <2>1, AccountIs
    <2> QED
        BY <2>1, <2>2 DEF ProcessMerkleBlock
<1>4. /\ Len(streams') = Len(streams) /\ DOMAIN streams' = DOMAIN streams
      /\ streams'[i].next = streams[i].next
      /\ \A k \in DOMAIN streams : SameLine(streams[k], streams'[k])
    BY <1>3 DEF Worked, SamePlace
<1>5. AccountComplete'
    BY <1>1, <1>3, AccountStands DEF ScanComplete
<1>6. SentOK(streams[i])'
    <2>1. CompleteTo(streams[i].next)
        BY <1>2, NewestIs DEF SentOK
    <2>2. PICK n : n = streams[i].next
        OBVIOUS
    <2>3. CompleteTo(n)'
        BY <1>1, <2>1, <2>2, SameComplete
    <2> QED
        BY <1>3, <1>4, <2>2, <2>3 DEF SentOK, CompleteTo
<1>7. ScanComplete'
    BY <1>1, <1>2, <1>3, <1>4, <1>5, <1>6, ScanStands
<1>8. /\ streams'[i].live = streams[i].live /\ streams'[i].closing = streams[i].closing
      /\ streams'[i].upto = streams[i].upto
      /\ \A k \in DOMAIN streams' : streams'[k].closing => current' = k
    BY <1>1, <1>4 DEF SameLine, RangeComplete
<1>9. \/ streams'[i].live \/ streams'[i].closing \/ reached'
      \/ mode = "historical" /\ hash = 0 => CompleteTo(query.best)
    BY <1>1, <1>2, <1>8 DEF RangeComplete
<1> QED
    BY <1>1, <1>2, <1>3, <1>4, <1>7, <1>8, <1>9, RangeStands DEF Codes

LEMMA CancelScans ==
    ASSUME Scanning, JobCancels
    PROVE  ScanComplete' /\ RangeComplete'
<1>1. /\ UNCHANGED <<scenario, origin, known, imported, hash, height, mode, pc, query, gaps, base, reached>>
      /\ Typing /\ FrameOK /\ CancelAwaited /\ RangeComplete /\ ~ Microtasks /\ immediates # <<>>
    BY DEF JobCancels, account, Scanning
<1>2. current # 0 /\ current = Len(streams) /\ reached /\ pc = "stream"
    BY <1>1, CancelCalled DEF CancelAwaited, FrameOK
<1>3. UNCHANGED <<current, outcome>> /\ outcome = "pending"
    BY <1>1, <1>2, NoTurns DEF JobCancels, Scanning
<1>4. PICK n : n = Len(streams) /\ n \in DOMAIN streams
    BY <1>1, <1>2, NewestIs
<1>5. /\ CancelledLine(n, streams') /\ streams'[n].turn # "E" /\ streams[n].turn = "none"
    BY <1>1, <1>2, <1>4, JobCancelled, NoTurns DEF SameQueue
<1>6. /\ Len(streams') = n /\ DOMAIN streams' = DOMAIN streams
      /\ streams'[n].next = streams[n].next /\ streams'[n].upto = streams[n].upto
      /\ \A k \in DOMAIN streams : k # n => streams'[k].closing = streams[k].closing
    BY <1>4, <1>5 DEF CancelledLine, SamePlace
<1>7. ScanComplete'
    BY <1>1, <1>4, <1>5, <1>6, NothingFound
<1>8. \A k \in DOMAIN streams' : streams'[k].closing => current' = k
    BY <1>1, <1>2, <1>3, <1>4, <1>6 DEF RangeComplete
<1> QED
    BY <1>1, <1>2, <1>3, <1>4, <1>6, <1>7, <1>8, RangeStands DEF Codes

\* The steps that leave the frame and the streams alone
LEMMA OthersScan ==
    ASSUME Scanning, UNCHANGED <<scenario, origin, known, imported, height, mode, pc, outcome, query,
                                 gaps, base, streams, current, reached>>,
           hash' = hash \/ hash' \in imported \ {0}
    PROVE  ScanComplete' /\ RangeComplete'
<1>1. Typing /\ ScanComplete /\ RangeComplete
    BY DEF Scanning
<1>2. AccountComplete'
    BY <1>1, AccountStands DEF ScanComplete
<1>3. PICK n : n = Len(streams)
    OBVIOUS
<1>4. pc = "stream" => SentOK(streams[n])'
    BY <1>1, <1>3, SameComplete DEF ScanComplete, SentOK
<1>5. ScanComplete'
    BY <1>2, <1>3, <1>4, ScanStands
<1>6. /\ outcome \notin Codes /\ (outcome = "CANCELLED" => current # 0)
      /\ \A k \in DOMAIN streams : streams[k].closing => current = k
      /\ mode = "historical" /\ pc = "stream" /\ hash = 0 /\ ~ streams[n].live /\ ~ streams[n].closing
         /\ ~ reached /\ outcome # "CANCELLED" => CompleteTo(query.best)
    BY <1>1, <1>3 DEF RangeComplete
<1> QED
    BY <1>3, <1>5, <1>6, RangeStands

LEMMA ScanKept ==
    ASSUME Typing, FrameOK, WireOK, FilterOK, CancelOK, ScanOK, RangeOK, Next
    PROVE  ScanOK' /\ RangeOK'
<1> USE DEF wire, frame, account, metadata, control, world
<1> SUFFICES ASSUME Calm', ~ browser', ~ unnoticed'
             PROVE  ScanComplete' /\ RangeComplete'
    BY DEF ScanOK, RangeOK
<1>1. unnoticed \in BOOLEAN /\ (unnoticed => unnoticed')
    <2>1. unnoticed \in BOOLEAN
        BY DEF Typing, MetadataTyped
    <2>2. ASSUME NEW b \in Block, HeaderAnswered(b) PROVE unnoticed => unnoticed'
        BY <2>2 DEF HeaderAnswered
    <2>3. ASSUME UNCHANGED unnoticed PROVE unnoticed => unnoticed'
        BY <2>3
    <2>4. ASSUME \/ \E all \in BOOLEAN, h \in Scenarios[scenario].skipBefore : Start(all, h)
                 \/ BestHeightAnswered \/ Subscribed \/ Continue \/ JobCancels \/ Mine
                 \/ \E code \in Codes : BestHeightFails(code) \/ SubscriptionFails(code)
                 \/ StopResumes \/ (\E force \in BOOLEAN : Stop(force)) \/ StopCancels
          PROVE  UNCHANGED unnoticed
        BY <2>4 DEF Start, BestHeightAnswered, Subscribed, Continue, JobCancels, Mine, BestHeightFails,
                    SubscriptionFails, StopResumes, Stop, StopCancels
    <2>5. ASSUME NEW i \in DOMAIN streams,
                 \/ ReceiveTransaction(i) \/ ReceiveMerkleBlock(i) \/ StreamEnds(i) \/ EndingResumes(i)
                 \/ CancelEmitsError(i) \/ ProcessTransaction(i) \/ ProcessMerkleBlock(i)
                 \/ ImportFails(i) \/ \E b \in Block : ReceiveUnmined(i, b)
                 \/ \E code \in Codes : StreamFails(i, code)
          PROVE  UNCHANGED unnoticed
        BY <2>5 DEF ReceiveTransaction, ReceiveMerkleBlock, StreamEnds, EndingResumes, CancelEmitsError,
                    ProcessTransaction, ProcessMerkleBlock, ImportFails, ReceiveUnmined, StreamFails
    <2>6. ASSUME NEW b \in Block, TransactionAnswered(b) \/ \E stage \in Stages : RequestFails(b, stage)
          PROVE  UNCHANGED unnoticed
        BY <2>6 DEF TransactionAnswered, RequestFails
    <2>7. unnoticed' = unnoticed \/ \E b \in Block : HeaderAnswered(b)
        BY <2>4, <2>5, <2>6, NextIs DEF Step
    <2> QED
        BY <2>1, <2>2, <2>3, <2>7
<1>2. /\ Scanning /\ Calm /\ ~ unnoticed
      /\ ~ Incident("best") /\ ~ Incident("subscribe") /\ ~ Incident("import") /\ ~ Incident("stream")
      /\ ~ Incident("server") /\ ~ Incident("unmined") /\ ~ Incident("stop") /\ ~ Incident("answer")
      /\ InTime("burst") => immediates = <<>>
    <2>1. Calm /\ NoImport /\ ~ browser
        BY SameWorld, CalmNoImport
    <2> QED
        BY <1>1, <2>1, CalmExcludes DEF Scanning, FilterOK, CancelOK, ScanOK, RangeOK, Harmless
<1>3. ASSUME NEW all \in BOOLEAN, NEW h \in Scenarios[scenario].skipBefore, Start(all, h)
      PROVE  ScanComplete' /\ RangeComplete'
    BY <1>2, <1>3, StartTyped, StartScans
<1>4. ASSUME NEW i \in DOMAIN streams, ReceiveTransaction(i) PROVE ScanComplete' /\ RangeComplete'
    BY <1>2, <1>4, TransactionScans DEF ReceiveTransaction
<1>5. ASSUME NEW b \in Block, TransactionAnswered(b) \/ \E stage \in Stages : RequestFails(b, stage)
      PROVE  ScanComplete' /\ RangeComplete'
    <2>1. /\ UNCHANGED <<origin, known, imported, hash, height, mode, pc, outcome, query, gaps, base,
                         streams, current, reached>>
          /\ scenario' = scenario
        BY <1>5, WorldKept DEF TransactionAnswered, RequestFails
    <2> QED
        BY <1>2, <2>1, OthersScan
<1>6. ASSUME NEW b \in Block, HeaderAnswered(b) PROVE ScanComplete' /\ RangeComplete'
    <2>1. /\ UNCHANGED <<scenario, origin, imported, height, mode, pc, outcome, query, gaps, base,
                         streams, current, reached>>
          /\ hash' = b /\ known' = Derived(b, known) /\ (unnoticed' <=> unnoticed \/ known' > known)
        BY <1>6, WorldKept DEF HeaderAnswered
    <2>2. b \in imported /\ b # 0
        BY <1>6, AccountIs DEF HeaderAnswered, Typing, MetadataTyped, Stages
    <2>3. known' \in Nat /\ known \in Nat /\ known' >= known
        BY <2>1, DerivedIs DEF Typing, AccountTyped
    <2>4. known' = known
        BY <2>1, <2>3
    <2> QED
        BY <1>2, <2>1, <2>2, <2>4, OthersScan
<1>7. CASE Mine
    <2>1. UNCHANGED <<scenario, origin, known, imported, hash, height, mode, pc, outcome, query,
                      gaps, base, streams, current, reached>>
        BY <1>7 DEF Mine
    <2> QED
        BY <1>2, <2>1, OthersScan
<1>8. ASSUME StopResumes \/ StopCancels PROVE FALSE
    <2>1. CASE StopResumes
        BY <1>2, <2>1 DEF StopResumes, CancelAwaited, Scanning
    <2>2. CASE StopCancels
        <3>1. immediates # <<>> /\ Head(immediates)[1] = 0
            BY <2>2 DEF StopCancels
        <3>2. Head(immediates)[1] = current /\ current # 0
            BY <1>2, <3>1, OneCancelIs DEF FrameOK, Scanning
        <3> QED
            BY <3>1, <3>2
    <2> QED
        BY <1>8, <2>1, <2>2
<1> QED
    BY <1>2, <1>3, <1>4, <1>5, <1>6, <1>7, <1>8, BestHeightScans, SubscribedScans, ContinueScans,
       MerkleBlockScans, StreamEndScans, EndingScans, ErrorScans, ProcessedScans,
       MerkleBlockProcessedScans, CancelScans, NextIs
    DEF Step, BestHeightFails, SubscriptionFails, ReceiveUnmined, StreamFails, ImportFails, Stop

-----------------------------------------------------------------------------
(* The theorems *)

LEMMA InitIsSound ==
    ASSUME Init
    PROVE  IInv
<1>1. /\ mode = "new" /\ pc = "none" /\ outcome = "pending" /\ streams = <<>> /\ imported = {}
      /\ hash = 0 /\ height = 0 /\ origin = 0 /\ immediates = <<>> /\ current = 0 /\ ending = {}
      /\ stopping = "no" /\ uncaught = FALSE /\ gaps = 0
    BY DEF Init
<1>2. Typing /\ \A k \in DOMAIN streams : FALSE
    BY <1>1, InitTyped
<1>3. FrameOK /\ WireOK /\ FilterOK /\ CancelOK
    BY <1>1, <1>2 DEF FrameOK, WireOK, FilterOK, JobsAwaited, FilterKnown, CancelOK, CancelAwaited
<1>4. CompleteTo(LastHeight(height))
    <2>1. LastHeight(0) = 1
        BY LastHeightIs
    <2> QED
        BY <1>1, <1>2, <2>1, FirstComplete
<1>5. ScanOK /\ RangeOK
    BY <1>1, <1>2, <1>4
    DEF ScanOK, ScanComplete, AccountComplete, Covered, RangeOK, RangeComplete, Codes
<1> QED
    BY <1>2, <1>3, <1>5 DEF IInv

-----------------------------------------------------------------------------
(* Who is waited for *)

\* The frame awaits nothing, or a stream that something is to come of.
Served ==
    pc = "stream" /\ outcome = "pending" =>
        \E i \in DOMAIN streams :
            Awaited(i) /\ (streams[i].live \/ streams[i].closing \/ i \in ending)

\* onStop has cancelled in a browser, and called no handlers.
Unserved == browser /\ stopping = "stopped" /\ current = 0

\* The frame does not wait for a stream, or no longer.
LEMMA NoneAwaited ==
    ASSUME ~ (pc' = "stream" /\ outcome' = "pending")
    PROVE  Served'
BY DEF Served

\* The stream that is waited for goes on as before, and so does its end handler.
LEMMA StreamStillServed ==
    ASSUME Served, UNCHANGED <<pc, outcome>>, ending \subseteq ending',
           Len(streams') = Len(streams), DOMAIN streams' = DOMAIN streams,
           \A k \in DOMAIN streams :
               Awaited(k) => /\ streams[k].live => streams'[k].live \/ streams'[k].closing
                             /\ streams[k].closing => streams'[k].closing
    PROVE  Served'
BY DEF Served, Awaited

\* Stream i is settled, or is not the one that is waited for.
LEMMA SettledOrServed ==
    ASSUME Served, NEW i \in DOMAIN streams, NEW result, result # "pending",
           Settle(i, result), UNCHANGED pc, ending \subseteq ending' \cup {i},
           Len(streams') = Len(streams), DOMAIN streams' = DOMAIN streams,
           \A k \in DOMAIN streams : k # i => /\ streams'[k].live = streams[k].live
                                              /\ streams'[k].closing = streams[k].closing
    PROVE  Served'
<1>1. CASE Awaited(i)
    BY <1>1, SettleIs, NoneAwaited
<1>2. CASE ~ Awaited(i)
    BY <1>2, SettleIs DEF Served, Awaited
<1> QED
    BY <1>1, <1>2

\* Whatever ends the stream that is waited for settles it, or leaves its end
\* handler waiting; a cancel in node makes it emit an error.
LEMMA ServedKept ==
    ASSUME Typing, FrameOK, Served, Next
    PROVE  Served' \/ Unserved'
<1> USE DEF wire, frame, account, metadata, control
<1>1. ASSUME \/ \E all \in BOOLEAN, h \in Scenarios[scenario].skipBefore : Start(all, h)
             \/ BestHeightAnswered \/ Continue
             \/ \E code \in Codes : BestHeightFails(code) \/ SubscriptionFails(code)
      PROVE  Served'
    <2>1. pc' # "stream"
        BY <1>1, StartResumes, BestHeightFailsResumes, SubscriptionFailsResumes, ContinueResumes
           DEF Resumed, BestHeightAnswered
    <2> QED
        BY <2>1, NoneAwaited
<1>2. CASE Subscribed
    <2>1. PICK n : n = Len(streams)
        OBVIOUS
    <2>2. /\ n \in Nat /\ Len(streams') = n + 1 /\ DOMAIN streams' = 1..(n + 1)
          /\ streams'[n + 1] = Opened
        BY <1>2, <2>1, SubscribedOpens
    <2>3. n + 1 \in DOMAIN streams' /\ streams'[n + 1].live
        BY <2>2 DEF Opened
    <2> QED
        BY <2>2, <2>3 DEF Served, Awaited
<1>3. ASSUME NEW i \in DOMAIN streams,
             \/ ReceiveTransaction(i)
             \/ ReceiveMerkleBlock(i)
             \/ \E b \in Block : ReceiveUnmined(i, b)
      PROVE  Served'
    <2>1. \E chunk : Handed(i, chunk, streams')
        BY <1>3, TransactionReceived, MerkleBlockReceived, UnminedReceived
    <2>2. UNCHANGED <<pc, outcome, ending>>
        BY <1>3 DEF ReceiveTransaction, ReceiveMerkleBlock, ReceiveUnmined
    <2> QED
        BY <2>1, <2>2, StreamStillServed DEF Handed, SameLine
<1>4. ASSUME NEW i \in DOMAIN streams, StreamEnds(i) PROVE Served'
    <2>1. LineSet(i, FALSE, streams[i].closing, streams') /\ UNCHANGED pc
        BY <1>4, StreamEnded DEF StreamEnds
    <2>2. CASE EndStream(i) /\ UNCHANGED ending
        <3>1. PICK result \in {"gap", "end"} : Settle(i, result)
            BY <2>2 DEF EndStream
        <3> QED
            BY <2>1, <2>2, <3>1, SettledOrServed DEF LineSet
    <2>3. CASE ending' = ending \cup {i} /\ UNCHANGED outcome
        BY <2>1, <2>3 DEF Served, Awaited, LineSet
    <2> QED
        BY <1>4, <2>2, <2>3 DEF StreamEnds, EndHandler
<1>5. ASSUME NEW i \in DOMAIN streams, EndingResumes(i) PROVE Served'
    <2>1. PICK result \in {"gap", "end"} : Settle(i, result)
        BY <1>5 DEF EndingResumes, EndStream
    <2>2. UNCHANGED <<pc, streams>> /\ ending' = ending \ {i}
        BY <1>5 DEF EndingResumes
    <2> QED
        BY <2>1, <2>2, SettledOrServed
<1>6. ASSUME NEW i \in DOMAIN streams, NEW code \in Codes, StreamFails(i, code) PROVE Served'
    <2>1. LineSet(i, FALSE, streams[i].closing, streams') /\ UNCHANGED <<pc, ending>> /\ Settle(i, code)
        BY <1>6, StreamEnded DEF StreamFails
    <2> QED
        BY <2>1, SettledOrServed DEF LineSet, Codes
<1>7. ASSUME NEW i \in DOMAIN streams, CancelEmitsError(i) PROVE Served'
    <2>1. /\ LineSet(i, streams[i].live, FALSE, streams') /\ UNCHANGED <<pc, ending>>
          /\ Settle(i, "CANCELLED")
        BY <1>7, ErrorEmitted DEF CancelEmitsError
    <2> QED
        BY <2>1, SettledOrServed DEF LineSet
<1>8. ASSUME NEW i \in DOMAIN streams, ProcessTransaction(i) \/ ProcessMerkleBlock(i)
      PROVE  Served'
    <2>1. Worked(i, streams')
        BY <1>8, TransactionProcessed, MerkleBlockProcessed
    <2>2. UNCHANGED <<pc, outcome, ending>>
        BY <1>8 DEF ProcessTransaction, ProcessMerkleBlock
    <2> QED
        BY <2>1, <2>2, StreamStillServed DEF Worked, SameLine
<1>9. ASSUME NEW i \in DOMAIN streams, ImportFails(i) PROVE Served'
    <2>1. Worked(i, streams') /\ UNCHANGED <<pc, ending>> /\ Settle(i, "FATAL")
        BY <1>9, FailedImportWorked DEF ImportFails
    <2> QED
        BY <2>1, SettledOrServed DEF Worked, SameLine
<1>10. ASSUME JobCancels \/ StopCancels PROVE Served' \/ Unserved'
    <2>1. CASE current = 0
        <3>1. UNCHANGED <<pc, outcome, streams, ending>>
            BY <1>10, <2>1 DEF JobCancels, StopCancels
        <3> QED
            BY <3>1, StreamStillServed
    <2>2. CASE current # 0
        <3>1. current \in DOMAIN streams /\ CancelledLine(current, streams') /\ UNCHANGED pc
            <4>1. current \in DOMAIN streams
                BY <2>2 DEF Typing, WireTyped
            <4>2. CancelledLine(current, streams')
                BY <1>10, <2>2, JobCancelled, StopCancelled
            <4> QED
                BY <1>10, <4>1, <4>2 DEF JobCancels, StopCancels
        <3>2. CASE ~ browser /\ UNCHANGED <<outcome, ending>>
            BY <3>1, <3>2, StreamStillServed DEF CancelledLine
        <3>3. CASE browser /\ StopCancels
            <4>1. browser' /\ stopping' = "stopped" /\ current' = 0
                BY <3>3 DEF StopCancels, world
            <4> QED
                BY <4>1 DEF Unserved
        <3>4. CASE browser /\ JobCancels
            <4>1. Settle(current, "CANCELLED") /\ ending \subseteq ending'
                BY <2>2, <3>4 DEF JobCancels, HandlersCalled
            <4> QED
                BY <3>1, <4>1, SettledOrServed DEF CancelledLine
        <3>5. ~ browser => UNCHANGED <<outcome, ending>>
            BY <1>10, <2>2 DEF JobCancels, StopCancels
        <3> QED
            BY <1>10, <3>2, <3>3, <3>4, <3>5
    <2> QED
        BY <2>1, <2>2
<1>11. ASSUME \/ \E b \in Block : \/ TransactionAnswered(b)
                                  \/ HeaderAnswered(b)
                                  \/ \E stage \in Stages : RequestFails(b, stage)
              \/ Mine \/ StopResumes \/ \E force : Stop(force)
       PROVE  Served'
    <2>1. UNCHANGED <<pc, outcome, streams, ending>>
        BY <1>11 DEF TransactionAnswered, HeaderAnswered, RequestFails, Mine, StopResumes, Stop
    <2> QED
        BY <2>1, StreamStillServed
<1> QED
    BY <1>1, <1>2, <1>3, <1>4, <1>5, <1>6, <1>7, <1>8, <1>9, <1>10, <1>11, NextIs DEF Step

\* Nor does any other stream come.
LEMMA UnservedKept ==
    ASSUME Typing, FrameOK, pc = "stream", Unserved, Next
    PROVE  Unserved'
<1>1. browser' = browser
    BY WorldKept
<1>2. stopping' = "stopped" /\ current' = 0
    <2>1. ASSUME \/ \E all \in BOOLEAN, h \in Scenarios[scenario].skipBefore : Start(all, h)
                 \/ BestHeightAnswered \/ Subscribed \/ StopResumes
                 \/ \E code \in Codes : BestHeightFails(code) \/ SubscriptionFails(code)
                 \/ \E force \in BOOLEAN : Stop(force)
          PROVE  FALSE
        BY <2>1 DEF Start, FrameOK, BestHeightAnswered, Subscribed, StopResumes, BestHeightFails,
                    SubscriptionFails, Stop, Unserved
    <2>2. ASSUME Continue PROVE stopping' = "stopped" /\ current' = 0
        BY <2>2, ContinueResumes DEF Continue, Resumed, Unserved
    <2>3. ASSUME NEW i \in DOMAIN streams,
                 \/ ReceiveTransaction(i) \/ ReceiveMerkleBlock(i)
                 \/ \E b \in Block : ReceiveUnmined(i, b)
                 \/ StreamEnds(i) \/ EndingResumes(i) \/ CancelEmitsError(i)
                 \/ \E code \in Codes : StreamFails(i, code)
                 \/ ProcessTransaction(i) \/ ProcessMerkleBlock(i) \/ ImportFails(i)
          PROVE  stopping' = "stopped" /\ current' = 0
        BY <2>3 DEF ReceiveTransaction, ReceiveMerkleBlock, ReceiveUnmined, StreamEnds, EndingResumes,
                    EndHandler, EndStream, CancelEmitsError, StreamFails, ProcessTransaction,
                    ProcessMerkleBlock, ImportFails, Unserved, control
    <2>4. ASSUME JobCancels \/ StopCancels PROVE stopping' = "stopped" /\ current' = 0
        BY <2>4 DEF JobCancels, StopCancels, Unserved
    <2>5. ASSUME \/ \E b \in Block : \/ TransactionAnswered(b) \/ HeaderAnswered(b)
                                      \/ \E stage \in Stages : RequestFails(b, stage)
                 \/ Mine
          PROVE  stopping' = "stopped" /\ current' = 0
        BY <2>5 DEF TransactionAnswered, HeaderAnswered, RequestFails, Mine, Unserved, wire, control
    <2> QED
        BY <2>1, <2>2, <2>3, <2>4, <2>5, NextIs DEF Step
<1> QED
    BY <1>1, <1>2 DEF Unserved

LEMMA StreamServedKept ==
    ASSUME Typing, FrameOK, StreamServed, Next
    PROVE  StreamServed'
<1>1. CASE Served
    BY <1>1, ServedKept DEF StreamServed, Served, Unserved, Awaited
<1>2. CASE pc = "stream" /\ Unserved
    BY <1>2, UnservedKept DEF StreamServed, Unserved
<1> QED
    BY <1>1, <1>2 DEF StreamServed, Served, Unserved

\* What other steps do with the keys of block b
KeysStand(b) ==
    /\ \A stage \in Stages : requests'[<<b, stage>>] = requests[<<b, stage>>]
    /\ <<"tx", b>> \in pending' => <<"tx", b>> \in pending
    /\ <<"header", b>> \in pending' => <<"header", b>> \in pending

\* What was asked for with a key is there.
KeysAsked(b) ==
    /\ <<"header", b>> \in pending' => requests'[<<b, "header">>] > 0
    /\ <<"tx", b>> \in pending' => \E stage \in Stages : requests'[<<b, stage>>] > 0

LEMMA KeysStillServed ==
    ASSUME KeysServed, UNCHANGED scenario, \A b \in Block : KeysStand(b) \/ KeysAsked(b)
    PROVE  KeysServed'
<1>1. Block' = Block
    BY SameScenario
<1>2. {"tx", "header", "delayed"} = Stages
    BY DEF Stages
<1>3. ASSUME NEW b \in Block PROVE KeysAsked(b)
    <2>1. CASE KeysStand(b)
        BY <1>2, <2>1 DEF KeysServed, KeysStand, KeysAsked
    <2> QED
        BY <2>1
<1> QED
    BY <1>1, <1>3 DEF KeysServed, KeysAsked

\* A key is added with its request, and goes when the last answer is there; a
\* request that is not answered for good waits for the next block.
LEMMA KeysServedKept ==
    ASSUME Typing, KeysServed, Next, "request" \notin Happened'
    PROVE  KeysServed'
<1> USE DEF wire, frame, account, metadata, control
<1>0. /\ UNCHANGED scenario
      /\ requests \in [Block \X Stages -> Nat] /\ Stages = {"tx", "header", "delayed"}
      /\ \A b \in Block, stage \in Stages :
             <<b, stage>> \in Block \X Stages /\ requests[<<b, stage>>] \in Nat
    BY WorldKept DEF Typing, MetadataTyped, Stages
<1>1. ASSUME UNCHANGED requests, pending' \subseteq pending PROVE KeysServed'
    BY <1>0, <1>1, KeysStillServed DEF KeysStand
<1>2. ASSUME NEW b \in Block, NEW r \in Block \X Stages, NEW q \in Block \X Stages,
             NEW n \in Nat, NEW m \in Nat, n > 0,
             r \in {<<b, "tx">>, <<b, "header">>, <<b, "delayed">>}, q[1] = b, q[2] # "header",
             requests' = [requests EXCEPT ![q] = m, ![r] = n],
             \/ pending' \subseteq pending \cup {<<"tx", b>>}
             \/ pending' \subseteq pending \cup {<<"header", b>>} /\ r = <<b, "header">>,
             <<"header", b>> \in pending => n >= requests[r]
      PROVE  KeysServed'
    <2>1. requests'[r] = n
        BY <1>0, <1>2
    <2>2. ASSUME NEW c \in Block PROVE KeysStand(c) \/ KeysAsked(c)
        <3>1. CASE c = b
            <4>1. <<"tx", b>> \in pending' => \E stage \in Stages : requests'[<<b, stage>>] > 0
                BY <1>0, <1>2, <2>1
            <4>2. CASE r = <<b, "header">>
                BY <1>2, <2>1, <3>1, <4>1, <4>2 DEF KeysAsked
            <4>3. CASE r # <<b, "header">>
                <5>1. requests'[<<b, "header">>] = requests[<<b, "header">>]
                    BY <1>0, <1>2, <4>3
                <5>2. <<"header", b>> \in pending' => <<"header", b>> \in pending
                    BY <1>2, <4>3
                <5> QED
                    BY <3>1, <4>1, <5>1, <5>2 DEF KeysServed, KeysAsked
            <4> QED
                BY <4>2, <4>3
        <3>2. CASE c # b
            <4>1. \A stage \in Stages : requests'[<<c, stage>>] = requests[<<c, stage>>]
                BY <1>0, <1>2, <3>2
            <4> QED
                BY <1>2, <3>2, <4>1 DEF KeysStand
        <3> QED
            BY <3>1, <3>2
    <2> QED
        BY <1>0, <2>2, KeysStillServed
<1>3. ASSUME NEW i \in DOMAIN streams, ProcessTransaction(i) PROVE KeysServed'
    <2>1. PICK b \in Block : b = JobBlock(i)
        BY <1>3, TransactionProcessed
    <2>2. PICK r \in Block \X Stages : r = <<b, "tx">>
        BY <1>0
    <2>3. PICK n \in Nat : n = requests[r] + 1 /\ n > 0
        BY <1>0
    <2>4. requests' = [requests EXCEPT ![r] = n, ![r] = n] /\ pending' = pending \cup {<<"tx", b>>}
        BY <1>0, <1>3, <2>1, <2>2, <2>3 DEF ProcessTransaction
    <2>5. /\ r \in {<<b, "tx">>, <<b, "header">>, <<b, "delayed">>}
          /\ r[1] = b /\ r[2] # "header" /\ n >= requests[r]
          /\ pending' \subseteq pending \cup {<<"tx", b>>}
        BY <1>0, <2>2, <2>3, <2>4
    <2> QED
        BY <1>2, <2>3, <2>4, <2>5
<1>4. ASSUME NEW b \in Block, TransactionAnswered(b) PROVE KeysServed'
    <2>1. PICK q \in Block \X Stages : q = <<b, "tx">>
        BY <1>0
    <2>2. PICK m \in Nat : m = requests[q] - 1
        BY <1>0, <1>4, <2>1 DEF TransactionAnswered
    <2>3. PICK r \in Block \X Stages :
              /\ r \in {<<b, "header">>, <<b, "delayed">>}
              /\ requests' = [requests EXCEPT ![q] = m, ![r] = requests[r] + 1]
              /\ \/ pending' \subseteq pending \cup {<<"tx", b>>}
                 \/ pending' \subseteq pending \cup {<<"header", b>>} /\ r = <<b, "header">>
        BY <1>0, <1>4, <2>1, <2>2 DEF TransactionAnswered
    <2>4. PICK n \in Nat : n = requests[r] + 1 /\ n > 0 /\ n >= requests[r]
        BY <1>0
    <2>5. /\ r \in {<<b, "tx">>, <<b, "header">>, <<b, "delayed">>}
          /\ q[1] = b /\ q[2] # "header"
          /\ requests' = [requests EXCEPT ![q] = m, ![r] = n]
        BY <2>1, <2>3, <2>4
    <2>6. CASE pending' \subseteq pending \cup {<<"tx", b>>}
        BY <1>2, <2>4, <2>5, <2>6
    <2>7. CASE pending' \subseteq pending \cup {<<"header", b>>} /\ r = <<b, "header">>
        BY <1>2, <2>4, <2>5, <2>7
    <2> QED
        BY <2>3, <2>6, <2>7
<1>5. ASSUME NEW b \in Block, HeaderAnswered(b) PROVE KeysServed'
    <2>1. requests' = [requests EXCEPT ![<<b, "header">>] = requests[<<b, "header">>] - 1]
          /\ pending' = pending \ {<<"tx", b>>, <<"header", b>>}
        BY <1>5 DEF HeaderAnswered, KeysOf
    <2>2. ASSUME NEW c \in Block PROVE KeysStand(c) \/ KeysAsked(c)
        <3>1. CASE c = b
            BY <2>1, <3>1 DEF KeysAsked
        <3>2. CASE c # b
            <4>1. \A stage \in Stages : requests'[<<c, stage>>] = requests[<<c, stage>>]
                BY <1>0, <2>1, <3>2
            <4> QED
                BY <2>1, <4>1 DEF KeysStand
        <3> QED
            BY <3>1, <3>2
    <2> QED
        BY <1>0, <2>2, KeysStillServed
<1>6. CASE Mine
    <2> DEFINE asked == {c \in Block : requests[<<c, "delayed">>] > 0}
    <2>1. ASSUME NEW b \in Block
          PROVE  /\ requests'[<<b, "header">>] = requests[<<b, "header">>]
                 /\ requests'[<<b, "tx">>] = requests[<<b, "tx">>] + requests[<<b, "delayed">>]
        BY <1>0, <1>6 DEF Mine
    <2>2. pending' = pending \cup {<<"tx", b>> : b \in asked}
        BY <1>6 DEF Mine
    <2>3. ASSUME NEW b \in Block PROVE KeysAsked(b)
        <3>1. <<"header", b>> \in pending' => <<"header", b>> \in pending
            BY <2>2
        <3>2. <<"tx", b>> \in pending' => \E stage \in Stages : requests[<<b, stage>>] > 0
            BY <1>0, <2>2 DEF KeysServed
        <3>3. requests[<<b, "tx">>] > 0 \/ requests[<<b, "delayed">>] > 0 => requests'[<<b, "tx">>] > 0
            <4>1. requests[<<b, "tx">>] \in Nat /\ requests[<<b, "delayed">>] \in Nat
                BY <1>0
            <4>2. requests'[<<b, "tx">>] = requests[<<b, "tx">>] + requests[<<b, "delayed">>]
                BY <2>1
            <4> QED
                BY <4>1, <4>2
        <3> QED
            BY <1>0, <2>1, <3>1, <3>2, <3>3 DEF KeysServed, KeysAsked
    <2> QED
        BY <1>0, <2>3, KeysStillServed
<1>7. ASSUME NEW b \in Block, NEW stage \in Stages, RequestFails(b, stage) PROVE FALSE
    BY <1>7, IncidentAdds DEF RequestFails, Typing
<1>8. ASSUME NEW force \in BOOLEAN, Stop(force) PROVE KeysServed'
    BY <1>1, <1>8 DEF Stop
<1>9. ASSUME \/ \E all \in BOOLEAN, h \in Scenarios[scenario].skipBefore : Start(all, h)
             \/ BestHeightAnswered \/ Continue \/ Subscribed
             \/ \E code \in Codes : BestHeightFails(code) \/ SubscriptionFails(code)
             \/ JobCancels \/ StopResumes \/ StopCancels
      PROVE  KeysServed'
    <2>1. UNCHANGED <<requests, pending>>
        BY <1>9 DEF Start, BestHeightAnswered, Continue, Subscribed, BestHeightFails, SubscriptionFails,
                    JobCancels, StopResumes, StopCancels
    <2> QED
        BY <1>1, <2>1
<1>10. ASSUME NEW i \in DOMAIN streams,
              \/ ReceiveTransaction(i)
              \/ ReceiveMerkleBlock(i)
              \/ \E b \in Block : ReceiveUnmined(i, b)
              \/ StreamEnds(i) \/ EndingResumes(i) \/ CancelEmitsError(i)
              \/ \E code \in Codes : StreamFails(i, code)
              \/ ProcessMerkleBlock(i) \/ ImportFails(i)
       PROVE  KeysServed'
    <2>1. UNCHANGED <<requests, pending>>
        BY <1>10 DEF ReceiveTransaction, ReceiveMerkleBlock, ReceiveUnmined, StreamEnds, EndingResumes,
                     CancelEmitsError, StreamFails, ProcessMerkleBlock, ImportFails
    <2> QED
        BY <1>1, <2>1
<1> QED
    BY <1>3, <1>4, <1>5, <1>6, <1>7, <1>8, <1>9, <1>10, NextIs DEF Step

-----------------------------------------------------------------------------
(* The invariant, and what it shows *)

LEMMA StutterIsSound ==
    ASSUME IInv, UNCHANGED vars
    PROVE  IInv'
<1> USE DEF vars, world, account, frame, wire, metadata, control
<1>1. UNCHANGED scenario /\ Chain' = Chain /\ Happened' = Happened
    BY SameScenario DEF Happened
<1>2. Typing'
    BY UntouchedTyped DEF IInv, Typing
<1>3. FrameOK' /\ WireOK' /\ FilterOK' /\ CancelOK'
    BY <1>1, SameScenario DEF IInv, FrameOK, WireOK, Awaited, FilterOK, JobsAwaited, FilterKnown,
                              NoImport, CancelOK, CancelAwaited, OneCancel, QueueOK, Calm
<1>4. AccountComplete => AccountComplete'
    BY <1>2, AccountStands DEF IInv
<1>5. PICK n : n = Len(streams)
    OBVIOUS
<1>6. \A m : CompleteTo(m)' <=> CompleteTo(m)
    BY SameComplete
<1>7. SentOK(streams[n]) => SentOK(streams[n])'
    BY <1>6 DEF SentOK
<1>8. ScanComplete => ScanComplete'
    BY <1>4, <1>5, <1>6, <1>7 DEF ScanComplete
<1>9. RangeComplete => RangeComplete'
    BY <1>6 DEF RangeComplete
<1> QED
    BY <1>1, <1>2, <1>3, <1>8, <1>9 DEF IInv, ScanOK, RangeOK, Calm

\* The groups of the invariant hold from the start, and a step, or nothing at
\* all, keeps them.
THEOREM SyncInvariant == Spec => []IInv
<1>1. Init => IInv
    BY InitIsSound
<1>2. IInv /\ [Next]_vars => IInv'
    <2>1. ASSUME IInv, Next PROVE IInv'
        BY <2>1, TypingKept, FrameKept, WireKept, FilterKept, CancelKept, ScanKept DEF IInv
    <2>2. ASSUME IInv, UNCHANGED vars PROVE IInv'
        BY <2>2, StutterIsSound
    <2> QED
        BY <2>1, <2>2
<1> QED
    BY <1>1, <1>2, PTL DEF Spec

\* Every variable of the synchronization has the values that its comment says.
THEOREM SyncTypeCorrect == Spec => []TypeOK
<1>1. IInv => TypeOK
    <2> SUFFICES ASSUME IInv PROVE TypeOK
        OBVIOUS
    <2>1. tip \in 0..Len(Chain) /\ 0..tip \subseteq 0..Len(Chain)
        BY ScenarioIs DEF IInv, Typing, WorldTyped
    <2> QED
        BY <2>1 DEF IInv, Typing, WorldTyped, AccountTyped, FrameTyped, WireTyped, MetadataTyped,
                    ControlTyped, Callbacks, TypeOK
<1> QED
    BY <1>1, SyncInvariant, PTL

\* "Limited to one stream at the same time": the code never finds this.stream
\* set when it has opened another, unless an import has failed.
THEOREM OneStreamAtATime == Spec => []OneStream
<1>1. IInv => OneStream
    <2> SUFFICES ASSUME IInv, NoImport PROVE Cardinality(Listening) <= 1
        BY DEF OneStream, NoImport
    <2>1. Listening \subseteq {Len(streams)}
        BY DEF Listening, IInv, WireOK, Awaited
    <2>2. IsFiniteSet({Len(streams)}) /\ Cardinality({Len(streams)}) = 1
        BY FS_Singleton
    <2>3. Cardinality(Listening) <= Cardinality({Len(streams)})
        BY <2>1, <2>2, FS_Subset
    <2> QED
        BY <2>2, <2>3
<1> QED
    BY <1>1, SyncInvariant, PTL

\* In node, a stream that lacks addresses of the account is about to be
\* cancelled: no gap in the filter goes unnoticed, but the one left by an
\* import with metadata.
THEOREM FilterFollows == Spec => []FilterIsCurrent
<1>1. IInv => FilterIsCurrent
    <2> SUFFICES ASSUME IInv, NoImport, ~ browser, ~ unnoticed, NEW i \in Listening,
                        streams[i].filter < known
                 PROVE  immediates # <<>>
        BY DEF FilterIsCurrent, NoImport
    <2>1. i \in DOMAIN streams /\ streams[i].live /\ known \in Nat
        BY DEF Listening, IInv, Typing, AccountTyped
    <2>2. streams[i].filter = known \/ immediates # <<>>
        BY <2>1 DEF IInv, FilterOK, FilterKnown
    <2> QED
        BY <2>1, <2>2
<1> QED
    BY <1>1, SyncInvariant, PTL

\* The callback of setImmediate finds this.stream, as long as no call or stream
\* fails and nobody stops the worker.
THEOREM CancelsFindStreams == Spec => []CancelFindsStream
<1>1. IInv => CancelFindsStream
    BY DEF IInv, CancelOK, CancelAwaited, Calm, CancelFindsStream
<1> QED
    BY <1>1, SyncInvariant, PTL

\* In node, whatever the blocks and the addresses they use, and whenever they
\* are mined: what the next stream does not ask for any more has been found.
THEOREM NothingIsSkipped == Spec => []NothingSkipped
<1>1. IInv => NothingSkipped
    <2> SUFFICES ASSUME IInv, ~ browser, ~ unnoticed, Calm, NEW b \in Block, b < NextStart, Due(b)
                 PROVE  b \in imported
        BY DEF NothingSkipped, Calm
    <2>1. AccountComplete
        BY DEF IInv, ScanOK, ScanComplete
    <2>2. CompleteTo(NextStart)
        <3>1. CASE hash = 0
            BY <2>1, <3>1 DEF AccountComplete, NextStart
        <3>2. CASE hash # 0
            BY <2>1, <3>2, FoundComplete DEF AccountComplete, NextStart
        <3> QED
            BY <3>1, <3>2
    <2>3. DueIn(Chain, origin, b)
        BY ScannedIs DEF Due, Wanted, DueIn
    <2> QED
        BY <2>2, <2>3 DEF CompleteTo, Complete, Block
<1> QED
    BY <1>1, SyncInvariant, PTL

\* Nobody waits in vain: the frame awaits a stream that ends in one way or
\* another, and what onStop and the end handlers wait for is under way, unless a
\* request has failed.
THEOREM NoWaitIsInVain == Spec => []NobodyWaitsInVain
<1>1. Init => NobodyWaitsInVain
    BY DEF Init, NobodyWaitsInVain, StreamServed, KeysServed
<1>2. IInv /\ NobodyWaitsInVain /\ [Next]_vars => NobodyWaitsInVain'
    <2>1. ASSUME IInv, NobodyWaitsInVain, Next PROVE NobodyWaitsInVain'
        <3>1. Typing /\ FrameOK /\ StreamServed
            BY <2>1 DEF IInv, NobodyWaitsInVain
        <3>2. "request" \notin Happened' => "request" \notin Happened
            BY <2>1, <3>1, WorldKept
        <3> QED
            BY <2>1, <3>1, <3>2, StreamServedKept, KeysServedKept DEF NobodyWaitsInVain
    <2>2. ASSUME NobodyWaitsInVain, UNCHANGED vars PROVE NobodyWaitsInVain'
        BY <2>2, SameScenario
           DEF vars, world, frame, wire, metadata, control, NobodyWaitsInVain, StreamServed, KeysServed, Awaited,
               Happened
    <2> QED
        BY <2>1, <2>2
<1> QED
    BY <1>1, <1>2, SyncInvariant, PTL DEF Spec
=============================================================================
