--------------------------- MODULE TransactionSync ---------------------------
(***************************************************************************)
(* TransactionSyncStreamWorker: an account finds its transactions on a     *)
(* stream of the transport that filters the blocks by the account's        *)
(* addresses.  A transaction that uses an address makes the account derive *)
(* more (the gap limit), and the stream is cancelled and opened again with *)
(* the larger filter, from the last block header imported.                 *)
(*                                                                         *)
(* The worker is one async function that awaits (the frame), the handlers  *)
(* of the streams it opened, the requests for the metadata of each         *)
(* transaction, and onStop.  An action is what runs between two returns to *)
(* the event loop; jobs of a chunk queue and the frame's continuations are *)
(* microtasks, which run before the next event is taken.                   *)
(*                                                                         *)
(* The addresses of the account are 0, 1, 2, ... in order of derivation.   *)
(* Each block has one transaction, which uses some of them: block and      *)
(* transaction share a number, the block's height.  The transport and the  *)
(* chain are external.                                                     *)
(***************************************************************************)
EXTENDS Integers, Sequences, FiniteSets, FiniteSetsExt, Bags

CONSTANTS
    Gap,            \* the gap limit
    Scenarios,      \* a sequence of what the worker may meet: see SyncAssumption
    Stops,          \* the values of options.force onStop is called with
    MaxIncidents    \* bound on the number of incidents

\* A call that fails; a stream that fails or that the server closes early; a
\* transaction or a Merkle block that comes between a scheduled cancel and its
\* callback; an answer there that deletes the key of the transaction whose
\* delivery scheduled the cancel; a transaction sent before it is mined; a stop.
IncidentKinds == {"best", "subscribe", "import", "request", "stream", "server",
                  "burst", "packet", "answer", "unmined", "stop"}
Harmless == {"request", "packet"}
Codes == {"RETRY", "FATAL"}      \* GRPC_RETRY_ERRORS but CANCELLED; anything else

\* A scenario: the addresses used in each block, mined or yet to be; how many
\* blocks there are at the start; the values of skipSynchronization, of
\* skipSynchronizationBeforeHeight (0 when absent) and of isBrowser(); whether
\* the wallet has a listener of 'error'; and the kinds of incident that occur.
ASSUME SyncAssumption ==
    /\ Gap \in Nat \ {0}
    /\ \A s \in Range(Scenarios) :
           /\ DOMAIN s = {"chain", "firstTip", "skipAll", "skipBefore", "browsers", "heard", "incidents"}
           /\ s.chain \in Seq(SUBSET Nat)
           /\ s.firstTip \in DOMAIN s.chain
           /\ s.skipBefore \subseteq 0..s.firstTip
           /\ s.skipAll \cup s.browsers \cup {s.heard} \subseteq BOOLEAN
           /\ s.incidents \subseteq IncidentKinds
    /\ Stops \subseteq BOOLEAN
    /\ MaxIncidents \in Nat

VARIABLES
    scenario,       \* which one it meets
    tip,            \* the chain's best block height
    browser,        \* isBrowser(): cancelling calls the stream's handlers
    incidents,        \* the bag of the incidents there have been
    uncaught,       \* was there an exception nobody catches?
    origin,         \* history: the height the account was told to start from
    known,          \* how many addresses the account has derived
    imported,       \* the blocks whose transaction is in the store
    described,      \* those whose header and metadata are, too
    hash,           \* account.blockHash, as a height; 0 is null
    height,         \* account.blockHeight
    mode,           \* "new", "historical", "incoming" or "over"
    pc,             \* what the frame awaits: "best", "subscribe", "stream" or "none"
    outcome,        \* how the awaited promise was settled, or "pending"
    query,          \* the frame's local variables
    gaps,           \* frames of startHistoricalSync below that wait at line 37
    base,           \* bestBlockHeight of the lowest of them
    streams,        \* every stream opened, in order
    current,        \* this.stream as an index of streams; 0 is null
    reached,        \* hasReachedGapLimit
    ending,         \* streams whose onStreamEnd waits for pendingRequest
    requests,       \* handleTransactionFromStream calls under way, by block and stage
    pending,        \* the keys of pendingRequest
    unnoticed,      \* history: has an import with metadata derived addresses?
    syncIncoming,   \* syncIncomingTransactions
    stopping,       \* onStop: "no", "waiting", "scheduled" or "stopped"
    immediates      \* setImmediate callbacks: of a job, as its queue, its listener
                    \* and the block of its transaction, or OfStop

world == <<scenario, tip, browser, incidents, uncaught>>
account == <<origin, known, imported, hash, height>>
frame == <<mode, pc, outcome, query, gaps, base>>
wire == <<streams, current, reached, ending>>
metadata == <<described, requests, pending, unnoticed>>
control == <<syncIncoming, stopping, immediates>>
vars == <<world, account, frame, wire, metadata, control>>

Chain == Scenarios[scenario].chain
Block == DOMAIN Chain
Stages == {"tx", "header", "delayed"}
Keys == {"tx", "header"} \X Block
Forever == 2 * Len(Chain)     \* more than the last block of any finite stream

-----------------------------------------------------------------------------
\* Does the transaction of block b use one of the first k addresses?
Wanted(b, k) == \E a \in Chain[b] : a < k

\* How many addresses the account has once it has imported it, and whether
\* hasReachedGapLimit is set then.
Derived(b, k) == Max({k} \cup {a + 1 + Gap : a \in {c \in Chain[b] : c < k}})

\* Mutated form: && for ||
BothReachGapLimit(b) == reached /\ Derived(b, known) > known
ReachesGapLimit(b) == reached \/ Derived(b, known) > known

\* A block chunk follows the chunk of its transaction.
NextBlocks(s) ==
    {b \in s.next..Min({tip, s.upto}) : Wanted(b, s.filter)}

\* The callback of onStop, by whether this.stream was there when it was scheduled
OfStop(found) == <<0, IF found THEN "found" ELSE "none", 0>>

\* Continuations of settled promises run before the next event.
Microtasks ==
    \/ pc = "stream" /\ outcome # "pending"
    \/ \E i \in DOMAIN streams : streams[i].turn # "none"

Awaited(i) == pc = "stream" /\ outcome = "pending" /\ i = Len(streams)
Settle(i, result) == outcome' = IF Awaited(i) THEN result ELSE outcome

Happened == BagToSet(incidents)
Incident(kind) ==
    /\ kind \in Scenarios[scenario].incidents
    /\ BagCardinality(incidents) < MaxIncidents
    /\ incidents' = incidents (+) SetToBag({kind})
    /\ UNCHANGED <<scenario, tip, browser, uncaught>>

Init ==
    /\ scenario \in DOMAIN Scenarios
    /\ tip = Scenarios[scenario].firstTip /\ browser \in Scenarios[scenario].browsers
    /\ incidents = EmptyBag /\ uncaught = FALSE
    /\ origin = 0 /\ known = Gap /\ imported = {} /\ described = {} /\ hash = 0 /\ height = 0
    /\ mode = "new" /\ pc = "none" /\ outcome = "pending"
    /\ query = [start |-> 0, best |-> 0, from |-> 0, upto |-> 0, filter |-> 0]
    /\ gaps = 0 /\ base = 0
    /\ streams = <<>> /\ current = 0 /\ reached = FALSE /\ ending = {}
    /\ requests = [r \in Block \X Stages |-> 0] /\ pending = {} /\ unnoticed = FALSE
    /\ syncIncoming = FALSE /\ stopping = "no" /\ immediates = <<>>

\* getLastSyncedBlockHeight: the genesis block has no height on the transport.
LastHeight(h) == Max({h, 1})

-----------------------------------------------------------------------------
\* The frame.  startHistoricalSync up to its first await
StartHistorical ==
    /\ mode' = "historical" /\ pc' = "best" /\ outcome' = "pending"
    /\ query' = [query EXCEPT !.start = hash]

\* startIncomingSync up to the await of the subscription
StartIncoming(h) ==
    /\ mode' = "incoming" /\ pc' = "subscribe" /\ outcome' = "pending"
    /\ query' = [query EXCEPT !.from = IF hash = 0 THEN LastHeight(h) ELSE hash,
                              !.upto = Forever,
                              !.filter = known]

Over == mode' = "over" /\ pc' = "none" /\ outcome' = "pending" /\ UNCHANGED query

\* startHistoricalSync returns, and every frame below it: onStart is done and
\* startWorker goes on with execute, whether the worker was stopped or not.
HistoricalReturns(h) ==
    /\ height' = h
    /\ gaps' = 0 /\ base' = 0
    /\ syncIncoming' = TRUE
    /\ StartIncoming(h)

\* Mutated form: one block too many
LastSetBeyond(best) == (IF gaps > 0 THEN base ELSE best) + 1
\* The frames that wait at line 37 set their own, older bestBlockHeight last.
LastSet(best) == IF gaps > 0 THEN base ELSE best

\* Mutated form: a cancelled stream counts as a finished one.
HistoricalGivesUp == HistoricalReturns(LastSet(query.best))
HistoricalRestarts == StartHistorical /\ UNCHANGED <<height, gaps, base, syncIncoming>>

\* emit('error') throws when nobody listens: every frame rejects, and neither
\* is a height set nor does startWorker go on.
HistoricalRejects == Over /\ gaps' = 0 /\ base' = 0 /\ UNCHANGED <<height, syncIncoming>>

\* A fatal error is emitted; the frame that caught it returns.
HistoricalFails(h) ==
    IF Scenarios[scenario].heard THEN HistoricalReturns(h) ELSE HistoricalRejects

\* The catch block of startHistoricalSync
HistoricalCatches(code) ==
    IF code = "CANCELLED" /\ current = 0
    THEN HistoricalReturns(LastSet(height)) /\ UNCHANGED current
    ELSE /\ current' = 0
         /\ IF code = "FATAL"
            THEN HistoricalFails(LastSet(query.best))
            ELSE HistoricalRestarts

\* Mutated form: the stream is not opened again.
IncomingGivesUp(code) ==
    /\ code \in Codes \cup {"CANCELLED"}
    /\ current' = 0
    /\ Over
    /\ UNCHANGED <<height, gaps, base, syncIncoming>>
\* The catch block of startIncomingSync.  Its promise resolves after a fatal
\* error, or rejects when nobody listens to 'error'; nobody awaits it.
IncomingCatches(code) ==
    /\ current' = 0
    /\ IF code # "FATAL" /\ syncIncoming THEN StartIncoming(height) ELSE Over
    /\ UNCHANGED <<height, gaps, base, syncIncoming>>

Catches(code) ==
    \/ mode = "historical" /\ HistoricalCatches(code)
    \/ mode = "incoming" /\ IncomingCatches(code)

\* startWorker and onStart
Start(all, h) ==
    /\ mode = "new"
    /\ IF all
       THEN origin' = tip /\ HistoricalReturns(tip)
       ELSE /\ origin' = h
            /\ height' = IF h = 0 THEN height ELSE h
            /\ StartHistorical
            /\ UNCHANGED <<gaps, base, syncIncoming>>
    /\ UNCHANGED <<world, known, imported, hash, wire, metadata, stopping, immediates>>

\* startHistoricalSync from its first await to that of the subscription
BestHeightAnswered ==
    /\ ~ Microtasks
    /\ pc = "best"
    /\ LET from == IF query.start = 0 THEN LastHeight(height) ELSE query.start
           missing == tip - LastHeight(height)
           count == IF missing = 0 THEN 1 ELSE missing
       IN  query' = [query EXCEPT !.best = tip, !.from = from,
                                  !.upto = from + count - 1, !.filter = known]
    /\ pc' = "subscribe"
    /\ UNCHANGED <<world, account, mode, outcome, gaps, base, wire, metadata, control>>

\* An error there is thrown to the innermost frame that waits at line 37.
BestHeightFails(code) ==
    /\ ~ Microtasks
    /\ pc = "best"
    /\ Incident("best")
    /\ \/ /\ gaps = 0
          /\ Over
          /\ UNCHANGED <<height, gaps, base, syncIncoming, current>>
       \/ /\ gaps > 0
          /\ current' = 0
          /\ IF code = "FATAL"
             THEN HistoricalFails(base)
             ELSE /\ StartHistorical
                  /\ gaps' = gaps - 1
                  /\ base' = IF gaps = 1 THEN 0 ELSE base
                  /\ UNCHANGED <<height, syncIncoming>>
    /\ UNCHANGED <<origin, known, imported, hash, streams, reached, ending,
                   metadata, stopping, immediates>>

\* syncUpToTheGapLimit after its await
Subscribed ==
    /\ ~ Microtasks
    /\ pc = "subscribe"
    /\ streams' = Append(streams,
           [handled |-> current = 0, live |-> TRUE, closing |-> FALSE,
            next |-> query.from, upto |-> query.upto, filter |-> query.filter,
            due |-> 0, jobs |-> <<>>, turn |-> "none", listens |-> TRUE])
    /\ IF current = 0
       THEN /\ current' = Len(streams) + 1
            /\ reached' = FALSE
            /\ pc' = "stream"
            /\ UNCHANGED <<height, mode, outcome, query, gaps, base, syncIncoming>>
       ELSE Catches("FATAL") /\ UNCHANGED reached
    /\ UNCHANGED <<world, origin, known, imported, hash, ending, metadata, stopping, immediates>>

SubscriptionFails(code) ==
    /\ ~ Microtasks
    /\ pc = "subscribe"
    /\ Incident("subscribe")
    /\ Catches(code)
    /\ UNCHANGED <<origin, known, imported, hash, streams, reached, ending,
                   metadata, stopping, immediates>>

\* The frame goes on when the stream's promise has been settled.
Continue ==
    /\ pc = "stream"
    /\ \/ /\ outcome \in {"gap", "end"}
          /\ UNCHANGED current
          /\ \/ /\ mode = "historical" /\ outcome = "gap"
                /\ gaps' = gaps + 1
                /\ base' = LastSet(query.best)
                /\ StartHistorical
                /\ UNCHANGED <<height, syncIncoming>>
             \/ /\ mode = "historical" /\ outcome = "end"
                /\ HistoricalReturns(LastSet(query.best))
             \/ /\ mode = "incoming"
                /\ IF syncIncoming THEN StartIncoming(height) ELSE Over
                /\ UNCHANGED <<height, gaps, base, syncIncoming>>
       \/ outcome \in Codes \cup {"CANCELLED"} /\ Catches(outcome)
    /\ UNCHANGED <<world, origin, known, imported, hash, streams, reached, ending, metadata,
                   stopping, immediates>>

-----------------------------------------------------------------------------
\* The chunk queue of a stream (see JobQueue): its jobs, the listener that is
\* starting the first of them ("E" for 'enqueued', "P" for 'processed'), and
\* whether the one-shot 'enqueued' listener is registered.
Enqueued(s, chunk) ==
    [s EXCEPT !.jobs = Append(@, chunk),
              !.turn = IF s.listens THEN "E" ELSE "none",
              !.listens = FALSE]

\* A job has left the queue and waits, has ended, or has thrown.
JobWaits(s) == [s EXCEPT !.turn = "none"]
JobEnds(s, listener) ==
    IF s.jobs = <<>>
    THEN [s EXCEPT !.turn = "none", !.listens = TRUE]
    ELSE [s EXCEPT !.turn = "P", !.listens = @ \/ (listener = "P" /\ Len(s.jobs) = 1)]
JobThrows(s, listener) ==
    [s EXCEPT !.turn = "none", !.listens = @ \/ (listener = "P" /\ s.jobs = <<>>)]

\* self.chunksQueue belongs to the newest stream that got its handlers: the
\* chunks of an older one end up there, too.
Hand(chunk, received) ==
    LET newest == Max({i \in DOMAIN streams : streams[i].handled})
    IN  [received EXCEPT ![newest] = Enqueued(@, chunk)]

Receives(i) ==
    /\ ~ Microtasks
    /\ i \in DOMAIN streams
    /\ streams[i].live /\ streams[i].handled

\* The chunks of a stream come one at a time, what is scheduled in between,
\* unless they come in one packet.
InTime(early) == IF immediates = <<>> THEN UNCHANGED world ELSE Incident(early)

ReceiveTransaction(i) ==
    /\ Receives(i) /\ InTime("burst")
    /\ streams[i].due = 0
    /\ NextBlocks(streams[i]) # {}
    /\ LET b == Min(NextBlocks(streams[i]))
       IN  streams' = Hand(<<"tx", b>>,
                           [streams EXCEPT ![i].due = b, ![i].next = b + 1])
    /\ UNCHANGED <<account, frame, current, reached, ending, metadata, control>>

ReceiveMerkleBlock(i) ==
    /\ Receives(i) /\ InTime("packet")
    /\ streams[i].due # 0
    /\ streams' = Hand(<<"block", streams[i].due>>, [streams EXCEPT ![i].due = 0])
    /\ UNCHANGED <<account, frame, current, reached, ending, metadata, control>>

ReceiveUnmined(i, b) ==
    /\ Receives(i) /\ Incident("unmined")
    /\ immediates = <<>>
    /\ streams[i].upto = Forever
    /\ b > tip /\ b \notin imported /\ Wanted(b, streams[i].filter)
    /\ streams' = Hand(<<"tx", b>>, streams)
    /\ UNCHANGED <<account, frame, current, reached, ending, metadata, control>>

\* onStreamEnd once pendingRequest is empty
EndStream(i) ==
    /\ current' = 0
    /\ Settle(i, IF reached THEN "gap" ELSE "end")

\* Mutated form: without waiting
EndAtOnce(i) == EndStream(i) /\ UNCHANGED ending
EndHandler(i) ==
    IF pending = {}
    THEN EndStream(i) /\ UNCHANGED ending
    ELSE ending' = ending \cup {i} /\ UNCHANGED <<current, outcome>>

\* The server closes a stream when it has sent what was asked for, or earlier.
StreamEnds(i) ==
    /\ Receives(i)
    /\ streams[i].due = 0
    /\ \/ streams[i].upto # Forever /\ NextBlocks(streams[i]) = {} /\ UNCHANGED world
       \/ Incident("server")
    /\ streams' = [streams EXCEPT ![i].live = FALSE]
    /\ EndHandler(i)
    /\ UNCHANGED <<account, mode, pc, query, gaps, base, reached, metadata, control>>

EndingResumes(i) ==
    /\ ~ Microtasks
    /\ i \in ending
    /\ pending = {}
    /\ ending' = ending \ {i}
    /\ EndStream(i)
    /\ UNCHANGED <<world, account, mode, pc, query, gaps, base, streams, reached, metadata,
                   control>>

StreamFails(i, code) ==
    /\ Receives(i)
    /\ Incident("stream")
    /\ streams' = [streams EXCEPT ![i].live = FALSE]
    /\ Settle(i, code)
    /\ UNCHANGED <<account, mode, pc, query, gaps, base, current, reached,
                   ending, metadata, control>>

\* Mutated form: the handlers are called, the stream stays open.
OpenStreams(j) == [streams EXCEPT ![j].closing = @ \/ (streams[j].live /\ ~ browser)]
\* stream.cancel(): elsewhere than in a browser the stream will emit 'error'
\* (TransactionSyncStreamWorker.js:226), and no 'end'.
CancelledStreams(j) ==
    [streams EXCEPT ![j].live = FALSE, ![j].closing = @ \/ (streams[j].live /\ ~ browser)]

CancelEmitsError(i) ==
    /\ ~ Microtasks
    /\ i \in DOMAIN streams
    /\ streams[i].closing
    /\ streams' = [streams EXCEPT ![i].closing = FALSE]
    /\ Settle(i, "CANCELLED")
    /\ UNCHANGED <<world, account, mode, pc, query, gaps, base, current, reached, ending,
                   metadata, control>>

\* In a browser the worker calls the error handlers and the end handlers itself.
HandlersCalled(j) ==
    /\ Settle(j, "CANCELLED")
    /\ IF pending = {}
       THEN current' = 0 /\ UNCHANGED ending
       ELSE ending' = ending \cup {j} /\ UNCHANGED current

-----------------------------------------------------------------------------
\* The job a listener of queue i is starting, by the kind of its chunk
JobStarts(i, kind) ==
    /\ i \in DOMAIN streams
    /\ streams[i].turn # "none"
    /\ Head(streams[i].jobs)[1] = kind
JobBlock(i) == Head(streams[i].jobs)[2]
Dequeued(i) == [streams[i] EXCEPT !.jobs = Tail(@)]

\* processChunks of a chunk with a transaction of the account.  When the gap
\* limit has been reached it waits for the cancel it schedules.
ProcessTransaction(i) ==
    /\ JobStarts(i, "tx")
    /\ LET b == JobBlock(i)
       IN  /\ imported' = imported \cup {b}
           /\ known' = Derived(b, known)
           /\ requests' = [requests EXCEPT ![<<b, "tx">>] = @ + 1]
           /\ pending' = pending \cup {<<"tx", b>>}
           /\ reached' = ReachesGapLimit(b)
    /\ IF reached' /\ current # 0
       THEN /\ immediates' = Append(immediates, <<i, streams[i].turn, JobBlock(i)>>)
            /\ streams' = [streams EXCEPT ![i] = JobWaits(Dequeued(i))]
       ELSE /\ streams' = [streams EXCEPT ![i] = JobEnds(Dequeued(i), streams[i].turn)]
            /\ UNCHANGED immediates
    /\ UNCHANGED <<world, origin, hash, height, frame, current, ending, described, unnoticed,
                   syncIncoming, stopping>>

\* importTransactions rejects once the transaction is in the store.
ImportFails(i) ==
    /\ JobStarts(i, "tx")
    /\ Incident("import")
    /\ imported' = imported \cup {JobBlock(i)}
    /\ streams' = [streams EXCEPT ![i] = JobThrows(Dequeued(i), streams[i].turn)]
    /\ Settle(i, "FATAL")
    /\ UNCHANGED <<origin, known, hash, height, mode, pc, query, gaps, base,
                   current, reached, ending, metadata, control>>

\* A chunk with a Merkle block: its header is imported if a transaction is ours.
ProcessMerkleBlock(i) ==
    /\ JobStarts(i, "block")
    /\ hash' = IF JobBlock(i) \in imported THEN JobBlock(i) ELSE hash
    /\ streams' = [streams EXCEPT ![i] = JobEnds(Dequeued(i), streams[i].turn)]
    /\ UNCHANGED <<world, origin, known, imported, height, frame, current, reached, ending,
                   metadata, control>>

\* The setImmediate callback of a job cancels this.stream, whichever it is.
\* Without one it throws where nobody catches, and the job never ends.
JobCancels ==
    /\ ~ Microtasks
    /\ immediates # <<>> /\ Head(immediates)[1] # 0
    /\ immediates' = Tail(immediates)
    /\ LET job == Head(immediates)
       IN  IF current = 0
           THEN uncaught' = TRUE /\ UNCHANGED <<streams, current, outcome, ending>>
           ELSE /\ streams' = [CancelledStreams(current) EXCEPT ![job[1]] = JobEnds(@, job[2])]
                /\ IF browser
                   THEN HandlersCalled(current)
                   ELSE UNCHANGED <<current, outcome, ending>>
                /\ UNCHANGED uncaught
    /\ UNCHANGED <<scenario, tip, browser, incidents, account, mode, pc, query, gaps, base, reached, metadata,
                   syncIncoming, stopping>>

-----------------------------------------------------------------------------
\* handleTransactionFromStream.  The transport knows the transaction's block,
\* or it is not mined yet; a transport that does not know it is asked again.
TransactionAnswered(b) ==
    /\ ~ Microtasks
    /\ requests[<<b, "tx">>] > 0
    /\ IF b <= tip
       THEN /\ requests' = [requests EXCEPT ![<<b, "tx">>] = @ - 1, ![<<b, "header">>] = @ + 1]
            /\ pending' = pending \cup {<<"header", b>>}
       ELSE /\ requests' = [requests EXCEPT ![<<b, "tx">>] = @ - 1, ![<<b, "delayed">>] = @ + 1]
            /\ UNCHANGED pending
    /\ UNCHANGED <<world, account, frame, wire, described, unnoticed, control>>

\* Mutated form: pendingRequest keeps the block's hash.
TransactionKey(b) == {<<"tx", b>>}
\* The keys of pendingRequest that are deleted when both answers are there
KeysOf(b) == {<<"tx", b>>, <<"header", b>>}

\* A transaction that a stream sends again while an earlier call asks for its
\* header shares that call's key.
CancelAwaits(b) == \E n \in DOMAIN immediates : immediates[n][3] = b

\* The header is imported, then the transaction once more with its metadata:
\* how many addresses that derives is not looked at.
HeaderAnswered(b) ==
    /\ ~ Microtasks
    /\ requests[<<b, "header">>] > 0
    /\ requests' = [requests EXCEPT ![<<b, "header">>] = @ - 1]
    /\ pending' = pending \ KeysOf(b)
    /\ hash' = b
    /\ described' = described \cup {b}
    /\ known' = Derived(b, known)
    /\ unnoticed' = (unnoticed \/ known' > known)
    /\ IF CancelAwaits(b) THEN Incident("answer") ELSE UNCHANGED world
    /\ UNCHANGED <<origin, imported, height, frame, wire, control>>

\* The transport throws: the keys stay where they are.
RequestFails(b, stage) ==
    /\ ~ Microtasks
    /\ stage \in {"tx", "header"}
    /\ requests[<<b, stage>>] > 0
    /\ Incident("request")
    /\ requests' = [requests EXCEPT ![<<b, stage>>] = @ - 1]
    /\ UNCHANGED <<account, frame, wire, described, pending, unnoticed, control>>

\* Mutated form: nobody listens to BLOCKHEIGHT_CHANGED.
MineUnheard ==
    /\ ~ Microtasks
    /\ tip < Len(Chain)
    /\ tip' = tip + 1
    /\ UNCHANGED <<scenario, browser, incidents, uncaught, account, frame, wire, metadata, control>>
\* A block is mined; BLOCKHEIGHT_CHANGED asks again for what was not mined.
Mine ==
    /\ ~ Microtasks
    /\ tip < Len(Chain)
    /\ tip' = tip + 1
    /\ requests' = [r \in Block \X Stages |->
           CASE r[2] = "tx" -> requests[r] + requests[<<r[1], "delayed">>]
             [] r[2] = "header" -> requests[r]
             [] r[2] = "delayed" -> 0]
    /\ pending' = pending \cup {<<"tx", b>> : b \in {c \in Block : requests[<<c, "delayed">>] > 0}}
    /\ UNCHANGED <<scenario, browser, incidents, uncaught, account, frame, wire, described, unnoticed, control>>

-----------------------------------------------------------------------------
\* onStop, up to the setImmediate or to its wait for pendingRequest
StopGoesOn ==
    /\ syncIncoming' = FALSE
    /\ stopping' = "scheduled"
    /\ immediates' = Append(immediates, OfStop(current # 0))

Stop(force) ==
    /\ ~ Microtasks
    /\ mode # "new"
    /\ stopping = "no" /\ Incident("stop")
    /\ pending' = IF force THEN {} ELSE pending
    /\ IF pending' = {}
       THEN StopGoesOn
       ELSE stopping' = "waiting" /\ UNCHANGED <<syncIncoming, immediates>>
    /\ UNCHANGED <<account, frame, wire, described, requests, unnoticed>>

StopResumes ==
    /\ ~ Microtasks
    /\ stopping = "waiting"
    /\ pending = {}
    /\ StopGoesOn
    /\ UNCHANGED <<world, account, frame, wire, metadata>>

StopCancels ==
    /\ ~ Microtasks
    /\ immediates # <<>> /\ Head(immediates)[1] = 0
    /\ immediates' = Tail(immediates)
    /\ stopping' = "stopped"
    /\ current' = 0
    /\ IF current = 0
       THEN UNCHANGED <<streams, outcome, ending>>
       ELSE /\ streams' = CancelledStreams(current)
            /\ IF browser /\ Head(immediates) = OfStop(TRUE)
               THEN /\ Settle(current, "CANCELLED")
                    /\ ending' = IF pending = {} THEN ending ELSE ending \cup {current}
               ELSE UNCHANGED <<outcome, ending>>
    /\ UNCHANGED <<world, account, mode, pc, query, gaps, base, reached, metadata,
                   syncIncoming>>

-----------------------------------------------------------------------------
Frame ==
    \/ BestHeightAnswered
    \/ Subscribed
    \/ Continue

Streams ==
    \E i \in DOMAIN streams :
        \/ ReceiveTransaction(i)
        \/ ReceiveMerkleBlock(i)
        \/ StreamEnds(i)
        \/ EndingResumes(i)
        \/ CancelEmitsError(i)

Jobs ==
    \/ \E i \in DOMAIN streams : ProcessTransaction(i) \/ ProcessMerkleBlock(i)
    \/ JobCancels

Requests == \E b \in Block : TransactionAnswered(b) \/ HeaderAnswered(b)

Stopping == StopResumes \/ StopCancels

Failures ==
    \/ \E code \in Codes : BestHeightFails(code) \/ SubscriptionFails(code)
    \/ \E i \in DOMAIN streams :
          \/ \E code \in Codes : StreamFails(i, code)
          \/ ImportFails(i)
    \/ \E b \in Block, stage \in Stages : RequestFails(b, stage)

Starting == \E all \in Scenarios[scenario].skipAll, h \in Scenarios[scenario].skipBefore : Start(all, h)

Users ==
    \/ Starting
    \/ \E force \in Stops : Stop(force)

Next ==
    \/ Frame \/ Streams \/ Jobs \/ Requests \/ Stopping
    \/ Mine \/ Failures \/ Users
    \/ \E i \in DOMAIN streams, b \in Block : ReceiveUnmined(i, b)

Spec == Init /\ [][Next]_vars

\* The event loop takes every event in the end; the transport answers, sends
\* what it has and ends a stream it has emptied; blocks are mined.
Fairness ==
    /\ WF_vars(Frame) /\ WF_vars(Streams) /\ WF_vars(Jobs) /\ WF_vars(Requests)
    /\ WF_vars(Stopping) /\ WF_vars(Mine)
    /\ WF_vars(Starting)

FairSpec == Spec /\ Fairness

-----------------------------------------------------------------------------
TypeOK ==
    /\ scenario \in DOMAIN Scenarios /\ tip \in Block /\ browser \in BOOLEAN /\ uncaught \in BOOLEAN
    /\ IsABag(incidents) /\ Happened \subseteq Scenarios[scenario].incidents
    /\ origin \in 0..Len(Chain) /\ known \in Nat /\ imported \in SUBSET Block
    /\ hash \in 0..Len(Chain) /\ height \in 0..Len(Chain)
    /\ mode \in {"new", "historical", "incoming", "over"}
    /\ pc \in {"none", "best", "subscribe", "stream"}
    /\ outcome \in {"pending", "gap", "end", "CANCELLED"} \cup Codes
    /\ gaps \in Nat /\ base \in 0..Len(Chain)
    /\ current \in 0..Len(streams) /\ reached \in BOOLEAN
    /\ ending \in SUBSET DOMAIN streams
    /\ requests \in [Block \X Stages -> Nat]
    /\ pending \in SUBSET Keys /\ described \in SUBSET Block /\ unnoticed \in BOOLEAN
    /\ syncIncoming \in BOOLEAN
    /\ stopping \in {"no", "waiting", "scheduled", "stopped"}
    /\ immediates \in Seq((0..Len(streams)) \X {"none", "E", "P", "found"} \X (0..Len(Chain)))

Listening == {i \in DOMAIN streams : streams[i].live /\ streams[i].handled}

\* "Limited to one stream at the same time.", the error syncUpToTheGapLimit
\* throws when this.stream is set, says that there are never two.  There are
\* after importTransactions has rejected, which resets this.stream and leaves
\* the stream open.
OneStream == "import" \notin Happened => Cardinality(Listening) <= 1

\* A stream whose filter lacks addresses of the account is on its way out: a
\* cancel is scheduled for it.  In a browser the end handler that a cancel
\* calls may wait for a request and reset the stream that follows; the import
\* with metadata derives addresses that no stream is opened for.
FilterIsCurrent ==
    browser \/ unnoticed \/ "import" \in Happened \/
    \A i \in Listening :
        streams[i].filter < known => Microtasks \/ immediates # <<>>

\* What a scan of the blocks one by one would find: the number of addresses the
\* account has after block b, and whether block b has a transaction of it.
Scanned[b \in 0..Len(Chain)] ==
    IF b = 0 \/ b < origin THEN Gap ELSE Derived(b, Scanned[b - 1])
Due(b) == origin <= b /\ Wanted(b, Scanned[b - 1])

\* The streams, each with the filter of its time, leave no transaction behind
\* that a scan block by block would find, unless a call or a stream fails, the
\* server closes a stream early, or a transaction overtakes a cancel: the next
\* stream starts where all that is due before is imported.  The exceptions are
\* those of FilterIsCurrent.
NextStart == IF hash = 0 THEN LastHeight(height) ELSE hash
NothingSkipped ==
    ~ browser /\ ~ unnoticed /\ Happened \subseteq Harmless =>
        \A b \in Block : b < NextStart /\ Due(b) => b \in imported

\* A cancel finds the stream it is for: no callback throws unheard, because
\* the end handler, which resets this.stream, waits for the request that the
\* job has begun.  (The answer to an earlier call for the same transaction may
\* delete the key they share in between, and a forced stop deletes them all.)
CancelFindsStream == Happened \subseteq Harmless => ~ uncaught

\* The frame that awaits a stream awaits one that sends, one that is to emit the
\* error of its cancel, or one whose end handler waits for pendingRequest.  (In a
\* browser onStop calls no handlers of a stream that was not there when it
\* scheduled its cancel.)
StreamServed ==
    pc = "stream" /\ outcome = "pending" =>
        \/ \E i \in DOMAIN streams :
              Awaited(i) /\ (streams[i].live \/ streams[i].closing \/ i \in ending)
        \/ browser /\ stopping = "stopped" /\ current = 0

\* Every key of pendingRequest belongs to a request whose answer deletes it, or
\* that is asked for again when a block is mined.
KeysServed ==
    \A b \in Block :
        /\ <<"header", b>> \in pending => requests[<<b, "header">>] > 0
        /\ <<"tx", b>> \in pending => \E stage \in Stages : requests[<<b, stage>>] > 0

\* Whoever waits has somebody to wait for: the frame, and the end handlers and
\* onStop, which wait for pendingRequest to be empty.  A request that has failed
\* leaves its key there for ever, and who waits for it waits in vain.
NobodyWaitsInVain == StreamServed /\ ("request" \notin Happened => KeysServed)

\* Disconnecting an account "will disconnect from all the opened streams, will
\* stop all running workers" (disconnect.js): a worker that has stopped has no
\* stream open.
StopSticks == stopping = "stopped" => Listening = {}

\* Every transaction that a scan block by block would find is found in the
\* end, unless the worker is stopped or has missed that it needs a new stream.
EverythingFound ==
    <>[](stopping # "no" \/ unnoticed \/ "unmined" \in Happened \/
         \A b \in Block : Due(b) => b \in imported)

Longest == Max({Len(s.chain) : s \in Range(Scenarios)})

\* The header and the metadata of every transaction found arrive in the end,
\* however many times it was asked for and whenever it is mined.
EveryTransactionDescribed ==
    \A b \in 1..Longest : (b \in imported) ~> (b \in described)

\* onStop, which waits for the requests under way, returns.
StopReturns == (stopping = "waiting") ~> (stopping = "stopped")
=============================================================================
