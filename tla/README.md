# Verification of wallet-lib

TLA+ specifications of the core of `@dashevo/wallet-lib` (the code under `src/src`), the TLC
instances that check them and the TLAPS proofs about them.  Paths below are relative to `src/src`.

Contents: [the system](#the-system), [modules](#modules), [runs](#runs), [proofs](#proofs),
[findings](#findings), [not modelled](#what-is-not-modelled), [plan](#plan).

## The system

The library is one JavaScript process without threads.  Concurrency comes from the event loop: an
`async` function runs until it awaits, and between its awaits every other function, event handler,
timer and stream callback may run.  An action of a module is therefore what runs between two returns
to the event loop.  Where the order of microtasks and macrotasks matters (the continuation of a
settled promise runs before the next stream event) a module says so in its guards.

### Components

| component | state | operations | talks to |
|---|---|---|---|
| **Chunk queue** `utils/Queue` | `jobs`, `state.isProcessing`, one-shot `enqueued` and permanent `processed` listeners | `enqueueJob`, `processNext`, `processJob`, `Job.run` | called by stream handlers; jobs call `processChunks` |
| **Gap limit** `utils/bip44` | none (reads and adds to the store's addresses) | `ensureAddressesToGapLimit`, `getMissingIndexes`, `isContiguousPath` | called by `_initializeAccount` (twice) and by `Account.importTransactions` |
| **Ledger** `types/Storage/methods`, `types/Account/methods` | address objects (`used`, `balanceSat`, `utxos`, `transactions`), `store.transactions`, `mappedAddress` | `importTransaction(s)`, `updateAddress`, `importAddress(es)`, `searchAddressesWithTx`, `getUTXOS`, `broadcastTransaction` with `impactAffectedInputs` | worker imports, user calls, transport |
| **Transaction synchronization** `plugins/Workers/TransactionSyncStreamWorker` | `stream`, `hasReachedGapLimit`, `pendingRequest`, `delayedRequests`, `syncIncomingTransactions`, `chunksQueue`, and the awaiting frames | `onStart` (historical), `execute` (incoming), `onStop`, stream handlers, `processChunks`, `handleTransactionFromStream` | transport streams, chunk queue, ledger, account heights |
| **Transaction building** `createTransaction`, `utils/coinSelections` | none | choose UTXOs, estimate and deduct the fee, change, sign | reads the ledger, derives keys |
| **Workers and plugins** `plugins`, `injectPlugin`, `_sortPlugins` | `isWorkerRunning`, `workerPass`, `state`, the interval, `account.plugins` | `startWorker`, `execWorker`, `stopWorker`, `injectPlugin`, `connect`, `disconnect` | events of the account |
| **Account readiness** `types/Account` | `state.isInitialized`, `isReady`, `plugins.watchers` | `_initializeAccount` with its readiness interval, `isInitialized`, `isReady` | workers, gap limit |
| **Persistence** `types/Storage` | `store`, `mappedAddress`, `lastModified`, `lastSave`, `interval`, adapter | `configure`, `rehydrateState`, `saveState`, `startWorker`, `stopWorker`, `searchAddress` | the adapter; every import; `disconnect` |
| **Chain plugin** `ChainPlugin`, `importBlockHeader` | `chains[..].blockHeight`, `blockHeaders` | status at start, block headers | readers of confirmations, delayed requests |
| **Identities** `IdentitySyncWorker`, `Identities` | the list `identityIds` of the store, one for all accounts | scan from index 0, `getUnusedIdentityIndex` | transport, storage |
| **Instant locks** `importInstantLock`, `waitForInstantLock` | `store.instantLocks`, listeners of the account's events | import, wait with a timeout | stream handlers, user calls |
| **Wallet** `types/Wallet` | `accounts` | `createAccount`, `getAccount`, `disconnect`, `sweepWallet` | accounts, storage |
| **History** `getTransactionHistory`, `categorizeTransactions` | none | classify addresses, filter and name transactions | reads the ledger |
| **Key chain** `types/KeyChain` | cache of derived keys | derive, sign | cryptographic library |
| **Transport** `transport` | none of its own | requests and streams | the network |

### How they interact

A stream opened by the synchronization worker filters blocks by the addresses the account knows when
it subscribes.  Its chunks go to the chunk queue; a job of the queue (`processChunks`) gives the
transactions to `Account.importTransactions`, which updates the ledger and ensures the gap limit, so
that the account may know more addresses afterwards.  In that case the job schedules the cancellation
of the stream, whose `error` event settles the promise on which the worker's frame waits, and the
frame subscribes again with the larger filter.  Meanwhile requests for the transaction's height and
header are under way; their answers import the transaction once more, with metadata, and move the
account's `blockHash`, from which the next stream starts.  A user may stop the worker, broadcast a
transaction or ask for an address at any of these points.

### What is hard

* *Interleavings inside one import.*  The filter of a stream is stale from the moment a transaction
  adds addresses until its cancel is heard; chunks of the old filter still arrive and still run.
* *Callbacks that read shared fields late.*  `setImmediate` callbacks cancel `self.stream`, whatever
  it is when they run; the end handler resets it after waiting for requests.
* *Repeated delivery.*  Every restarted stream and every metadata answer imports a transaction again.
* *Failures.*  Each call of the transport may reject, each stream may fail or end early, an import may
  throw; every catch block restarts, gives up, or goes on.
* *Two ways to update a balance.*  Imports and answered broadcasts both take inputs off.
* *A slow disk.*  `configure` is not awaited and the interval does not wait for its saves: imports,
  rehydration and several saves overlap, and the process may end between two items of a save.
* *Several accounts in one store.*  The gap limit looks for holes in the paths of all accounts; several scans
  read and extend one list of identities; a lock that one account imports is not announced to the others.
* *Flags that a stop clears while what they guard goes on.*  `stopWorker` resets `isWorkerRunning` and does not
  wait for the execution, nor for the start, that is under way.
* *Calls that overlap because nobody awaits them.*  The chain of injections, `onStart`, and the initialisation of an
  account go on while users call `createAccount`, `getAccount`, `connect` and `disconnect`.

`PROJECT.json` lists every such hazard at its line with the properties that cover it.

### What makes each component correct

* Queue: jobs start once, in order, and none waits while nothing runs, unless a job threw.
* Gap limit: after it the account looks `Gap` addresses ahead; it makes no holes.
* Ledger: balances equal the worth of the UTXOs; UTXOs are exactly what was received and not spent;
  nothing is credited twice.
* Synchronization: one stream at a time, with a current filter; what a scan block by block would find is
  found; the worker's phases end; a stop returns and leaves nothing open.
* Workers and readiness: plugins are injected in the order they ask for; an execution at a time; an account is
  ready when, and as soon as, what it watches has run; nothing runs or starts after a disconnection.
* Persistence: the disk is always a state to resume from; what was saved is not lost; what was modified is
  saved in the end.
* Identities: a scan misses nothing but what is behind a gap; an answered index is free.
* Instant locks: a waiter gets the lock or the timeout, and the timeout only if it was not told of the lock.
* Wallet: one account per index; disconnecting reaches every account.
* Building: inputs cover outputs and fee, with no input too many.
* History: it names what made the account richer or poorer, and leaves nothing out.

## Modules

| module | models | state and actions against the code |
|---|---|---|
| `FifoWorkQueue` | what the queue promises to its users | abstract: accepted, begun, ended and failed jobs |
| `JobQueue` | `utils/Queue/Queue.js`, `Job.js` | `Enqueue` is `enqueueJob` with the one-shot listeners it fires; `Finish`/`Throw` are the end of `processJob`, with the `processed` listener; `Resume` is the end of that listener's frame. `frame[j]` says which listener awaits job `j` |
| `JobQueueProofs` | | proofs about `JobQueue` |
| `GapLimit` | `utils/bip44` | operators on sets of `<<account, type, index>>`: `Filled`, `PathsContiguous`, `IndexesToGenerate`, `Ensured` are the steps of `ensureAddressesToGapLimit` in order |
| `GapLimitProofs` | | what `Ensured` guarantees, for all inputs |
| `CoinSelection` | `utils/coinSelections` | `Selectable` is the check of `coinSelection`, `Accumulated` the accumulation of the sorted UTXOs, `EstimatedFee` and `Deducted` the `TransactionEstimator` and what is taken off the outputs |
| `WalletLedger` | the ledger of an HD wallet with any number of accounts | `ImportTransactions` enters `Account.importTransactions`, `ImportTransaction` is a call of `Storage.importTransaction` (its events run listeners, which may read the ledger between two), `EnsureGapLimit` is its end; `SendTransaction`, `SendAnswered`, `SendFailed` are the halves of `broadcastTransaction` around its await; `CreateTransaction` spends what `CoinSelection` selects; `Initialize` and `BecomeReady` are the two derivations of `_initializeAccount`; `GetAddress` is a user's call |
| `WalletLedgerProofs` | | proofs about `WalletLedger` and `TransactionHistory` |
| `TransactionSync` | the synchronization worker, its streams, handlers, queue, requests and `onStop` | `mode`, `pc`, `query`, `gaps`, `base` are the awaiting frames and their local variables; `streams`, `current`, `reached` are the streams and the worker's fields; actions are grouped as the frame, the streams' handlers, the jobs, the requests, and the stop |
| `TransactionSyncProofs` | | proofs about `TransactionSync` |
| `StatePersistence` | the store, its adapter and its processes one after the other | `calls` is the adapter's queue: every pending call stands for the frame that awaits it, a save (`ItemSet` goes on with the next part) or `configure` (`AdapterReady`, `ItemRead`); `Tick` is the interval, `dirty` is `lastModified > lastSave`; `CreateAccount`, `Import`, `Advance`, `Disconnect` are what an account does to the store; `Restart` ends the process |
| `StatePersistenceProofs` | | proofs about `StatePersistence` |
| `TransactionHistory` | `classifyAddresses`, `filterTransactions`, `categorizeTransactions` | operators over every state of `WalletLedger`: `TypeOf` is `determineType`, `FilterTransactions` the filter |
| `PluginOrder` | `_sortPlugins.js` | `SortUserPlugins` places one plugin of the user after the other (`Placed`) |
| `WorkerLifecycle` | `Worker.js`, `Plugin.js`, `injectPlugin`, `_initializeAccount`, `connect`, `disconnect` | `calls` is the bag of frames that wait for a hook, and where: `Settle(c)` is the rest of frame `c` up to its next await; `Tick` is a worker's interval, `PollReadiness` the account's; `Initialize` sorts the plugins and begins the chain of injections; `Connect` and the steps from `Disconnect` to `StateSaved` or `DisconnectFails` are the user's calls |
| `WorkerLifecycleProofs` | | proofs about `PluginOrder` and `WorkerLifecycle` |
| `IdentitySync` | `IdentitySyncWorker`, `getUnusedIdentityIndex` | a worker's record is the frame of its scan: the list it read, the indexes it still asks for, what it found; the identities on the network are the environment |
| `IdentitySyncProofs` | | proofs about `IdentitySync` |
| `WalletAccounts` | `createAccount`, `getAccount`, `Wallet.disconnect`, the account's constructor | `CreateAccount`, `CreateAccountAt`, `GetAccount` push an account whose initialisation is pending; `BecomesReady`, `ReadinessThrows`, `CreateRejects` end it; `WalletDisconnect`, `StorageStopped`, `AccountDisconnected`, `DisconnectFails` are the steps of the loop over the accounts |
| `InstantLocks` | `importInstantLock`, `waitForInstantLock` | `WaitForInstantLock` looks in the store and registers the listener and the timer, `ImportInstantLock` stores and calls the listeners of its own account, `TimedOut` is the timer |
| `InstantLocksProofs` | | proofs about `WalletAccounts` and `InstantLocks` |
| `MCJobQueue`, `MCWalletLedger`, `MCTransactionSync`, `MCStatePersistence`, `MCWorkerLifecycle`, `MCIdentitySync`, `MCInstantLocks` | | instances for TLC |

`WalletLedger` extends `GapLimit` and `CoinSelection`, `TransactionHistory` extends `WalletLedger`,
`WorkerLifecycle` extends `PluginOrder`, `InstantLocks` extends `WalletAccounts`.  `JobQueue` implements `FifoWorkQueue` by the mapping
`accepted <- arrived`, `begun <-` the jobs of `started`, `ended <-` the jobs of `ended`.
`TransactionSync` contains the queue of each stream in a compact form (`jobs`, `turn`, `listens`): the
jobs of a stream's queue in `JobQueue`, seen at the grain of what the worker can observe.

### Abstractions

*Queue.*  A job is its number of arrival.  Its function is one step that returns or throws, at any
time later.  `Enqueue` waits for `resuming = 0`: frames resume as microtasks, enqueueing comes from
events of streams.

*Ledger.*  An address is its path without the constant part, an outpoint has a creating transaction, an
owner and a worth, the network is a set of transactions without double spends.  Scripts, hashes and
signatures are left out.  `book` holds the address objects of the addresses some output pays; an
address the store does not know keeps a fresh object, which the guards ignore.  Satoshis are integers
without a bound: the code adds `Number`s far below 2^53.

*Selection.*  UTXOs are outpoints with a worth, `Before` is the order the sort gives them.  The default strategy sorts
by transaction and output index, as its own comparator names a field UTXOs lack; the other strategy differs in
the order only.  The fee is the estimate; sizes are those of P2PKH inputs and outputs.

*History.*  Types are computed from the addresses the account has when it asks.  Times, heights, the addresses
listed with a transaction and the order of the list are left out.

*Synchronization.*  Addresses are numbered in the order of derivation, so that what an account knows
is a number, and the gap limit is `Derived`.  A block holds one transaction of interest and shares its
number with it; the transport's chunks are a transaction and then its block.  A retriable error is one
of `GRPC_RETRY_ERRORS`, a fatal one any other.  Instant locks of a chunk are left out: they touch no
state of the worker (`InstantLocks` imports them at any time).  `startHistoricalSync` calls itself when the gap limit is reached and its frames set
the last synced height as they return, so the frames below are a count (`gaps`) and the best height of the
lowest (`base`), which is the one that is set last.  `origin` and `unnoticed` are history variables: the height the
account was told to start from, and whether an import with metadata has derived addresses, whose number
`processChunks` does not look at.

A `setImmediate` callback is an event of its own: chunks, ends of streams and answers may come before it.
Only two of them are incidents, because they decide what the callback finds: a chunk (`burst`, `packet`), and an answer
that deletes the key of the very transaction whose delivery scheduled the cancel (`answer`), which an earlier call for the same
transaction shares (the job's own call counts, too, though its two answers would have to be as quick as the callback).  Any other
answer may come there in every run; in `live`, which has neither incident, these wait for the callback.

The transport's own assumption is `CancelEmitsError`: in node a cancelled stream emits `error` and no `end`, as the comment in
`TransactionSyncStreamWorker.js:226` says.  The one in `processChunks.js:58` ("grpc-web doesn't call error and end events")
suggests that an `end` follows.  If it did, the end handler of a cancelled stream could wait for a request and reset the stream
that is opened meanwhile, as it does in a browser, and the exemption that `FilterIsCurrent` and `NothingSkipped` make for
browsers would be needed in node.

`emit('error')` throws when nobody listens.  A scenario says whether somebody does (`heard`): without, a fatal error rejects
`startHistoricalSync`, no height is set and `startWorker` does not go on to `execute`.

*Persistence.*  Transaction `t` is in block `t` and pays each of `Pays[t]` once; addresses are numbered and
have one type; nothing is spent.  What importing and deriving do in detail belongs to `WalletLedger` and
`GapLimit`; here an address object keeps the fields that a merge can make inconsistent.  `chains` and `instantLocks`
are written and read like the other parts, but hold nothing.  The adapter copies an item when it is given and
serves its calls in order, as databases do; one that serialized later would write a later state.
The clock moves between a save and a modification: `lastModified = lastSave` in one millisecond is left out.
`exposed` is a history variable: the transactions imported while a save was under way or before the store was
rehydrated, and all of them once a store that was not rehydrated is saved.  For these the code promises nothing,
as the run `unsaved` and the README's findings say.  `passed` is another: the transactions that paid no address of the
store when the last synced height passed them.  The synchronization had no reason to ask for them; a later derivation
may add their address, so that a height on the disk vouches for the others only.

*Workers.*  A hook settles in a turn of its own; one that a plugin lacks settles at once, but for a worker's `execute`: without
it `execWorker` throws with `isWorkerRunning` set, which nothing but a stop clears (`Lacking`).  The events of the account are those a
plugin was injected with, so that watchers hear it after `disconnect` has removed the account's listeners.  The properties injected
into a plugin are left out: they are set once and before it starts.  A dependency that nobody knows (`injectPlugin.js:71` rejects, and
the plugin goes on) and an unknown type of plugin are left out, too.  `interrupted`, `unstarted` and `restless` are history
variables: plugins whose execution met a stop or another start, plugins whose `onStart` failed, and whether injections or starts
were under way when `disconnect` was entered, or `connect` was called after it.

*Identities.*  An identity is its index, so that the list is a length and the set of indexes it has an id at.
The network answers as of the moment the answer arrives, and forgets nothing.  `network` and `list` of a scan are what
there was when it began.  That a worker scans once at a time is `OneExecution` of `WorkerLifecycle`.

*Accounts and locks.*  An account is its position in `wallet.accounts`; `Undefined` is the index of an account that gets
none.  `Printed` is the order of decimal forms, for two digits: the indexes are sorted as strings.  `opened`,
`clashing`, and a wait's `since`, `elsewhere` and `stored` are history: the accounts at first, the taken indexes `createAccount` was
asked for, the disconnections of the account when it began to listen, whether another account imported the lock
meanwhile, and whether the store had it at the timeout.

### Reference definitions

`TransactionSync!Scanned` is the synchronization as it would be if every block were looked at with all
addresses the account has by then: `Scanned[b]` is the number of addresses known after block `b`, and
`Due(b)` says that block `b` has a transaction of the account.  `NothingSkipped` and `EverythingFound`
compare the streams with it.  `LedgerExact` defines the UTXO set from the history alone.
`LooksAhead` defines what BIP44 asks for.  `PaidIn` and `PaidOut` define what a transaction did to an account; the
history's names are compared with them.  `BehindGap` says which identities a scan by gap limit cannot be expected to find.

## Runs

All runs use the constants of their `.cfg`; no definition is overridden.  Deadlock is not checked
where a finite number of jobs, transactions, blocks, calls or identities ends the behaviour: all of these
systems stop when nothing more arrives.

| run | checks | instance, and why it is enough |
|---|---|---|
| `queue` | `TypeOK`, `NoLostWakeup`, `DeadQueueStaysDead`, `EveryJobEnds`, `ImplementsWorkQueue` | 8 jobs, some of which may throw. Two jobs already show both listeners and three the listener's renewal after a failure; eight give two failures with backlogs before, between and after |
| `ledger` | `TypeOK`, `LedgerExact`, `BalanceMatchesUtxos`, `UtxosAreListedOutputs`, `OnlyUsersMakeHoles`, `SelectionFits`, `TypeFollowsMoney`, `NoSecondCredit`, `ImportLooksAhead` | two accounts in one store, gap 1, users who ask for an address far ahead; four transactions: one funds an address twice, two compete for an output of it and give change, one of them to pay the other account, and one moves the change to an address that is derived only later. Any batch, any order, any number of times, with broadcasts that are answered or fail around it |
| `history` (violation) | `HistoryIsComplete` | a transaction that spends change only |
| `sync` | `TypeOK`, `OneStream`, `FilterIsCurrent`, `NothingSkipped`, `CancelFindsStream`, `NobodyWaitsInVain` | node and browser, stops with and without force, skipping all or nothing or to a height; one incident of any kind at any point (see below) |
| `live` | `EverythingFound`, `EveryTransactionDescribed`, `StopReturns` | under fairness; one transaction sent before it is mined and a stop without force, each at any moment |
| `stop` (violation) | `StopSticks` | two blocks, stop with force |
| `persistence` | `TypeOK`, `DiskResumes`, `CreditIsSavedOrPending`, `BalanceMatchesUtxos`, `SavedIsKept` | two transactions: the first pays an address that is derived only because of the second, which pays that address again and the one watched from the start; so a height can pass a payment to an address that is derived afterwards; two saves at once, one rejected call of the adapter at any point, three processes, each of which may end at any point |
| `unsaved` (violation) | `SavesWhenNeeded` | one process, no failures |
| `lifecycle` | `TypeOK`, `InjectionOrderKept`, `OneExecution`, `DisconnectIsFinal`, `ReadyWhenWatchedRan`, `NoWatcherForgotten`, `BecomesReady` | the default plugins with a worker started by `connect` only; a worker with one pass per start; a watched worker behind a plugin whose hooks take long; the worker of the manual (`docs/plugins/writing-a-new-plugin.md`), watched and without an `execute`; and every way for three plugins to ask for their places. Errors heard or not, two connects, one hook that rejects |
| `identities` | `ScanComplete`, `AnswerIsFree` | two accounts, gap limit 2, four indexes: room for a hole, for a gap with an identity before it and for one behind it. Identities appear and requests fail at any point |
| `middle` (violation) | `HolesChecked` | the same instance |
| `accounts` | `OneAccountPerIndex`, `DisconnectReachesAll`, `TimeoutMeansMissing` | a new wallet, and one with eleven accounts, whose next index prints before 9; two calls of `createAccount` or `getAccount`, by index 0 or 1 or none, overlapping each other and one disconnection; two accounts that import a lock one of them waits for |

*Bounds of the synchronization.*  `Growing` is the shortest chain whose second block needs an address that the
first one makes known, so that the first stream's filter is stale when it matters, and which makes the account
derive again in the second block, so that cancels, restarts and frames waiting on frames all occur.
`Overtaking` adds a block that a stale filter would deliver before the block it misses: without it a
skipped block could not be told from one that is still to come.  With a first tip of 1 the other block is mined at any
later moment, during the historical or the incoming phase.  `sync` takes the incidents after which something may be skipped on
`Growing` in node; a stop, a server that ends a stream and the harmless incidents there in a browser; all of them but these on a chain of one block
(`Single`) in both; the harmless incidents on `Overtaking` in node; and `Overtaking` skipped to a height, or all of it, with none,
in both.  In `Sharing` a transaction uses an address that its own import derives, so that it is sent again while its metadata is asked
for; the incidents are the harmless ones and `answer`.  Nobody hears 'error' in `Single`.
`MaxIncidents = 1` lets each incident happen at every point; the properties that exclude a kind of
incident name it (`Happened`).  Two incidents in a row are checked in `live` only.

*Bounds of the workers.*  A plugin's fields decide its path: whether it is a worker, executed at its start, watched,
given an interval, given a limit of passes, and slow to be injected.  The four mixtures have every path next to one
that it can disturb.  Two connects suffice for a start that meets a start under way and for one after a stop;
`MaxCalls` bounds only the calls that an interval adds to those under way.  A plugin that names one which is not there yet
makes `sortPlugins` throw, so the placements name plugins given earlier.

*Bounds of the accounts.*  Eleven accounts are the fewest whose indexes sort differently as strings than as numbers.
A third new account would repeat what two show; the theorems hold for any number.

*Bounds of the persistence.*  A balance goes wrong in a merge when both sides know an address, one of
them listing a transaction: one transaction suffices, and the second one tests what a merged object does next.  Two saves at
once show every overlap of two frames on the adapter's queue.  The first process leaves a disk, the second resumes from
it and leaves one that two processes wrote, the third resumes from that.

*What the synchronization does not survive.*  The hypotheses of the properties are needed; TLC shows each of
these when the hypothesis is dropped.  `NothingSkipped` is violated by a fatal error of a historical stream or of its
subscription (the last synced height is set to the best one), by a server that ends a stream early, by a
transaction chunk that arrives between a scheduled cancel and its callback, and by a transaction sent before it is mined, whose
header moves `blockHash` past older blocks.  Both it and `FilterIsCurrent` are violated in a browser: the end handler that a
cancel calls may wait for a request and then reset the stream opened meanwhile, which is not cancelled when it
should be (`NothingSkipped` on five blocks, which use the addresses 0, 2, 4, 1 and none).  Both are violated in node, and `EverythingFound` with
them, without `unnoticed`: on two blocks whose first transaction uses the addresses 0 and 2.  `StopReturns` is violated by one failed
metadata request, whose key stays in `pendingRequest` (the key that `NobodyWaitsInVain` exempts).  Two calls for one transaction share a key, so
`onStop` may go on while the second is under way.

The shared key is why `CancelFindsStream` exempts `answer`.  With a `packet` and an `answer`, `Sharing` violates it in node
when the exemption is dropped: the transaction of the first block is sent again and schedules a cancel, the header that an
earlier call asked for deletes the key of both calls, the Merkle block and the end of the stream come before the callback, the end
handler finds no request to wait for and resets `this.stream`, and `processChunks.js:84` throws on null in the callback.
TLC found no such end to `NothingSkipped`, `FilterIsCurrent` and `NobodyWaitsInVain`, which held there and on `Overtaking` with
two incidents, an `answer` counting as harmless.  The frame may wait in vain in one corner, which `StreamServed` names: in a
browser a stop that schedules its cancel before the stream is there takes the node branch (`TransactionSyncStreamWorker.js:200`) and
calls no handlers of the stream it cancels.

*Fairness.*  `JobQueue`: promise continuations run (`Resume`), every job returns or throws; nothing is
assumed about arrivals.  `TransactionSync` (`FairSpec`): the event loop takes every event in the end; the transport
answers, sends what it has and ends a historical stream it has emptied; blocks up to the end of
`Chain` are mined; the worker is started.  Failures, stops, untimely chunks and
untimely answers are never required.
`WorkerLifecycle` (`FairSpec`): the account is initialized, its readiness interval polls, and for each plugin hooks settle
and intervals tick; nobody must connect, disconnect or fail.
Each conjunct is a weak fairness condition on a group of handlers, which a first-in first-out event loop
gives: a handler that stays ready is called.

## Proofs

Proved for every value of the constants that meets the named assumptions (`QueueAssumption`,
`GapAssumption`, `LedgerAssumption`, `WorthAssumption`, `OrderAssumption`, `IdentityAssumption`, `AccountsAssumption`,
`LocksAssumption`, `RelayAssumption`, `PaysAssumption`, `BoundsAssumption`, `LifecycleAssumption`, `SyncAssumption`).

**Queue.**  `NoLostWakeup` is not inductive: it does not say who will start the next job.  The
invariant `IInv` of `JobQueueProofs` adds `Fifo` (the started jobs are 1, 2, ... and the queue holds
the following ones), `ListeningWhenEmpty` (a registered one-shot listener means an empty queue; so
`enqueueJob` starts the new job or leaves it to a running one) and `SomebodyWatches` (without a failure
there is a running job, a frame about to register the listener, or the listener).  From it:
`QueueTypeCorrect`, `QueueNoLostWakeup`, `QueueStartsInOrder`, and the action property
`QueueDeadStaysDead` (a queue with a backlog, nothing running and hence a failure starts nothing ever again:
`ListeningWhenEmpty` says that no listener is left).  `QueueImplementsWorkQueue` says that `JobQueue` refines the safety
part (`SafeSpec`) of `FifoWorkQueue` under the mapping the run checks: `Enqueue` is `Accept`, `Finish` is `End`, `Throw` is
`Fail`, and `Resume`, which only registers a listener, is a stutter.  Its invariant adds `Accounting` (a job that has begun runs, has ended or has
failed), and needs `SomebodyWatches`: the abstract queue goes on with the next job at once unless one has failed.
That jobs start in the order of arrival, each once (`StartsInOrder`), is proved; in the run `ImplementsWorkQueue` implies it.

**Synchronization.**  The safety invariants of `TransactionSync` speak of what has been found, of streams and of filters one at
a time; none is inductive, because each handler relies on what the others leave.  `IInv` of `TransactionSyncProofs` has
seven groups, the later ones resting on the earlier:
`Typing` (with facts such as: what metadata is asked for was imported, the best height asked for is not beyond the tip);
`FrameOK` (while a frame awaits its stream's end, `this.stream` is its stream or none); `WireOK` (a stream that sends, or
that is to emit the error of its cancel, is the one the frame awaits; in node an end handler that still waits is its, too);
`FilterOK` (a stream watches what the account has derived unless the gap limit has been reached, and then its cancel is
scheduled); `CancelOK` (one cancel at most is scheduled, for the newest stream, whose queue holds Merkle blocks only
behind the job that waits for it; and `pendingRequest` has the key of that job's transaction, so that no end handler resets
`this.stream` first); `ScanOK` (nothing that a scan block by block would find is missing before a block
imported, nor before the heights the frame and the newest stream have come to; `Covered`: the account has all the
addresses the scan has there); `RangeOK` (the streams of the historical part ask for the blocks up to the best height,
and one that ends by itself has sent them, so the incoming part may start from there).  `CancelOK` speaks of runs in which
only `Harmless` incidents have happened, `ScanOK` and `RangeOK` moreover of node and of accounts without `unnoticed`
addresses, as the properties do; the first four groups hold under any incidents, but that an import which
throws excuses parts of `WireOK` and, with the other exceptions of `FilterIsCurrent`, `FilterOK`.  The scan is a recursive function of the height, so the proof first shows
that it exists (`ScanUnfolds`, by a least counterexample) and that it grows with the addresses it starts from
(`GrownGrows`): a stream with more addresses than the scan finds at least what the scan finds (`KnownCovers`), and so a
complete account stays complete over the next block (`CompleteGoesOn`).  From it: `SyncTypeCorrect`,
`OneStreamAtATime`, `FilterFollows`, `CancelsFindStreams` and `NothingIsSkipped`, for any chain, any gap and any number of
incidents.  TLC checked `IInv` before the proof on a scenario of the run `sync` and, up to several million states, on chains of
four and five blocks.  The attempt corrected three properties: the import with metadata may derive addresses that no stream is opened
for, in node as well (`unnoticed`), and in a browser the end handler of a cancelled stream may reset the stream that follows.

`NobodyWaitsInVain` is the safety core of `StopReturns` and `EverythingFound`: whoever waits has somebody to wait for.  Given
`Typing` and `FrameOK` it is inductive, each of its halves by itself.  `StreamServed`: whatever ends the stream the frame awaits settles the promise,
or leaves the end handler waiting for `pendingRequest`, or, when a cancel ended it in node, leaves the error it is to emit, but for
the stop in a browser that found no stream when it scheduled its cancel.
`KeysServed`: a key is added together with its request, moves on with it from the transaction to the header or to the
next block, and is deleted when the header is there; only a request that fails leaves its key behind.  So `NoWaitIsInVain`: what remains
for liveness is that the event loop and the transport go on, which the fairness says.

**Persistence.**  None of the checked invariants is inductive, because what is on the disk was in a pending call before, and
what is in the store may have been read from the disk.  `IInv` of `StatePersistenceProofs` says the same of every
place where a part can be: `GoodParts` (its address objects are consistent), `StoreBacked` and `DiskBacked` (what the wallets
part lists, or its height passes, is among the transactions next to it), and `SavesOK` for the part a pending save
carries: `transactions` are written before `wallets`, so a save that carries `wallets` finds on the disk, or among the
exposed, all that the part lists.  The frame that reads goes the same way (`ConfigureOK`, `ReadIsDisk`: nothing is
written between the reads of a rehydration, or everything is exposed), and `SavedIsKnown`
(a rehydrated store has every saved transaction) is why no later save loses one.  `MergedObject` is the lemma on lodash's
`merge` of two address objects: it keeps the balance of one and unites the UTXOs of both, which agree only when the first
side's are exposed.  From it: `PersistenceTypeCorrect`, `PersistenceDiskResumes`,
`PersistenceCreditIsSavedOrPending`, `PersistenceBalanceMatchesUtxos` and the action property
`PersistenceSavedIsKept`.  TLC checked `IInv` before the proof on five instances of payments, and showed that
`DiskResumes` without `passed` is false when a payment to an address not yet derived comes first.

**Plugins and workers.**  `SortedInPlace` says that `sortPlugins`, unless it throws, puts every plugin behind all it is to come
after and in front of the first it is to come before, for any sequence of plugins with different names, the default ones
without an order of their own (none sets `injectionOrder`).  Its proof follows the insertions
(`SortingUnfolds`); induction takes the form of a least counterexample, which the library proves for the naturals.  An insertion
shifts what is behind it and never turns two plugins round (`Inserted`, `InsertedInPlace`).
The calls under way are a bag, because equal calls may overlap; `Copies` counts them, and `Changed` says what a step takes off and adds.
None of the checked invariants is inductive.  `IInv` of `WorkerLifecycleProofs` adds: `CallsOK` and
`OneInjection` (who makes which calls; one call injects, at the plugin the chain has come to); `ReadinessOK` (the counter is
the number of the watchers counted); `ExecutionOK` (a plugin that no stop interrupted has its flag set
while it is executed, and is not executed while the stop of a failed execution, which clears the flag, is under way);
`StraysOK` (intervals lost and starts that still may lose one are no more than the connects); `TimersOK`
(an interval belongs to an injected worker, so that the one being injected has none); `QuietOK` (after a disconnect that found nothing
under way only intervals call, and those left belong to workers yet to be stopped).  `EffectKeeps` is the lemma that all ends of
a hook share.  From it: `LifecycleTypeCorrect`, `PluginsInjectedInOrder`, `WorkersExecutedOnce`,
`WorkersStayStopped` and the action property `ReadyMeansExecuted`.  TLC checked `IInv` on the instance of the run
`lifecycle`.

`NoWatcherForgotten` is the safety core of `BecomesReady`: until the account is ready it looks for every plugin it waits
for, and each of these is being started or executed, or has an interval that will execute it.  `ServiceOK` says
more, by how often a hook has failed: `BegunOK` (only injected plugins are called), `ChainOK` and `LooksOK` (who
continues the chain of injections, and who looks), `FlagsOK` (a set `isWorkerRunning` means that an execution is under way, unless the worker has no `execute` and keeps its flag,
so an `execWorker` that returns at once leaves the plugin to somebody), `PassesOK` (a counted pass has been announced, so
that the stop after the last pass forgets nobody) and `ServedOK`.  Before any failure a worker has a call that will
execute it and an interval, there or coming back (`Certain`); a failure, and the stop that follows it, takes one
of the two (`Hoped`); a second failure may take the other, which is why the property ends there.
A worker without an `execute` is exempt in `FlagsOK`, `ServedOK` and the property, because the code does forget it.  `NextServes` is the step, `NobodyIsForgotten` the
theorem.  Before the proof TLC checked the property with two failures and more plugins than the run has (1.7 million
states).

**Gap limit.**  `EnsuredLooksAhead`: when the account's paths are contiguous, `Ensured` leaves its gap
filled, whatever the paths of the other accounts are.  `EnsuredMakesNoHole`: if no account has
a hole before, none has after, although indexes missing among all accounts are derived
for one.  Both rest on the lemma that a non-empty set of naturals has a least element
(`LeastNumber`) and on `ContiguousHasNoHole`, `UpToIsContiguous`.

**Ledger.**  `IInv` of `WalletLedgerProofs` adds two conjuncts to the checked invariants.  `ParentsListed`: while
deliveries are orderly, an address that lists a transaction lists those whose outputs it spends;
without it an output could be credited after its spender came.  `CreatedSpendsListed`: a transaction signed by
the wallet spends outputs of listed transactions; with it an answered broadcast takes off exactly
the inputs still there.  From it: `LedgerTypeCorrect`, `LedgerBalanceMatchesUtxos`, `LedgerUtxosAreListed`,
`LedgerUsedIffListed`, `LedgerIsExact`; the action properties `LedgerNoSecondCredit` and
`LedgerImportLooksAhead`; `LedgerSelectionFits`; and, with the additional invariant `NoHoles` (until a user asks for an
address by index, no account's paths have a hole), `LedgerOnlyUsersMakeHoles`.  `WorthAssumption` is what a sum over
a set satisfies: the worth of disjoint sets adds up.  `OrderAssumption` is that the finitely many outputs are sorted one
after the other, as the pairs of transaction and index are all different.  What is accumulated (`AccumulatedCovers`)
is an initial part of that order; it ends because the UTXOs cover the amount, and the last one taken was needed
(`FirstSorted`, `LastSorted`, `WorthGrows`).  The ledger's invariant also proves `LedgerUsedIffListed`, which the gap limit
counts on, and, through the history's names, `HistoryTypeFollowsMoney`.  Its first attempt failed for a good reason: a transaction that several wallets pay
together is filed as sent and may still make the account richer, as may one that spends an address the account has not derived yet, so
`TypeFollowsMoney` exempts these.  `RelayAssumption` says of the transactions what the network asks of them before it relays
one: what they pay is worth something, and what spends outputs leaves a fee; without it a transaction that moves nothing would
contradict its name.

**Identities.**  `ScanComplete` is not inductive: while a scan is under way it does not say what has been asked for.
`IInv` of `IdentitySyncProofs` adds `Stored` (what the list has is registered) and, for each scan, `Begun` (the list it read and the network it began with are still
part of the store and the network), `Collected` (which indexes are left to ask for) and `Progress` (what was there at the
beginning, below the index it has come to, is stored or behind a gap; the gap it counts is made of indexes that were
free).  Another account's answers only add to the list, which all three survive.  From it: `TypeCorrect`,
`ScansAreComplete`, and the action property `AnswersAreFree`.

**Accounts and locks.**  That `createAccount` finds a free index rests on the order of decimal forms, of which 9 is the last: of
the numbers up to 99, only 9 prints after its successor (`PrintedGrows`), so the index after the last one
sorted is free unless 0 to 10 are taken (`SomeLastSorted`, `NextIndexIsUnused`).  `DisconnectInv` says which accounts
the loop of `Wallet.disconnect` has passed, and that these have been disconnected and have no interval left; `accounts`
only grows (`AccountsGrow`).  `WaitInv` says that a wait whose lock is stored was told, unless another account imported
it or its own was disconnected in between.  From them: `LocksTypeCorrect`, `IndexesDiffer`, `DisconnectIsComplete`,
`TimeoutsMissed`.

**Only model-checked.**  Liveness (`EveryJobEnds`, the three properties of `live`, `BecomesReady`) and the refinement
`ImplementsWorkQueue`, whose specification has fairness (its safety part is proved): liveness under fairness is out of
the provers' reach.  What `EveryJobEnds`, `BecomesReady` and the waits of the synchronization rest on at each state is proved:
`NoLostWakeup`, `NoWatcherForgotten` and `NobodyWaitsInVain`.

## Findings

* `stop`: `onStop` cancels only a stream that is there.  A worker stopped while it awaits the best
  block height or the subscription opens its stream afterwards.
* `unsaved`: `lastSave` is the time a save ends.  A transaction imported after its part was written
  stays unsaved until something else modifies the store.
* `history`: `filterTransactions` spreads the external addresses and not the internal ones, so that a transaction which
  only change addresses of the account list is missing from its history.
* `middle`: `if (!id) return` skips the holes of the list of identities, which the comment says are checked
  first, and asks for the identities it has once more.

Observed while modelling, without a run of its own.

*Queue and synchronization.*  Jobs of the queue may overlap.  With three of them, the `processed` frame that awaited the second finds
the queue empty and renews the one-shot listener while the third still runs; a fourth starts beside it.  After a failure there may be
several such listeners.  The callback that cancels `this.stream` may find none and throw where nobody catches: two deliveries of one
transaction share the key that the end handler waits for (see [above](#runs)).  A failed metadata request makes `onStop` wait for ever.  A rejected import resets `this.stream` without cancelling
it; the stream goes on beside the next one.  The comment of `processChunks` (line 72) says that new addresses need another
stream, with a filter that contains them; but those that the import with metadata derives (line 49), of a transaction that
uses an address its first import made known, open none: payments to them are skipped
until another transaction makes the account derive.

*Gap limit.*  `ensureAddressesToGapLimit` reads the paths, adds the missing addresses, and checks the
contiguity of the paths it read before: after a user has asked for an address far ahead the next import throws
although the hole has just been filled.

*Store.*  `rehydrateState` does not fill `mappedAddress`, so that after a restart payments to addresses derived before are
stored and not credited.  An account that is disconnected before its store is rehydrated, as `createAccount` does when
its initialization fails, overwrites what was saved.  Balances of addresses credited before the rehydration take the saved value
while their UTXOs are united.

*Workers.*  A second `connect` starts workers that run already; the stop with which a start begins is awaited, so that two
starts may each leave an interval, of which one is lost.  A stop during an execution allows a second one beside it.  A
plugin without an interval whose `onStart` fails, or an `onInjected` that rejects, leaves the account waiting for ever.
The account can be ready before a plugin that follows in the chain is injected and watched.  A watched worker without an `execute`, as
`docs/plugins/writing-a-new-plugin.md:116-139` shows one, is never ready: `Worker.js:115` sets the flag, line 132 throws, the error is
emitted, and no `EXECUTED` is; every later tick returns at line 108.  The account waits for it for ever.

*Accounts.*  The readiness interval derives addresses outside any catch: an exception is not caught and the account never becomes
ready.  Account indexes are sorted as strings.  The accounts of a wallet share its transport and storage, which the
disconnection of one of them closes for all.  `sweepWallet` asks the promise of the new wallet's account for an address, which throws: it never resolves.

*Building.*  Both strategies sort by fields that UTXOs do not have.  The selection covers the outputs, not the fee, which is then
taken off the outputs or left to the library.

## What is not modelled

* `sweepWallet`: it asks the promise of the new wallet's account for an address, which throws, so that it rejects or, when the account
  it sweeps does not become ready, never settles; it never resolves.
* Wallets without HD keys (single address, public key, private key) and HD public keys: they derive no
  addresses for the gap limit, take other paths through it, or (HD public keys in the history) have their addresses classed
  as those of others.
* Metadata by height, coinbase maturity and confirmations in the ledger.
* Change, signing and the fee a transaction has in the end; key derivation and the cache of keys; parsing
  and serialization: calls of `dashcore-lib`.
* In the persistence: the content of `chains` and `instantLocks`, `connect` (which starts a second
  interval), `clearAll`, and adapters that serve their calls out of order.
* The constructors' options and the import of a cache.
* Plugins of an unknown type or with a dependency that nobody knows: `injectPlugin` rejects, which ends the chain of injections, but in
  the second case the plugin is started all the same.
* What the other accounts of a wallet lose when one of them disconnects the transport or the storage they share.
* Times, heights and order of the history.
* The classes of `transport`, which forward calls; their answers are the environment.
* Conversions (`dashToDuffs`), validations, error classes and logging: no state.

## Plan

The modules planned are written: queue with its abstract specification, gap limit, coin selection, ledger, history,
synchronization, persistence, plugin order, workers, identities, accounts and instant locks.

The safety properties of all of them are proved.
