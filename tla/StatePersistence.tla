-------------------------- MODULE StatePersistence --------------------------
(***************************************************************************)
(* Storage: how the store of a wallet reaches a persistence adapter, and   *)
(* how a wallet that is created again finds it there.                      *)
(*                                                                         *)
(* configure() is not awaited by the Wallet, so an account may derive      *)
(* addresses and import transactions before the store is rehydrated.       *)
(* saveState writes the store part by part, waiting for the adapter after  *)
(* each; the interval does not wait for it, so saves may overlap.          *)
(*                                                                         *)
(* The adapter is external.  It takes a copy of what it is given, serves   *)
(* its calls in order, may be arbitrarily slow, and may fail.  The process *)
(* may end at any moment, which loses all but the disk and the calls the   *)
(* adapter has served; a new process with the same keys follows.           *)
(*                                                                         *)
(* The network is external, too: transaction t is in block t and pays the  *)
(* addresses Pays[t], one output each, which nothing spends.  Addresses    *)
(* are numbered in the order of their derivation.  What the chains and     *)
(* instantLocks parts hold is left out; saving and reading them takes its  *)
(* time.                                                                   *)
(***************************************************************************)
EXTENDS Integers, Sequences, FiniteSets

CONSTANTS
    Pays,
    Gap,            \* CONSTANTS.BIP44_ADDRESS_GAP
    MaxSaves,       \* bound on saves under way at once
    MaxRestarts,
    MaxFailures     \* bound on calls the adapter rejects

Tx == DOMAIN Pays
Address == UNION {1..a + Gap : a \in {0} \cup UNION {Pays[t] : t \in Tx}}

ASSUME PaysAssumption == Pays \in Seq(SUBSET Nat)
ASSUME BoundsAssumption ==
    Gap \in Nat \ {0} /\ {MaxSaves, MaxRestarts, MaxFailures} \subseteq Nat

VARIABLES
    store,          \* the parts of storage.store that are modelled
    mapped,         \* addresses in storage.mappedAddress
    dirty,          \* lastModified > lastSave
    timer,          \* storage.interval is set
    config,         \* what configure() waits for, or how it ended
    read,           \* the parts rehydrateState has read
    calls,          \* pending calls of the adapter
    account,        \* "none", "open" or "closed"
    disk,
    exposed,        \* history: transactions no save has to preserve, see Import, SaveState
    passed,         \* history: transactions the height went past unknown, see Advance
    restarts, failures

storageVars == <<store, mapped, dirty>>
vars == <<store, mapped, dirty, timer, config, read, calls, account, disk,
          exposed, passed, restarts, failures>>

\* The parts of the store whose content is modelled
Content == {"transactions", "wallets"}

-----------------------------------------------------------------------------
(* Address objects and the wallets part *)

FreshAddress == [used |-> FALSE, transactions |-> <<>>, utxos |-> {}, balanceSat |-> 0]

EmptyStore ==
    [transactions |-> {}, wallets |-> [addresses |-> <<>>, blockHeight |-> 0]]

Lists(addressObject, t) ==
    \E i \in DOMAIN addressObject.transactions : addressObject.transactions[i] = t

\* Mutated form: indexes start from zero
AheadFromZero(addresses) ==
    UNION {0..a + Gap : a \in {0} \cup {b \in DOMAIN addresses : addresses[b].used}}
\* The addresses that look Gap ahead of the last used one (ensureAddressesToGapLimit)
Ahead(addresses) ==
    UNION {1..a + Gap : a \in {0} \cup {b \in DOMAIN addresses : addresses[b].used}}

WithGap(addresses) ==
    [a \in DOMAIN addresses \cup Ahead(addresses) |->
        IF a \in DOMAIN addresses THEN addresses[a] ELSE FreshAddress]

\* Mutated form: what the store has wins
OursWin(ours, theirs) ==
    [used |-> ours.used,
     transactions |-> ours.transactions
        \o SubSeq(theirs.transactions, Len(ours.transactions) + 1, Len(theirs.transactions)),
     utxos |-> ours.utxos \cup theirs.utxos,
     balanceSat |-> ours.balanceSat]
\* lodash merge of two address objects: arrays by index, objects by key, the
\* second one's scalars
MergedAddress(ours, theirs) ==
    [used |-> theirs.used,
     transactions |-> theirs.transactions
        \o SubSeq(ours.transactions, Len(theirs.transactions) + 1, Len(ours.transactions)),
     utxos |-> ours.utxos \cup theirs.utxos,
     balanceSat |-> theirs.balanceSat]

MergedAddresses(ours, theirs) ==
    [a \in DOMAIN ours \cup DOMAIN theirs |->
        IF a \notin DOMAIN theirs THEN ours[a]
        ELSE IF a \notin DOMAIN ours THEN theirs[a]
        ELSE MergedAddress(ours[a], theirs[a])]

\* Mutated form: the transactions that were read are not merged
OnlyWalletsMerged(parts) ==
    [store EXCEPT !.wallets =
        IF "wallets" \in DOMAIN parts
        THEN [addresses |-> MergedAddresses(store.wallets.addresses, parts.wallets.addresses),
              blockHeight |-> parts.wallets.blockHeight]
        ELSE store.wallets]
\* mergeHelper for the parts the disk had
Merged(parts) ==
    [transactions |-> store.transactions \cup
        (IF "transactions" \in DOMAIN parts THEN parts.transactions ELSE {}),
     wallets |->
        IF "wallets" \in DOMAIN parts
        THEN [addresses |-> MergedAddresses(store.wallets.addresses, parts.wallets.addresses),
              blockHeight |-> parts.wallets.blockHeight]
        ELSE store.wallets]

-----------------------------------------------------------------------------
(* Saving *)

\* Mutated form: the wallets are written first
WalletsFirst == <<"wallets", "transactions", "chains", "instantLocks">>
\* The parts in the order saveState writes and rehydrateState reads them
Order == <<"transactions", "wallets", "chains", "instantLocks">>

Call(frame, step) ==
    [frame |-> frame, step |-> step,
     value |-> IF frame # "configure" /\ Order[step] \in Content
               THEN store[Order[step]] ELSE {}]

Saves == {i \in DOMAIN calls : calls[i].frame # "configure"}
HasAdapter == config \notin {"adapter", "unusable"}
Rehydrated == config = "done"

\* saveState, up to its first await.  Saving a store that was not rehydrated
\* overwrites what the disk has, and no promise is left.
SaveState(frame) ==
    /\ calls' = Append(calls, Call(frame, 1))
    /\ exposed' = IF Rehydrated THEN exposed ELSE Tx

\* The interval of startWorker
Tick ==
    /\ timer /\ dirty
    /\ Cardinality(Saves) < MaxSaves
    /\ SaveState("interval")
    /\ UNCHANGED <<storageVars, timer, config, read, account, disk, passed, restarts, failures>>

\* Account.disconnect, which stops the interval once the state is saved.  It
\* stops the workers first: the account imports nothing any more.
Disconnect ==
    /\ account = "open" /\ account' = "closed"
    /\ \/ /\ HasAdapter
          /\ Cardinality(Saves) < MaxSaves
          /\ SaveState("disconnect")
          /\ UNCHANGED timer
       \/ ~HasAdapter /\ timer' = FALSE /\ UNCHANGED <<calls, exposed>>
    /\ UNCHANGED <<storageVars, config, read, disk, passed, restarts, failures>>

\* What is left to do when the last part is written
SaveEnds(call) ==
    IF call.step = Len(Order)
    THEN [dirty |-> FALSE, timer |-> timer /\ call.frame = "interval"]
    ELSE [dirty |-> dirty, timer |-> timer]

\* The adapter has stored an item; saveState goes on with the next one.
ItemSet ==
    LET call == Head(calls)
    IN  /\ calls # <<>> /\ call.frame # "configure"
        /\ disk' = [part \in DOMAIN disk \cup ({Order[call.step]} \cap Content) |->
                        IF part = Order[call.step] THEN call.value ELSE disk[part]]
        /\ calls' = IF call.step = Len(Order) THEN Tail(calls)
                    ELSE Append(Tail(calls), Call(call.frame, call.step + 1))
        /\ dirty' = SaveEnds(call).dirty
        /\ timer' = SaveEnds(call).timer
        /\ UNCHANGED <<store, mapped, config, read, account, exposed, passed, restarts, failures>>

-----------------------------------------------------------------------------
(* Configuring and rehydrating *)

\* The adapter answered the test item: it is the storage's adapter from now on.
AdapterReady ==
    /\ calls # <<>> /\ Head(calls).frame = "configure" /\ config = "adapter"
    /\ config' = "reading"
    /\ calls' = Append(Tail(calls), Call("configure", 1))
    /\ UNCHANGED <<storageVars, timer, read, account, disk, exposed, passed, restarts, failures>>

\* The adapter returned an item.  After the last one the store is merged with
\* what was read, and configure starts the interval.
ItemRead ==
    LET call == Head(calls)
        known == [part \in DOMAIN read \cup ({Order[call.step]} \cap DOMAIN disk) |->
                    IF part = Order[call.step] THEN disk[part] ELSE read[part]]
    IN  /\ calls # <<>> /\ call.frame = "configure" /\ config = "reading"
        /\ \/ /\ call.step < Len(Order)
              /\ read' = known
              /\ calls' = Append(Tail(calls), Call("configure", call.step + 1))
              /\ UNCHANGED <<store, timer, config>>
           \/ /\ call.step = Len(Order)
              /\ store' = Merged(known)
              /\ read' = <<>>
              /\ calls' = Tail(calls)
              /\ timer' = TRUE
              /\ config' = "done"
        /\ UNCHANGED <<mapped, dirty, account, disk, exposed, passed, restarts, failures>>

\* The adapter rejects a call.  A save is given up, so is configure; nothing
\* catches the error.
CallFails ==
    /\ calls # <<>> /\ failures < MaxFailures
    /\ failures' = failures + 1
    /\ calls' = Tail(calls)
    /\ config' = IF Head(calls).frame # "configure" THEN config
                 ELSE IF config = "adapter" THEN "unusable" ELSE "failed"
    /\ read' = IF Head(calls).frame = "configure" THEN <<>> ELSE read
    /\ UNCHANGED <<storageVars, timer, account, disk, exposed, passed, restarts>>

-----------------------------------------------------------------------------
(* The account *)

\* _initializeAccount, for an HD wallet
CreateAccount ==
    LET addresses == store.wallets.addresses
    IN  /\ account = "none" /\ account' = "open"
        /\ store' = [store EXCEPT !.wallets.addresses = WithGap(addresses)]
        /\ mapped' = mapped \cup (Ahead(addresses) \ DOMAIN addresses)
        /\ dirty' = (dirty \/ ~(Ahead(addresses) \subseteq DOMAIN addresses))
        /\ UNCHANGED <<timer, config, read, calls, disk, exposed, passed, restarts, failures>>

\* The addresses importTransaction finds and that do not list t yet
Affected(t) ==
    {a \in Pays[t] \cap mapped : ~Lists(store.wallets.addresses[a], t)}

\* Mutated form: the branch of outputs does not set hasUpdateStorage
OnlySpendsUpdate(t) == FALSE
\* hasUpdateStorage of importTransaction
HasUpdate(t) == \E a \in Affected(t) : t \notin store.wallets.addresses[a].utxos

Credited(addressObject, t) ==
    [used |-> TRUE,
     transactions |-> Append(addressObject.transactions, t),
     utxos |-> addressObject.utxos \cup {t},
     balanceSat |-> addressObject.balanceSat + (IF t \in addressObject.utxos THEN 0 ELSE 1)]

\* Account.importTransactions of one transaction that the bloom filter lets
\* through.  Nothing promises that it is saved when a save is under way or the
\* store is not rehydrated yet.
Import(t) ==
    LET addresses == [a \in DOMAIN store.wallets.addresses |->
                        IF a \in Affected(t) THEN Credited(store.wallets.addresses[a], t)
                        ELSE store.wallets.addresses[a]]
    IN  /\ account = "open"
        /\ t >= store.wallets.blockHeight
        /\ Pays[t] \cap DOMAIN addresses # {}
        /\ store' = [transactions |-> store.transactions \cup {t},
                     wallets |-> [store.wallets EXCEPT !.addresses = WithGap(addresses)]]
        /\ mapped' = mapped \cup (Ahead(addresses) \ DOMAIN addresses)
        /\ dirty' = (\/ dirty
                     \/ HasUpdate(t)
                     \/ ~(Ahead(addresses) \subseteq DOMAIN addresses))
        /\ exposed' = IF /\ Saves # {} \/ ~Rehydrated
                         /\ t \notin store.transactions \/ Affected(t) # {}
                      THEN exposed \cup {t} ELSE exposed
        /\ UNCHANGED <<timer, config, read, calls, account, disk, passed, restarts, failures>>

\* setLastSyncedBlockHeight, once the synchronization has passed a height.  It
\* passes, too, what pays only addresses the wallet has not derived yet.
Advance(height) ==
    /\ account = "open"
    /\ height > store.wallets.blockHeight
    /\ \A t \in 1..height :
        Pays[t] \cap DOMAIN store.wallets.addresses # {} =>
            t \in store.transactions \/ t < store.wallets.blockHeight
    /\ store' = [store EXCEPT !.wallets.blockHeight = height]
    /\ passed' = passed \cup
            {t \in 1..height : Pays[t] \cap DOMAIN store.wallets.addresses = {}}
    /\ UNCHANGED <<mapped, dirty, timer, config, read, calls, account, disk,
                   exposed, restarts, failures>>

-----------------------------------------------------------------------------
ConfigureCalls == <<[frame |-> "configure", step |-> 0, value |-> {}]>>

Init ==
    /\ store = EmptyStore /\ mapped = {} /\ dirty = FALSE
    /\ timer = FALSE /\ config = "adapter" /\ read = <<>> /\ calls = ConfigureCalls
    /\ account = "none"
    /\ disk = <<>> /\ exposed = {} /\ passed = {} /\ restarts = 0 /\ failures = 0

\* The process ends, and another one creates the wallet from the same keys.
Restart ==
    /\ restarts < MaxRestarts
    /\ restarts' = restarts + 1
    /\ store' = EmptyStore /\ mapped' = {} /\ dirty' = FALSE
    /\ timer' = FALSE /\ config' = "adapter" /\ read' = <<>> /\ calls' = ConfigureCalls
    /\ account' = "none"
    /\ UNCHANGED <<disk, exposed, passed, failures>>

Next ==
    \/ Tick \/ Disconnect \/ ItemSet \/ AdapterReady \/ ItemRead \/ CallFails
    \/ CreateAccount \/ Restart
    \/ \E t \in Tx : Import(t) \/ Advance(t)

Spec == Init /\ [][Next]_vars

-----------------------------------------------------------------------------
AddressObject ==
    [used : BOOLEAN, transactions : Seq(Tx), utxos : SUBSET Tx, balanceSat : Nat]
IsWallets(value) ==
    \E known \in SUBSET Address :
        value \in [addresses : [known -> AddressObject], blockHeight : {0} \cup Tx]

\* What the modelled parts of a store hold, as read or as saved
Holds(parts) ==
    \A part \in DOMAIN parts :
        \/ part = "transactions" /\ parts[part] \in SUBSET Tx
        \/ part = "wallets" /\ IsWallets(parts[part])

\* The state variables take the values the code gives them, and an address is
\* mapped only while the store has it.
TypeOK ==
    /\ store = [transactions |-> store.transactions, wallets |-> store.wallets]
    /\ Holds(store)
    /\ mapped \subseteq DOMAIN store.wallets.addresses
    /\ dirty \in BOOLEAN /\ timer \in BOOLEAN
    /\ config \in {"adapter", "unusable", "reading", "failed", "done"}
    /\ Holds(read) /\ Holds(disk)
    /\ \A i \in DOMAIN calls :
        /\ calls[i].frame \in {"configure", "interval", "disconnect"}
        /\ calls[i].step \in 0..Len(Order)
    /\ account \in {"none", "open", "closed"}
    /\ exposed \subseteq Tx /\ passed \subseteq Tx

SavedTransactions == IF "transactions" \in DOMAIN disk THEN disk.transactions ELSE {}

\* What a wallets part says has been taken in: the transactions its addresses
\* list, and those its height has passed that pay one of its addresses, unless
\* the wallet knew none of their addresses when it passed them.
Listed(wallets, t) == \E a \in DOMAIN wallets.addresses : Lists(wallets.addresses[a], t)
TakenIn(wallets, t) ==
    \/ Listed(wallets, t)
    \/ /\ t <= wallets.blockHeight /\ t \notin passed
       /\ Pays[t] \cap DOMAIN wallets.addresses # {}

\* The process may end at any moment, between any two items of a save or of
\* several overlapping saves, and the synchronization that follows can resume
\* where the saved wallets say: what they have taken in is saved.  Exempt are
\* the transactions imported while a save was under way (saveState).
DiskResumes ==
    "wallets" \in DOMAIN disk =>
        \A t \in Tx \ exposed : TakenIn(disk.wallets, t) => t \in SavedTransactions

\* What a process has saved, no later one loses, whether it rehydrates before
\* or after its account starts to import (rehydrateState, saveState); unless a
\* save overtakes the rehydration.
SavedIsKept ==
    [][\A t \in SavedTransactions : t \in SavedTransactions' \/ t \in exposed']_vars

\* A credited transaction is saved, or the interval will find something to
\* save (lastModified, lastSave), also after saves that failed or overlapped.
CreditIsSavedOrPending ==
    \A t \in Tx \ exposed :
        Listed(store.wallets, t) => t \in SavedTransactions \/ dirty

\* However an address object came about, by imports, by merges of what two
\* processes knew of it or both, its balance is what its UTXOs are worth, unless
\* one of them was imported before the store was rehydrated.
BalanceMatchesUtxos ==
    \A a \in DOMAIN store.wallets.addresses :
        LET addressObject == store.wallets.addresses[a]
        IN  \/ addressObject.balanceSat = Cardinality(addressObject.utxos)
            \/ addressObject.utxos \cap exposed # {}

\* "Allow to start the storage worker (uses interval), will save the state when
\* needed" (src/docs/storage/startWorker.md:2): a credited transaction is saved,
\* about to be, or waits for the interval.
SavesWhenNeeded ==
    timer =>
        \A t \in Tx :
            Listed(store.wallets, t) => t \in SavedTransactions \/ dirty \/ Saves # {}
=============================================================================
