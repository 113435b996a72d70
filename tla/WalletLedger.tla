---------------------------- MODULE WalletLedger ----------------------------
(***************************************************************************)
(* The ledger of an HD wallet: the address objects of its Storage, as the  *)
(* accounts import the transactions they are sent and broadcast their own. *)
(*                                                                         *)
(* Account.importTransactions is one turn of the event loop, but storing   *)
(* each transaction announces an event whose listeners see the ledger, so  *)
(* each transaction is a step and nothing else happens until the gap limit *)
(* is ensured.  broadcastTransaction waits for the transport's answer in   *)
(* the middle.                                                             *)
(*                                                                         *)
(* The network is external: a set of valid transactions without double     *)
(* spends, delivered in any batch, any number of times.  An outpoint is a  *)
(* transaction output; its owner is the address its script pays.           *)
(***************************************************************************)
EXTENDS GapLimit, CoinSelection

CONSTANTS
    Account,        \* account indexes
    Tx,
    Creator,        \* the transaction of an outpoint
    Spends,         \* the outpoints a transaction spends
    Owner,          \* the address an outpoint pays, or Foreign
    Foreign,
    Amount,         \* satoshis the outputs of a transaction were asked to hold, change aside
    UserAddresses,  \* what users ask getAddress for
    None

Address == {Owner[o] : o \in Outpoint} \ {Foreign}

ASSUME LedgerAssumption ==
    /\ Account \subseteq Nat
    /\ None \notin Account
    /\ UserAddresses \subseteq Account \X Types \X Nat
    /\ Creator \in [Outpoint -> Tx]
    /\ Spends \in [Tx -> SUBSET Outpoint]
    /\ Owner \in [Outpoint -> (Account \X Types \X Nat) \cup {Foreign}]
    /\ Foreign \notin Account \X Types \X Nat
    /\ \A o \in Outpoint : o \notin Spends[Creator[o]]
    /\ Amount \in [Tx -> Nat]

VARIABLES
    open,           \* accounts that have been initialised
    known,          \* addresses in the store (and in mappedAddress)
    book,           \* the address objects of the addresses that matter
    transactions,   \* store.transactions
    importer,       \* the account running importTransactions, or None
    batch,          \* what it has still to import
    rejected,       \* accounts whose last import threw in ensureAddressesToGapLimit
    published,      \* the network
    created,        \* transactions signed by this wallet
    sending,        \* transactions whose broadcast is under way
    acked,          \* transactions whose broadcast was answered with success
    orderly,        \* history: has every transaction come after those it spends from?
    asked           \* history: has a user asked for an address by its index?

store == <<open, known, book, transactions>>
importing == <<importer, batch, rejected>>
spending == <<created, sending, acked>>
history == <<orderly, asked>>
vars == <<store, importing, published, spending, history>>

AddressObject ==
    [used: BOOLEAN, balanceSat: Int, utxos: SUBSET Outpoint, transactions: SUBSET Tx]

FreshAddress == [used |-> FALSE, balanceSat |-> 0, utxos |-> {}, transactions |-> {}]

Used == {a \in Address : book[a].used}
\* Mutated form: whoever is paid
PaysAnyone(tx, a) == {o \in Outpoint : Creator[o] = tx /\ a # Foreign}
Pays(tx, a) == {o \in Outpoint : Creator[o] = tx /\ Owner[o] = a}
Touches(tx, a) ==
    \/ Pays(tx, a) # {}
    \/ \E o \in Spends[tx] : Owner[o] = a

\* Mutated form: imported however often it arrives
ConcernsAgain(tx, a) == a \in known /\ Touches(tx, a)
\* importTransaction skips an address that lists the transaction already.
Concerns(tx, a) == a \in known /\ Touches(tx, a) /\ tx \notin book[a].transactions

Init ==
    /\ open = {}
    /\ known = {}
    /\ book = [a \in Address |-> FreshAddress]
    /\ transactions = {}
    /\ importer = None /\ batch = {} /\ rejected = {}
    /\ published = {}
    /\ created = {} /\ sending = {} /\ acked = {}
    /\ orderly = TRUE /\ asked = FALSE

Idle == importer = None

\* _initializeAccount derives the first addresses of an HD account.
Initialize(account) ==
    /\ Idle
    /\ account \notin open
    /\ open' = open \cup {account}
    /\ known' = Ensured(known, Used, account)
    /\ UNCHANGED <<book, transactions, importing, published, spending, history>>

\* _initializeAccount does it once more when all its plugins are ready.
BecomeReady(account) ==
    /\ Idle
    /\ account \in open
    /\ known' = Ensured(known, Used, account)
    /\ UNCHANGED <<open, book, transactions, importing, published, spending, history>>

\* Account.getAddress, and generateAddress when the store has no such address
GetAddress(account, type, i) ==
    /\ Idle
    /\ account \in open
    /\ known' = known \cup {<<account, type, i>>}
    /\ asked' = TRUE
    /\ UNCHANGED <<open, book, transactions, importing, published, spending, orderly>>

\* The network takes in a valid transaction of this wallet or of anyone else.
Publish(tx) ==
    /\ tx \notin published
    /\ \A o \in Spends[tx] :
           /\ Creator[o] \in published
           /\ \A other \in published : o \notin Spends[other]
    /\ published' = published \cup {tx}
    /\ UNCHANGED <<store, importing, spending, history>>

\* The account's worker imports the transactions of a chunk that touch one of
\* its addresses (filterWalletTransactions).
ImportTransactions(account, txs) ==
    /\ Idle
    /\ account \in open
    /\ txs # {}
    /\ \A tx \in txs : \E a \in known \cap Address : a[1] = account /\ Touches(tx, a)
    /\ importer' = account
    /\ batch' = txs
    /\ UNCHANGED <<store, rejected, published, spending, history>>

\* Mutated form: inputs do not lower the balance.
ImportedUndebited(tx, a) ==
    [used |-> TRUE,
     balanceSat |-> book[a].balanceSat + Worth[Pays(tx, a) \ book[a].utxos],
     utxos |-> (book[a].utxos \ Spends[tx]) \cup Pays(tx, a),
     transactions |-> book[a].transactions \cup {tx}]
Imported(tx, a) ==
    LET old == book[a]
    IN  [used |-> TRUE,
         balanceSat |-> old.balanceSat - Worth[old.utxos \cap Spends[tx]]
                            + Worth[Pays(tx, a) \ old.utxos],
         utxos |-> (old.utxos \ Spends[tx]) \cup Pays(tx, a),
         transactions |-> old.transactions \cup {tx}]

\* An input of an address the store knows comes after the output it spends.
AfterParents(tx) ==
    \A o \in Spends[tx] :
        Owner[o] \in known => Creator[o] \in book[Owner[o]].transactions

\* Storage.importTransaction
ImportTransaction(tx) ==
    /\ tx \in batch
    /\ orderly' = (orderly /\ AfterParents(tx))
    /\ transactions' = transactions \cup {tx}
    /\ book' = [a \in Address |-> IF Concerns(tx, a) THEN Imported(tx, a) ELSE book[a]]
    /\ batch' = batch \ {tx}
    /\ UNCHANGED <<open, known, importer, rejected, published, spending, asked>>

\* The end of Account.importTransactions
EnsureGapLimit ==
    /\ importer # None
    /\ batch = {}
    /\ known' = Ensured(known, Used, importer)
    /\ rejected' = IF PathsContiguous(known, importer)
                   THEN rejected \ {importer} ELSE rejected \cup {importer}
    /\ importer' = None
    /\ UNCHANGED <<open, book, transactions, batch, published, spending, history>>

Spendable(account) == UNION {book[a].utxos : a \in {b \in Address : b[1] = account}}

\* createTransaction selects among getUTXOS, or the UTXOS it is given, and
\* reserves nothing.
CreateTransaction(account, tx) ==
    /\ Idle
    /\ account \in open
    /\ tx \notin created
    /\ \E utxos \in SUBSET Spendable(account) :
           /\ Selectable(utxos, Amount[tx])
           /\ Spends[tx] = Accumulated(utxos, Amount[tx])
    /\ created' = created \cup {tx}
    /\ UNCHANGED <<store, importing, published, sending, acked, history>>

\* broadcastTransaction up to the call of the transport
SendTransaction(tx) ==
    /\ Idle
    /\ tx \in created \ sending
    /\ sending' = sending \cup {tx}
    /\ UNCHANGED <<store, importing, published, created, acked, history>>

\* impactAffectedInputs: the inputs leave the UTXO set of the addresses that
\* list the transaction they come from.
Impacted(tx, a) ==
    {o \in Spends[tx] : Creator[o] \in book[a].transactions /\ o \in book[a].utxos}

SendAnswered(tx) ==
    /\ Idle
    /\ tx \in sending \cap published
    /\ sending' = sending \ {tx}
    /\ acked' = acked \cup {tx}
    /\ book' = [a \in Address |->
           [book[a] EXCEPT !.utxos = @ \ Impacted(tx, a),
                           !.balanceSat = @ - Worth[Impacted(tx, a)]]]
    /\ UNCHANGED <<open, known, transactions, importing, published, created, history>>

\* The transport's promise rejects: a double spend, or an answer that is lost.
SendFailed(tx) ==
    /\ Idle
    /\ tx \in sending
    /\ sending' = sending \ {tx}
    /\ UNCHANGED <<store, importing, published, created, acked, history>>

Next ==
    \/ \E account \in Account :
          \/ Initialize(account)
          \/ BecomeReady(account)
          \/ \E txs \in SUBSET published : ImportTransactions(account, txs)
          \/ \E tx \in Tx : CreateTransaction(account, tx)
    \/ \E tx \in Tx :
          \/ Publish(tx)
          \/ ImportTransaction(tx)
          \/ SendTransaction(tx)
          \/ SendAnswered(tx)
          \/ SendFailed(tx)
    \/ EnsureGapLimit
    \/ \E a \in UserAddresses : GetAddress(a[1], a[2], a[3])

Spec == Init /\ [][Next]_vars

-----------------------------------------------------------------------------
TypeOK ==
    /\ open \in SUBSET Account
    /\ known \in SUBSET (Account \X Types \X Nat)
    /\ book \in [Address -> AddressObject]
    /\ transactions \in SUBSET Tx
    /\ importer \in Account \cup {None}
    /\ batch \in SUBSET Tx
    /\ rejected \in SUBSET Account
    /\ published \in SUBSET Tx
    /\ created \in SUBSET Tx
    /\ sending \in SUBSET Tx
    /\ acked \in SUBSET Tx
    /\ orderly \in BOOLEAN
    /\ asked \in BOOLEAN

\* The balance of an address is the worth of its UTXOs, although imports and
\* answered broadcasts adjust both separately and in any order.
BalanceMatchesUtxos ==
    \A a \in Address : book[a].balanceSat = Worth[book[a].utxos]

\* Every UTXO of an address is an output of a stored transaction that pays
\* that address and that the address lists; only addresses in the store have any.
UtxosAreListedOutputs ==
    \A a \in Address : \A o \in book[a].utxos :
        /\ Owner[o] = a
        /\ a \in known
        /\ Creator[o] \in book[a].transactions \cap transactions

\* An address is marked used exactly when a transaction lists it, so the gap
\* limit counts what the history shows.
UsedIffListed ==
    \A a \in Address : book[a].used <=> book[a].transactions # {}

\* As long as parents come before children, the UTXO set of an address is
\* exact: the outputs of the transactions it lists, without those spent by a
\* listed transaction or by a broadcast that was answered.  An input of a
\* broadcast that also comes back through the stream is taken off once.
LedgerExact ==
    orderly => \A a \in Address :
        book[a].utxos =
            {o \in Outpoint :
                /\ Owner[o] = a
                /\ Creator[o] \in book[a].transactions
                /\ \A tx \in book[a].transactions \cup acked : o \notin Spends[tx]}

\* An output is credited once: when the address lists its transaction and the
\* output has left the UTXO set, importing it again (the stream restarts, the
\* metadata arrives) never brings it back, whatever the order of delivery.
NoSecondCredit ==
    [][\A a \in Address, o \in Outpoint :
           Creator[o] \in book[a].transactions /\ o \notin book[a].utxos
               => o \notin book'[a].utxos]_vars

\* An import that does not throw leaves the account's gap filled, with holes
\* that users of getAddress made and with the other accounts' addresses in
\* the same store.
ImportLooksAhead ==
    [][importer # None /\ importer' = None /\ importer \notin rejected'
           => LooksAhead(known', Used', importer)]_vars

\* Whatever an account's UTXO set has become, the coins selected from it cover
\* any amount a transaction was asked for, with no input after those that do, and
\* with the fee once it is deducted.
SelectionFits ==
    \A account \in open :
        LET utxos == Spendable(account)
        IN  \A amount \in {Amount[tx] : tx \in Tx} \ {0} :
                Selectable(utxos, amount) => Fits(Accumulated(utxos, amount), amount)

\* Only a user who asked for an address beyond the next one makes an import
\* throw: the addresses derived for the gap limit of one account never leave
\* holes in another's.
OnlyUsersMakeHoles == ~ asked => rejected = {}
=============================================================================
