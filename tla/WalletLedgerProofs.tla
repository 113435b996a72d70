-------------------------- MODULE WalletLedgerProofs --------------------------
(***************************************************************************)
(* WalletLedger and TransactionHistory for any accounts, transactions, gap *)
(* limit and satoshis.                                                     *)
(***************************************************************************)
EXTENDS TransactionHistory, GapLimitProofs, FiniteSetTheorems, TLAPS

\* An address that lists a transaction lists those whose outputs of its own
\* the transaction spends.
ParentsListed ==
    orderly => \A a \in Address : \A tx \in book[a].transactions : \A o \in Spends[tx] :
        Owner[o] = a => Creator[o] \in book[a].transactions

\* A transaction signed by the wallet spends outputs of listed transactions.
CreatedSpendsListed ==
    /\ sending \cup acked \subseteq created
    /\ \A tx \in created : \A o \in Spends[tx] :
          /\ Owner[o] \in Address
          /\ Creator[o] \in book[Owner[o]].transactions

IInv ==
    /\ TypeOK
    /\ BalanceMatchesUtxos
    /\ UtxosAreListedOutputs
    /\ UsedIffListed
    /\ ParentsListed
    /\ CreatedSpendsListed
    /\ LedgerExact

-----------------------------------------------------------------------------
\* Nothing is worth nothing.
LEMMA WorthOfNothing == Worth[{}] = 0
<1>1. Worth[{} \cup {}] = Worth[{}] + Worth[{}] /\ Worth[{}] \in Nat
    BY WorthAssumption
<1>2. {} \cup {} = {}
    OBVIOUS
<1>3. \A w \in Nat : w = w + w => w = 0
    OBVIOUS
<1> QED
    BY <1>1, <1>2, <1>3, Zenon

\* Taking outpoints off a set takes off what they are worth.
LEMMA WorthOfDifference ==
    ASSUME NEW S \in SUBSET Outpoint, NEW T
    PROVE  Worth[S \ T] = Worth[S] - Worth[S \cap T]
<1>1. /\ S \ T \in SUBSET Outpoint /\ S \cap T \in SUBSET Outpoint
      /\ (S \ T) \cap (S \cap T) = {} /\ (S \ T) \cup (S \cap T) = S
    OBVIOUS
<1>2. /\ Worth[(S \ T) \cup (S \cap T)] = Worth[S \ T] + Worth[S \cap T]
      /\ Worth[S \ T] \in Nat /\ Worth[S \cap T] \in Nat
    BY <1>1, WorthAssumption
<1>3. Worth[S] = Worth[S \ T] + Worth[S \cap T]
    BY <1>1, <1>2
<1> QED
    BY <1>2, <1>3

\* Ensuring the gap limit only adds addresses of the wallet.
LEMMA EnsuredAddresses ==
    ASSUME NEW K \in SUBSET (Account \X Types \X Nat), NEW U \in SUBSET (Account \X Types \X Nat),
           NEW account \in Account
    PROVE  /\ Ensured(K, U, account) \in SUBSET (Account \X Types \X Nat)
           /\ K \subseteq Ensured(K, U, account)
<1>1. \A type \in Types : MissingIndexes(IndexesOf(K, type)) \subseteq Nat
    BY DEF MissingIndexes, IndexesOf, UpTo
<1>2. \A type \in Types : IndexesToGenerate(K, U, account, type) \subseteq Nat
    BY GapAssumption DEF IndexesToGenerate, IndexesNeeded, OwnIndexes, UpTo
<1>3. Filled(K, account) \in SUBSET (Account \X Types \X Nat)
    BY <1>1 DEF Filled
<1>4. UNION {{<<account, type, i>> : i \in IndexesToGenerate(K, U, account, type)} :
                 type \in Types} \subseteq Account \X Types \X Nat
    BY <1>2
<1> QED
    BY <1>3, <1>4 DEF Ensured, Filled

\* The addresses of the bound are paths of accounts, and so are the used ones.
LEMMA AddressesInPaths == Address \subseteq Account \X Types \X Nat /\ Used \subseteq Address
    BY LedgerAssumption DEF Address, Used

\* The addresses of the store are paths in the sense of GapLimit.
LEMMA KnownPaths ==
    ASSUME IInv
    PROVE  known \in SUBSET Path /\ Used \in SUBSET Path
<1>1. Account \X Types \X Nat \subseteq Path
    <2>1. Account \subseteq Int
        BY LedgerAssumption
    <2> QED
        BY <2>1 DEF Path
<1>2. known \subseteq Account \X Types \X Nat /\ Used \subseteq Account \X Types \X Nat
    BY AddressesInPaths DEF IInv, TypeOK
<1> QED
    BY <1>1, <1>2, Zenon

\* An output that pays an address and that the address has not listed yet
\* is in none of the sets an import takes it off from.
LEMMA NewOutputs ==
    ASSUME IInv, NEW tx \in Tx, NEW a \in Address, Concerns(tx, a)
    PROVE  /\ Pays(tx, a) \in SUBSET Outpoint
           /\ book[a].utxos \in SUBSET Outpoint
           /\ Pays(tx, a) \cap book[a].utxos = {}
           /\ Pays(tx, a) \cap Spends[tx] = {}
           /\ Pays(tx, a) \ book[a].utxos = Pays(tx, a)
<1>1. book[a] \in AddressObject
    BY DEF IInv, TypeOK
<1>2. Pays(tx, a) \in SUBSET Outpoint /\ book[a].utxos \in SUBSET Outpoint
    BY <1>1 DEF Pays, AddressObject
<1>3. \A o \in book[a].utxos : Creator[o] \in book[a].transactions
    BY DEF IInv, UtxosAreListedOutputs
<1>4. tx \notin book[a].transactions
    BY DEF Concerns
<1>5. Pays(tx, a) \cap book[a].utxos = {}
    BY <1>3, <1>4 DEF Pays
<1>6. Pays(tx, a) \cap Spends[tx] = {}
    BY LedgerAssumption DEF Pays
<1> QED
    BY <1>2, <1>5, <1>6

\* What an import leaves in the address object.
LEMMA ImportedObject ==
    ASSUME IInv, NEW tx \in Tx, NEW a \in Address, Concerns(tx, a)
    PROVE  /\ Imported(tx, a) \in AddressObject
           /\ Imported(tx, a).used
           /\ Imported(tx, a).transactions = book[a].transactions \cup {tx}
           /\ Imported(tx, a).utxos = (book[a].utxos \ Spends[tx]) \cup Pays(tx, a)
           /\ Imported(tx, a).balanceSat = Worth[Imported(tx, a).utxos]
<1> DEFINE old == book[a].utxos
           kept == old \ Spends[tx]
           new == Pays(tx, a)
<1>1. book[a] \in AddressObject
    BY DEF IInv, TypeOK
<1>2. /\ old \in SUBSET Outpoint /\ new \in SUBSET Outpoint /\ kept \in SUBSET Outpoint
      /\ old \cap Spends[tx] \in SUBSET Outpoint
      /\ new \cap kept = {} /\ new \ old = new
    BY NewOutputs
<1>3. /\ Worth[old] \in Nat /\ Worth[new] \in Nat /\ Worth[kept] \in Nat
      /\ Worth[old \cap Spends[tx]] \in Nat
    BY <1>2, WorthAssumption
<1>4. Worth[kept] = Worth[old] - Worth[old \cap Spends[tx]]
    BY <1>2, WorthOfDifference
<1>5. Worth[kept \cup new] = Worth[kept] + Worth[new]
    BY <1>2, WorthAssumption
<1>6. book[a].balanceSat = Worth[old]
    BY DEF IInv, BalanceMatchesUtxos
<1>7. book[a].transactions \in SUBSET Tx
    BY <1>1 DEF AddressObject
<1>8. Imported(tx, a) =
        [used |-> TRUE,
         balanceSat |-> Worth[old] - Worth[old \cap Spends[tx]] + Worth[new],
         utxos |-> kept \cup new,
         transactions |-> book[a].transactions \cup {tx}]
    BY <1>2, <1>6 DEF Imported
<1> DEFINE sum == Worth[old] - Worth[old \cap Spends[tx]] + Worth[new]
<1>9. sum \in Int /\ sum = Worth[kept \cup new]
    BY <1>3, <1>4, <1>5
<1>10. kept \cup new \in SUBSET Outpoint
    BY <1>2
<1> HIDE DEF sum, old, kept, new
<1>11. Imported(tx, a) =
        [used |-> TRUE, balanceSat |-> sum, utxos |-> kept \cup new,
         transactions |-> book[a].transactions \cup {tx}]
    BY <1>8 DEF sum
<1> QED
    BY <1>7, <1>9, <1>10, <1>11 DEF AddressObject, old, kept, new

-----------------------------------------------------------------------------
\* The strengthened invariant holds of the empty store.
LEMMA InitIInv == Init => IInv
<1> SUFFICES ASSUME Init PROVE IInv
    OBVIOUS
<1>1. FreshAddress \in AddressObject
    BY DEF FreshAddress, AddressObject
<1>2. TypeOK
    BY <1>1 DEF Init, TypeOK
<1>3. BalanceMatchesUtxos
    BY WorthOfNothing DEF Init, BalanceMatchesUtxos, FreshAddress
<1>4. UtxosAreListedOutputs /\ UsedIffListed /\ ParentsListed /\ LedgerExact
    BY DEF Init, UtxosAreListedOutputs, UsedIffListed, ParentsListed, LedgerExact,
           FreshAddress
<1>5. CreatedSpendsListed
    BY DEF Init, CreatedSpendsListed
<1> QED
    BY <1>2, <1>3, <1>4, <1>5 DEF IInv

\* A step that leaves the address objects and the wallet's own transactions
\* alone, and forgets no address, keeps the invariant.
LEMMA SameBook ==
    ASSUME IInv, TypeOK', known \subseteq known',
           UNCHANGED <<book, transactions, created, sending, acked, orderly>>
    PROVE  IInv'
<1> USE DEF IInv
<1>1. BalanceMatchesUtxos' /\ UsedIffListed' /\ ParentsListed'
    BY DEF BalanceMatchesUtxos, UsedIffListed, ParentsListed
<1>2. UtxosAreListedOutputs'
    BY DEF UtxosAreListedOutputs
<1>3. CreatedSpendsListed'
    BY DEF CreatedSpendsListed
<1>4. LedgerExact'
    BY DEF LedgerExact
<1> QED
    BY <1>1, <1>2, <1>3, <1>4

\* Ensuring the gap limit keeps the address objects well formed.
LEMMA EnsureKeepsType ==
    ASSUME TypeOK, NEW account \in Account
    PROVE  /\ Ensured(known, Used, account) \in SUBSET (Account \X Types \X Nat)
           /\ known \subseteq Ensured(known, Used, account)
<1>1. known \in SUBSET (Account \X Types \X Nat)
    BY DEF TypeOK
<1>2. Used \in SUBSET (Account \X Types \X Nat)
    BY AddressesInPaths
<1> QED
    BY <1>1, <1>2, EnsuredAddresses

\* The steps that only derive or give out addresses keep the invariant.
LEMMA AddressStepsIInv ==
    ASSUME IInv, NEW account \in Account,
           \/ Initialize(account)
           \/ BecomeReady(account)
           \/ \E type \in Types, i \in Nat : GetAddress(account, type, i)
    PROVE  IInv'
<1>1. TypeOK
    BY DEF IInv
<1>2. CASE Initialize(account) \/ BecomeReady(account)
    <2>1. known' = Ensured(known, Used, account)
        BY <1>2 DEF Initialize, BecomeReady
    <2>2. TypeOK'
        BY <1>1, <1>2, <2>1, EnsureKeepsType
        DEF TypeOK, Initialize, BecomeReady, importing, spending, history
    <2> QED
        BY <1>1, <1>2, <2>1, <2>2, EnsureKeepsType, SameBook
        DEF Initialize, BecomeReady, spending, history
<1>3. CASE \E type \in Types, i \in Nat : GetAddress(account, type, i)
    <2>1. PICK type \in Types, i \in Nat : GetAddress(account, type, i)
        BY <1>3
    <2>2. TypeOK'
        BY <1>1, <2>1 DEF TypeOK, GetAddress, importing, spending, history
    <2> QED
        BY <2>1, <2>2, SameBook DEF GetAddress, spending, history
<1> QED
    BY <1>2, <1>3

\* ensureAddressesToGapLimit keeps the invariant.
LEMMA EnsureGapLimitIInv == IInv /\ EnsureGapLimit => IInv'
<1> SUFFICES ASSUME IInv, EnsureGapLimit PROVE IInv'
    OBVIOUS
<1>1. importer \in Account /\ TypeOK
    BY DEF IInv, TypeOK, EnsureGapLimit
<1>2. TypeOK'
    BY <1>1, EnsureKeepsType DEF TypeOK, EnsureGapLimit, spending, history
<1> QED
    BY <1>1, <1>2, EnsureKeepsType, SameBook DEF EnsureGapLimit, spending, history

\* Transactions that enter the network, a batch, or leave the wallet.
LEMMA OtherStepsIInv ==
    ASSUME IInv, NEW tx \in Tx,
           \/ Publish(tx)
           \/ \E account \in Account, txs \in SUBSET published : ImportTransactions(account, txs)
           \/ SendTransaction(tx)
           \/ SendFailed(tx)
    PROVE  IInv'
<1>1. TypeOK'
    BY DEF IInv, TypeOK, Publish, ImportTransactions, SendTransaction, SendFailed,
           store, importing, spending, history
<1>2. book' = book /\ transactions' = transactions /\ known' = known
      /\ created' = created /\ acked' = acked /\ orderly' = orderly
    BY DEF Publish, ImportTransactions, SendTransaction, SendFailed, store, spending, history
<1>3. CASE sending' = sending
    BY <1>1, <1>2, <1>3, SameBook
<1>4. CASE sending' # sending
    <2>1. sending' \subseteq created
        BY <1>4 DEF IInv, CreatedSpendsListed, Publish, ImportTransactions,
            SendTransaction, SendFailed, spending, history
    <2> QED
        BY <1>1, <1>2, <2>1 DEF IInv, BalanceMatchesUtxos, UsedIffListed, ParentsListed,
            UtxosAreListedOutputs, CreatedSpendsListed, LedgerExact
<1> QED
    BY <1>3, <1>4

\* A new transaction of the wallet spends listed outputs.
LEMMA CreateTransactionIInv ==
    ASSUME IInv, NEW account \in Account, NEW tx \in Tx, CreateTransaction(account, tx)
    PROVE  IInv'
<1>1. TypeOK'
    BY DEF IInv, TypeOK, CreateTransaction, store, importing, history
<1>2. CreatedSpendsListed'
    <2>1. sending' \cup acked' \subseteq created'
        BY DEF IInv, CreatedSpendsListed, CreateTransaction
    <2>2. \A o \in Spends[tx] : Owner[o] \in Address /\ Creator[o] \in book[Owner[o]].transactions
        <3> SUFFICES ASSUME NEW o \in Spends[tx]
                     PROVE  Owner[o] \in Address /\ Creator[o] \in book[Owner[o]].transactions
            OBVIOUS
        <3>1. o \in Spendable(account)
            BY DEF CreateTransaction, Accumulated
        <3>2. PICK a \in Address : o \in book[a].utxos
            BY <3>1 DEF Spendable
        <3>3. Owner[o] = a /\ Creator[o] \in book[a].transactions
            BY <3>2 DEF IInv, UtxosAreListedOutputs
        <3> QED
            BY <3>2, <3>3
    <2>3. created' = created \cup {tx} /\ book' = book
        BY DEF CreateTransaction, store
    <2> QED
        BY <2>1, <2>2, <2>3 DEF IInv, CreatedSpendsListed
<1> QED
    BY <1>1, <1>2 DEF IInv, BalanceMatchesUtxos, UsedIffListed, ParentsListed,
        UtxosAreListedOutputs, LedgerExact, CreateTransaction, store, history

\* What an import leaves of the ledger of each address.
LEMMA ImportSteps ==
    ASSUME IInv, NEW tx \in Tx, ImportTransaction(tx), NEW a \in Address
    PROVE  /\ book'[a] \in AddressObject
           /\ Concerns(tx, a) => book'[a] = Imported(tx, a)
           /\ ~ Concerns(tx, a) => book'[a] = book[a]
           /\ book[a].transactions \subseteq book'[a].transactions
<1>1. book'[a] = IF Concerns(tx, a) THEN Imported(tx, a) ELSE book[a]
    BY DEF ImportTransaction
<1>2. book[a] \in AddressObject
    BY DEF IInv, TypeOK
<1> QED
    BY <1>1, <1>2, ImportedObject

\* importTransaction keeps the invariant: what it credits and debits are the
\* outputs of a transaction listed only now.
LEMMA ImportTransactionIInv ==
    ASSUME IInv, NEW tx \in Tx, ImportTransaction(tx)
    PROVE  IInv'
<1>1. transactions' = transactions \cup {tx} /\ known' = known
      /\ created' = created /\ sending' = sending /\ acked' = acked
      /\ orderly' = (orderly /\ AfterParents(tx))
    BY DEF ImportTransaction, spending
<1>2. TypeOK'
    <2>1. book' \in [Address -> AddressObject]
        BY ImportSteps DEF ImportTransaction
    <2> QED
        BY <2>1 DEF IInv, TypeOK, ImportTransaction, spending, history
<1>3. BalanceMatchesUtxos'
    <2> SUFFICES ASSUME NEW a \in Address PROVE book'[a].balanceSat = Worth[book'[a].utxos]
        BY DEF BalanceMatchesUtxos
    <2> QED
        BY ImportSteps, ImportedObject DEF IInv, BalanceMatchesUtxos
<1>4. UtxosAreListedOutputs'
    <2> SUFFICES ASSUME NEW a \in Address, NEW o \in book'[a].utxos
                 PROVE  /\ Owner[o] = a /\ a \in known
                        /\ Creator[o] \in book'[a].transactions
                        /\ Creator[o] \in transactions \cup {tx}
        BY <1>1 DEF UtxosAreListedOutputs
    <2>1. CASE o \in book[a].utxos
        BY <2>1, ImportSteps DEF IInv, UtxosAreListedOutputs
    <2>2. CASE o \notin book[a].utxos
        <3>1. Concerns(tx, a) /\ book'[a] = Imported(tx, a)
            BY <2>2, ImportSteps
        <3>2. o \in Pays(tx, a) /\ book'[a].transactions = book[a].transactions \cup {tx}
            BY <2>2, <3>1, ImportedObject
        <3> QED
            BY <3>1, <3>2 DEF Pays, Concerns
    <2> QED
        BY <2>1, <2>2
<1>5. UsedIffListed'
    <2> SUFFICES ASSUME NEW a \in Address
                 PROVE  book'[a].used <=> book'[a].transactions # {}
        BY DEF UsedIffListed
    <2>1. CASE Concerns(tx, a)
        <3>1. book'[a].used /\ tx \in book'[a].transactions
            BY <2>1, ImportSteps, ImportedObject
        <3> QED
            BY <3>1
    <2>2. CASE ~ Concerns(tx, a)
        BY <2>2, ImportSteps DEF IInv, UsedIffListed
    <2> QED
        BY <2>1, <2>2
<1>6. ParentsListed'
    <2> SUFFICES ASSUME orderly', NEW a \in Address, NEW t \in book'[a].transactions,
                        NEW o \in Spends[t], Owner[o] = a
                 PROVE  Creator[o] \in book'[a].transactions
        BY DEF ParentsListed
    <2>1. CASE t \in book[a].transactions
        BY <1>1, <2>1, ImportSteps DEF IInv, ParentsListed
    <2>2. CASE t \notin book[a].transactions
        <3>1. Concerns(tx, a) /\ t = tx
            BY <2>2, ImportSteps, ImportedObject
        <3>2. Creator[o] \in book[a].transactions
            BY <1>1, <3>1 DEF Concerns, AfterParents
        <3> QED
            BY <3>2, ImportSteps
    <2> QED
        BY <2>1, <2>2
<1>7. CreatedSpendsListed'
    <2>1. \A t \in created : \A o \in Spends[t] :
              Owner[o] \in Address /\ Creator[o] \in book[Owner[o]].transactions
        BY DEF IInv, CreatedSpendsListed
    <2>2. \A a \in Address : book[a].transactions \subseteq book'[a].transactions
        BY ImportSteps
    <2> QED
        BY <1>1, <2>1, <2>2 DEF IInv, CreatedSpendsListed
<1>8. LedgerExact'
    <2> SUFFICES ASSUME orderly', NEW a \in Address, NEW o
                 PROVE  o \in book'[a].utxos <=>
                          /\ o \in Outpoint
                          /\ Owner[o] = a
                          /\ Creator[o] \in book'[a].transactions
                          /\ \A t \in book'[a].transactions \cup acked : o \notin Spends[t]
        BY <1>1 DEF LedgerExact
    <2>1. o \in book[a].utxos <=>
              /\ o \in Outpoint
              /\ Owner[o] = a
              /\ Creator[o] \in book[a].transactions
              /\ \A t \in book[a].transactions \cup acked : o \notin Spends[t]
        BY <1>1 DEF IInv, LedgerExact
    <2>2. CASE ~ Concerns(tx, a)
        BY <2>1, <2>2, ImportSteps
    <2>3. CASE Concerns(tx, a)
        <3>1. /\ book'[a].transactions = book[a].transactions \cup {tx}
              /\ book'[a].utxos = (book[a].utxos \ Spends[tx]) \cup Pays(tx, a)
              /\ tx \notin book[a].transactions
            BY <2>3, ImportSteps, ImportedObject DEF Concerns
        <3>2. CASE Creator[o] = tx /\ Owner[o] = a /\ o \in Outpoint
            <4>1. o \in Pays(tx, a) /\ o \notin Spends[tx]
                BY <3>2, LedgerAssumption DEF Pays
            <4>2. \A t \in book[a].transactions : o \notin Spends[t]
                BY <1>1, <3>1, <3>2 DEF IInv, ParentsListed
            <4>3. \A t \in acked : o \notin Spends[t]
                BY <3>1, <3>2 DEF IInv, CreatedSpendsListed
            <4> QED
                BY <3>1, <3>2, <4>1, <4>2, <4>3
        <3>3. CASE ~ (Creator[o] = tx /\ Owner[o] = a /\ o \in Outpoint)
            <4>1. o \notin Pays(tx, a)
                BY <3>3 DEF Pays
            <4> QED
                BY <2>1, <3>1, <3>3, <4>1
        <3> QED
            BY <3>2, <3>3
    <2> QED
        BY <2>2, <2>3
<1> QED
    BY <1>2, <1>3, <1>4, <1>5, <1>6, <1>7, <1>8 DEF IInv

\* What an answered broadcast leaves of the ledger of each address.
LEMMA AnswerSteps ==
    ASSUME IInv, NEW tx \in Tx, SendAnswered(tx), NEW a \in Address
    PROVE  /\ book'[a] \in AddressObject
           /\ book'[a].used = book[a].used
           /\ book'[a].transactions = book[a].transactions
           /\ book'[a].utxos = book[a].utxos \ Spends[tx]
           /\ book'[a].balanceSat = Worth[book'[a].utxos]
<1> DEFINE old == book[a].utxos
           off == Impacted(tx, a)
           sum == book[a].balanceSat - Worth[off]
<1>1. book[a] \in AddressObject
    BY DEF IInv, TypeOK
<1>2. off = old \cap Spends[tx]
    BY DEF IInv, UtxosAreListedOutputs, Impacted
<1>3. old \in SUBSET Outpoint /\ off \in SUBSET Outpoint /\ old \ off = old \ Spends[tx]
    BY <1>1, <1>2 DEF AddressObject
<1>4. Worth[old \ Spends[tx]] = Worth[old] - Worth[old \cap Spends[tx]]
    BY <1>3, WorthOfDifference
<1>5. book[a].balanceSat = Worth[old] /\ Worth[old] \in Nat /\ Worth[off] \in Nat
    BY <1>3, WorthAssumption DEF IInv, BalanceMatchesUtxos
<1>6. sum \in Int /\ sum = Worth[old \ Spends[tx]]
    BY <1>2, <1>4, <1>5
<1>7. book'[a] = [book[a] EXCEPT !.utxos = old \ off, !.balanceSat = sum]
    BY DEF SendAnswered
<1> HIDE DEF old, off, sum
<1>8. book'[a] = [book[a] EXCEPT !.utxos = old \ Spends[tx], !.balanceSat = sum]
    BY <1>3, <1>7
<1>9. /\ book'[a].utxos = old \ Spends[tx] /\ book'[a].balanceSat = sum
      /\ book'[a].used = book[a].used /\ book'[a].transactions = book[a].transactions
      /\ book'[a] \in AddressObject
    BY <1>1, <1>3, <1>6, <1>8 DEF AddressObject
<1> QED
    BY <1>6, <1>9 DEF old

\* What broadcastTransaction does to the inputs of a transaction that is sent
\* keeps the invariant.
LEMMA SendAnsweredIInv ==
    ASSUME IInv, NEW tx \in Tx, SendAnswered(tx)
    PROVE  IInv'
<1>1. transactions' = transactions /\ known' = known /\ created' = created
      /\ sending' = sending \ {tx} /\ acked' = acked \cup {tx} /\ tx \in sending
      /\ orderly' = orderly
    BY DEF SendAnswered, history
<1>2. TypeOK'
    <2>1. book' \in [Address -> AddressObject]
        BY AnswerSteps DEF SendAnswered
    <2> QED
        BY <1>1, <2>1 DEF IInv, TypeOK, SendAnswered, importing, history
<1>3. BalanceMatchesUtxos'
    BY AnswerSteps DEF BalanceMatchesUtxos
<1>4. UtxosAreListedOutputs'
    BY <1>1, AnswerSteps DEF IInv, UtxosAreListedOutputs
<1>5. UsedIffListed'
    BY AnswerSteps DEF IInv, UsedIffListed
<1>6. ParentsListed'
    BY <1>1, AnswerSteps DEF IInv, ParentsListed
<1>7. CreatedSpendsListed'
    BY <1>1, AnswerSteps DEF IInv, CreatedSpendsListed
<1>8. LedgerExact'
    <2> SUFFICES ASSUME orderly', NEW a \in Address, NEW o
                 PROVE  o \in book'[a].utxos <=>
                          /\ o \in Outpoint
                          /\ Owner[o] = a
                          /\ Creator[o] \in book'[a].transactions
                          /\ \A t \in book'[a].transactions \cup acked' : o \notin Spends[t]
        BY DEF LedgerExact
    <2>1. o \in book[a].utxos <=>
              /\ o \in Outpoint
              /\ Owner[o] = a
              /\ Creator[o] \in book[a].transactions
              /\ \A t \in book[a].transactions \cup acked : o \notin Spends[t]
        BY <1>1 DEF IInv, LedgerExact
    <2> QED
        BY <1>1, <2>1, AnswerSteps
<1> QED
    BY <1>2, <1>3, <1>4, <1>5, <1>6, <1>7, <1>8 DEF IInv

\* A step that changes nothing keeps the invariant.
LEMMA StutterIInv == IInv /\ UNCHANGED vars => IInv'
<1> SUFFICES ASSUME IInv, UNCHANGED vars PROVE IInv'
    OBVIOUS
<1>1. TypeOK'
    BY DEF IInv, TypeOK, vars, store, importing, spending, history
<1> QED
    BY <1>1, SameBook DEF vars, store, spending, history

\* Every step of the ledger keeps the strengthened invariant.
LEMMA IInvInductive == IInv /\ [Next]_vars => IInv'
<1> SUFFICES ASSUME IInv, Next PROVE IInv'
    BY StutterIInv
<1>1. CASE \E account \in Account :
              \/ Initialize(account)
              \/ BecomeReady(account)
              \/ \E type \in Types, i \in Nat : GetAddress(account, type, i)
    BY <1>1, AddressStepsIInv
<1>2. CASE \E account \in Account, tx \in Tx : CreateTransaction(account, tx)
    BY <1>2, CreateTransactionIInv
<1>3. CASE \E account \in Account, txs \in SUBSET published : ImportTransactions(account, txs)
    <2>1. PICK txs \in SUBSET published : txs # {} /\ importer' \in Account
                  /\ \E account \in Account : ImportTransactions(account, txs)
        BY <1>3 DEF ImportTransactions
    <2>2. PICK tx : tx \in Tx
        BY <2>1 DEF IInv, TypeOK
    <2> QED
        BY <2>1, <2>2, OtherStepsIInv
<1>4. CASE \E tx \in Tx : Publish(tx) \/ SendTransaction(tx) \/ SendFailed(tx)
    BY <1>4, OtherStepsIInv
<1>5. CASE \E tx \in Tx : ImportTransaction(tx)
    BY <1>5, ImportTransactionIInv
<1>6. CASE \E tx \in Tx : SendAnswered(tx)
    BY <1>6, SendAnsweredIInv
<1>7. CASE EnsureGapLimit
    BY <1>7, EnsureGapLimitIInv
<1>8. CASE \E a \in UserAddresses : GetAddress(a[1], a[2], a[3])
    <2>1. PICK a \in UserAddresses : GetAddress(a[1], a[2], a[3])
        BY <1>8
    <2>2. a[1] \in Account /\ a[2] \in Types /\ a[3] \in Nat
        BY LedgerAssumption
    <2> QED
        BY <2>1, <2>2, AddressStepsIInv
<1> QED
    BY <1>1, <1>2, <1>3, <1>4, <1>5, <1>6, <1>7, <1>8 DEF Next

\* The strengthened invariant holds in every state of every behaviour.
LEMMA AlwaysIInv == Spec => []IInv
<1> QED
    BY InitIInv, IInvInductive, PTL DEF Spec

-----------------------------------------------------------------------------
\* The store and the wallet's own transactions keep their type.
THEOREM LedgerTypeCorrect == Spec => []TypeOK
<1>1. IInv => TypeOK
    BY DEF IInv
<1> QED
    BY <1>1, AlwaysIInv, PTL

\* importTransaction and impactAffectedInputs adjust balanceSat and utxos one
\* output at a time; the balance is the worth of the UTXOs after each of them,
\* in any order and any number of times.
THEOREM LedgerBalanceMatchesUtxos == Spec => []BalanceMatchesUtxos
<1>1. IInv => BalanceMatchesUtxos
    BY DEF IInv
<1> QED
    BY <1>1, AlwaysIInv, PTL

\* No UTXO without its transaction, at the address it pays.
THEOREM LedgerUtxosAreListed == Spec => []UtxosAreListedOutputs
<1>1. IInv => UtxosAreListedOutputs
    BY DEF IInv
<1> QED
    BY <1>1, AlwaysIInv, PTL

\* An address counts as used exactly when its history shows a transaction.
THEOREM LedgerUsedIffListed == Spec => []UsedIffListed
<1>1. IInv => UsedIffListed
    BY DEF IInv
<1> QED
    BY <1>1, AlwaysIInv, PTL

\* When parents are delivered before children, the UTXO set of every address
\* is exactly what its history and the answered broadcasts leave unspent.
THEOREM LedgerIsExact == Spec => []LedgerExact
<1>1. IInv => LedgerExact
    BY DEF IInv
<1> QED
    BY <1>1, AlwaysIInv, PTL

\* A spent output never comes back, however often its transaction does.
THEOREM LedgerNoSecondCredit == Spec => NoSecondCredit
<1>1. ASSUME IInv, [Next]_vars, NEW a \in Address, NEW o \in Outpoint,
             Creator[o] \in book[a].transactions, o \notin book[a].utxos
      PROVE  o \notin book'[a].utxos
    <2>1. CASE book' = book
        BY <1>1, <2>1
    <2>2. CASE \E tx \in Tx : SendAnswered(tx)
        BY <1>1, <2>2, AnswerSteps
    <2>3. CASE \E tx \in Tx : ImportTransaction(tx)
        <3>1. PICK tx \in Tx : ImportTransaction(tx)
            BY <2>3
        <3>2. CASE ~ Concerns(tx, a)
            BY <1>1, <3>1, <3>2, ImportSteps
        <3>3. CASE Concerns(tx, a)
            <4>1. o \notin Pays(tx, a)
                BY <1>1, <3>3 DEF Concerns, Pays
            <4>2. book'[a].utxos = (book[a].utxos \ Spends[tx]) \cup Pays(tx, a)
                BY <1>1, <3>1, <3>3, ImportSteps, ImportedObject
            <4> QED
                BY <1>1, <4>1, <4>2
        <3> QED
            BY <3>2, <3>3
    <2>4. book' = book \/ (\E tx \in Tx : SendAnswered(tx) \/ ImportTransaction(tx))
        BY <1>1 DEF Next, vars, store, Initialize, BecomeReady, GetAddress, Publish,
            ImportTransactions, EnsureGapLimit, CreateTransaction, SendTransaction, SendFailed
    <2> QED
        BY <2>1, <2>2, <2>3, <2>4
<1>2. IInv /\ [Next]_vars =>
          [\A a \in Address, o \in Outpoint :
               Creator[o] \in book[a].transactions /\ o \notin book[a].utxos
                   => o \notin book'[a].utxos]_vars
    BY <1>1
<1> QED
    BY <1>2, AlwaysIInv, PTL DEF Spec, NoSecondCredit

\* An import that does not throw leaves the account's gap filled, for any gap
\* limit, number of accounts, and addresses users asked for.
THEOREM LedgerImportLooksAhead == Spec => ImportLooksAhead
<1>1. ASSUME IInv, [Next]_vars, importer # None, importer' = None, importer \notin rejected'
      PROVE  LooksAhead(known', Used', importer)
    <2>1. EnsureGapLimit
        BY <1>1, LedgerAssumption DEF Next, vars, importing, Initialize, BecomeReady,
            GetAddress, Publish, ImportTransactions, ImportTransaction, CreateTransaction,
            SendTransaction, SendAnswered, SendFailed
    <2>2. /\ known' = Ensured(known, Used, importer) /\ Used' = Used
          /\ PathsContiguous(known, importer)
        BY <1>1, <2>1 DEF EnsureGapLimit, Used
    <2>3. known \in SUBSET Path
        BY <1>1, KnownPaths
    <2> QED
        BY <2>2, <2>3, EnsuredLooksAhead
<1>2. IInv /\ [Next]_vars =>
          [importer # None /\ importer' = None /\ importer \notin rejected'
               => LooksAhead(known', Used', importer)]_vars
    BY <1>1
<1> QED
    BY <1>2, AlwaysIInv, PTL DEF Spec, ImportLooksAhead

\* Until a user asks for an address the paths of no account have a hole.
NoHoles ==
    ~ asked => /\ \A account : PathsContiguous(known, account)
               /\ rejected = {}

\* Deriving the addresses an account needs makes no hole, in its own paths or
\* in those of the other accounts.
LEMMA NoHolesInductive == IInv /\ NoHoles /\ [Next]_vars => NoHoles'
<1> SUFFICES ASSUME IInv, NoHoles, [Next]_vars, ~ asked'
             PROVE  (\A account : PathsContiguous(known', account)) /\ rejected' = {}
    BY DEF NoHoles
<1>1. \/ known' = known /\ rejected' = rejected /\ asked' = asked
      \/ \E account \in Account : Initialize(account) \/ BecomeReady(account)
      \/ EnsureGapLimit
    BY DEF Next, vars, store, importing, history, GetAddress, Publish, ImportTransactions,
        ImportTransaction, CreateTransaction, SendTransaction, SendAnswered, SendFailed
<1>2. ~ asked
    BY <1>1 DEF Initialize, BecomeReady, EnsureGapLimit, history
<1>3. (\A account : PathsContiguous(known, account)) /\ rejected = {}
    BY <1>2 DEF NoHoles
<1>4. known \in SUBSET Path /\ Used \in SUBSET Path
    BY KnownPaths
<1>5. \A account, other : PathsContiguous(Ensured(known, Used, account), other)
    BY <1>3, <1>4, EnsuredMakesNoHole
<1>6. CASE \E account \in Account : Initialize(account) \/ BecomeReady(account)
    <2>1. PICK account \in Account : known' = Ensured(known, Used, account)
              /\ rejected' = rejected
        BY <1>6 DEF Initialize, BecomeReady, importing
    <2> QED
        BY <1>3, <1>5, <2>1
<1>7. CASE EnsureGapLimit
    <2>1. known' = Ensured(known, Used, importer) /\ rejected' = {}
        BY <1>3, <1>7 DEF EnsureGapLimit
    <2> QED
        BY <1>5, <2>1
<1>8. CASE known' = known /\ rejected' = rejected /\ asked' = asked
    BY <1>3, <1>8
<1> QED
    BY <1>1, <1>6, <1>7, <1>8

\* The gap limit of one account never makes another account's import throw.
THEOREM LedgerOnlyUsersMakeHoles == Spec => []OnlyUsersMakeHoles
<1>1. Init => NoHoles
    BY DEF Init, NoHoles, PathsContiguous, OwnIndexes, Contiguous
<1>2. NoHoles => OnlyUsersMakeHoles
    BY DEF NoHoles, OnlyUsersMakeHoles
<1> QED
    BY <1>1, <1>2, NoHolesInductive, AlwaysIInv, PTL DEF Spec

-----------------------------------------------------------------------------
(* Coin selection                                                          *)

\* Some outpoint is sorted before all others of a set.
LEMMA FirstSorted ==
    ASSUME NEW S \in SUBSET Outpoint, S # {}
    PROVE  \E f \in S : S \ {f} \subseteq {o \in S : f \in Before[o]}
<1> DEFINE Ahead(o) == S \cap Before[o]
<1>1. \A o \in S : IsFiniteSet(Ahead(o)) /\ Cardinality(Ahead(o)) \in Nat
    BY OrderAssumption, FS_Subset, FS_CardinalityType
<1> DEFINE Numbers == {Cardinality(Ahead(o)) : o \in S}
<1>2. Numbers \in SUBSET Nat /\ Numbers # {}
    BY <1>1
<1>3. PICK f \in S : \A o \in S : Cardinality(Ahead(f)) <= Cardinality(Ahead(o))
    <2>1. \E n \in Numbers : \A m \in Numbers : n <= m
        <3> HIDE DEF Numbers
        <3> QED
            BY <1>2, LeastNumber
    <2> HIDE DEF Ahead
    <2> QED
        BY <2>1
<1>4. ASSUME NEW o \in S, o # f, f \notin Before[o] PROVE FALSE
    <2>1. o \in Before[f] /\ o \notin Before[o]
        BY <1>4, OrderAssumption
    <2>2. Ahead(o) \subseteq Ahead(f) /\ o \in Ahead(f) /\ o \notin Ahead(o)
        BY <2>1, OrderAssumption
    <2>3. /\ Cardinality(Ahead(o)) \in Nat /\ Cardinality(Ahead(f)) \in Nat
          /\ IsFiniteSet(Ahead(f))
        BY <1>1
    <2> HIDE DEF Ahead
    <2>4. /\ Cardinality(Ahead(o)) <= Cardinality(Ahead(f))
          /\ Cardinality(Ahead(f)) # Cardinality(Ahead(o))
        BY <2>2, <2>3, FS_Subset
    <2>5. Cardinality(Ahead(f)) <= Cardinality(Ahead(o))
        BY <1>3
    <2> QED
        BY <2>3, <2>4, <2>5
<1> QED
    BY <1>4

\* Some outpoint is sorted after all others of a set.
LEMMA LastSorted ==
    ASSUME NEW S \in SUBSET Outpoint, S # {}
    PROVE  \E l \in S : S \ {l} \subseteq Before[l]
<1> DEFINE Behind(o) == {p \in S : o \in Before[p]}
<1>1. \A o \in S : IsFiniteSet(Behind(o)) /\ Cardinality(Behind(o)) \in Nat
    BY OrderAssumption, FS_Subset, FS_CardinalityType
<1> DEFINE Numbers == {Cardinality(Behind(o)) : o \in S}
<1>2. Numbers \in SUBSET Nat /\ Numbers # {}
    BY <1>1
<1>3. PICK l \in S : \A o \in S : Cardinality(Behind(l)) <= Cardinality(Behind(o))
    <2>1. \E n \in Numbers : \A m \in Numbers : n <= m
        <3> HIDE DEF Numbers
        <3> QED
            BY <1>2, LeastNumber
    <2> HIDE DEF Behind
    <2> QED
        BY <2>1
<1>4. ASSUME NEW o \in S, o # l, o \notin Before[l] PROVE FALSE
    <2>1. l \in Before[o] /\ o \notin Before[o]
        BY <1>4, OrderAssumption
    <2>2. Behind(o) \subseteq Behind(l) /\ o \in Behind(l) /\ o \notin Behind(o)
        BY <2>1, OrderAssumption
    <2>3. /\ Cardinality(Behind(o)) \in Nat /\ Cardinality(Behind(l)) \in Nat
          /\ IsFiniteSet(Behind(l))
        BY <1>1
    <2> HIDE DEF Behind
    <2>4. /\ Cardinality(Behind(o)) <= Cardinality(Behind(l))
          /\ Cardinality(Behind(l)) # Cardinality(Behind(o))
        BY <2>2, <2>3, FS_Subset
    <2>5. Cardinality(Behind(l)) <= Cardinality(Behind(o))
        BY <1>3
    <2> QED
        BY <2>3, <2>4, <2>5
<1> QED
    BY <1>4

\* More outpoints are worth no less.
LEMMA WorthGrows ==
    ASSUME NEW S \in SUBSET Outpoint, NEW T \in SUBSET S
    PROVE  Worth[T] <= Worth[S]
<1>1. S \cap T = T /\ S \ T \in SUBSET Outpoint /\ T \in SUBSET Outpoint
    OBVIOUS
<1>2. Worth[S \ T] = Worth[S] - Worth[T]
    BY <1>1, WorthOfDifference, Zenon
<1>3. Worth[S \ T] \in Nat /\ Worth[S] \in Nat /\ Worth[T] \in Nat
    BY <1>1, WorthAssumption
<1> QED
    BY <1>2, <1>3

\* What is accumulated is an initial part of the sorted UTXOs, as long as it
\* has to be to cover the amount.
LEMMA AccumulatedCovers ==
    ASSUME NEW utxos \in SUBSET Outpoint, NEW amount \in Nat \ {0}, Selectable(utxos, amount)
    PROVE  LET inputs == Accumulated(utxos, amount)
           IN  /\ inputs \in SUBSET utxos
               /\ Worth[inputs] >= amount
               /\ \E last \in inputs :
                      inputs \ {last} \subseteq Before[last] /\ Worth[inputs \ {last}] < amount
<1> DEFINE inputs == Accumulated(utxos, amount)
<1>1. inputs \in SUBSET utxos /\ inputs \in SUBSET Outpoint
    BY DEF Accumulated
<1>2. \A o \in utxos : Worth[utxos \cap Before[o]] \in Nat
    BY WorthAssumption
<1>3. ASSUME NEW o \in inputs, NEW p \in utxos, p \in Before[o] PROVE p \in inputs
    <2>1. utxos \cap Before[p] \subseteq utxos \cap Before[o]
        BY <1>1, <1>3, OrderAssumption
    <2>2. Worth[utxos \cap Before[p]] <= Worth[utxos \cap Before[o]]
        BY <2>1, WorthGrows
    <2>3. Worth[utxos \cap Before[o]] < amount
        BY DEF Accumulated
    <2>4. Worth[utxos \cap Before[p]] \in Nat /\ Worth[utxos \cap Before[o]] \in Nat
        BY <1>1, <1>2
    <2>5. Worth[utxos \cap Before[p]] < amount
        BY <2>2, <2>3, <2>4
    <2> QED
        BY <2>5 DEF Accumulated
<1>4. inputs # {}
    <2>1. PICK f \in utxos : utxos \ {f} \subseteq {o \in utxos : f \in Before[o]}
        BY FirstSorted DEF Selectable
    <2>2. utxos \cap Before[f] = {}
        BY <2>1, OrderAssumption
    <2>3. Worth[utxos \cap Before[f]] = 0
        BY <2>2, WorthOfNothing
    <2> QED
        BY <2>3 DEF Accumulated
<1>5. Worth[inputs] >= amount
    <2>1. CASE inputs = utxos
        BY <2>1 DEF Selectable
    <2>2. CASE inputs # utxos
        <3>1. PICK q \in utxos \ inputs :
                  (utxos \ inputs) \ {q} \subseteq {o \in utxos \ inputs : q \in Before[o]}
            <4>1. utxos \ inputs \in SUBSET Outpoint /\ utxos \ inputs # {}
                BY <1>1, <2>2
            <4> HIDE DEF inputs
            <4> QED
                BY <4>1, FirstSorted
        <3>2. \A o \in inputs : o \in Before[q]
            BY <1>1, <1>3, <3>1, OrderAssumption
        <3>3. \A o \in utxos \cap Before[q] : o \in inputs
            BY <3>1, OrderAssumption
        <3>4. utxos \cap Before[q] = inputs
            BY <1>1, <3>2, <3>3
        <3>5. ~ Worth[utxos \cap Before[q]] < amount
            BY <3>1 DEF Accumulated
        <3>6. Worth[inputs] \in Nat
            BY <1>1, WorthAssumption
        <3> QED
            BY <3>4, <3>5, <3>6
    <2> QED
        BY <2>1, <2>2
<1>6. PICK last \in inputs : inputs \ {last} \subseteq Before[last]
    BY <1>1, <1>4, LastSorted
<1>7. inputs \ {last} = utxos \cap Before[last]
    BY <1>1, <1>3, <1>6, OrderAssumption
<1>8. Worth[inputs \ {last}] < amount
    BY <1>6, <1>7 DEF Accumulated
<1> QED
    BY <1>1, <1>5, <1>6, <1>8

\* Whatever UTXOs createTransaction selects from, what it selects meets what the
\* strategies promise.
LEMMA AccumulatedFits ==
    ASSUME NEW utxos \in SUBSET Outpoint, NEW amount \in Nat \ {0}, Selectable(utxos, amount)
    PROVE  Fits(Accumulated(utxos, amount), amount)
<1> DEFINE inputs == Accumulated(utxos, amount)
<1>1. /\ inputs \in SUBSET utxos
      /\ Worth[inputs] >= amount
      /\ \E last \in inputs :
             inputs \ {last} \subseteq Before[last] /\ Worth[inputs \ {last}] < amount
    BY AccumulatedCovers
<1> HIDE DEF inputs
<1>2. Cardinality(inputs) \in Nat /\ Worth[inputs] \in Nat
    <2>1. inputs \in SUBSET Outpoint
        BY <1>1
    <2>2. IsFiniteSet(inputs)
        BY <2>1, OrderAssumption, FS_Subset
    <2> QED
        BY <2>1, <2>2, FS_CardinalityType, WorthAssumption
<1>3. ASSUME NEW feeCategory \in {"normal", "instant"}
      PROVE  LET fee == EstimatedFee(inputs, 1, feeCategory)
             IN  Deducted(inputs, amount, fee) + fee <= Worth[inputs]
    <2> DEFINE fee == EstimatedFee(inputs, 1, feeCategory)
    <2>1. fee \in Int
        BY <1>2 DEF EstimatedFee, Size, InputsSize, OutputsSize
    <2> HIDE DEF fee
    <2>2. Deducted(inputs, amount, fee) + fee <= Worth[inputs]
        BY <1>2, <2>1 DEF Deducted
    <2> QED
        BY <2>2 DEF fee
<1>4. Fits(inputs, amount)
    BY <1>1, <1>3 DEF Fits
<1> QED
    BY <1>4 DEF inputs

\* simpleDescendingAccumulator covers every amount that coinSelection lets pass,
\* with no input after those that do, and leaves room for the fee it deducts,
\* whatever an account's UTXO sets have become.
THEOREM LedgerSelectionFits == Spec => []SelectionFits
<1>1. IInv => SelectionFits
    <2> SUFFICES ASSUME IInv, NEW account \in open,
                        NEW amount \in {Amount[tx] : tx \in Tx} \ {0},
                        Selectable(Spendable(account), amount)
                 PROVE  Fits(Accumulated(Spendable(account), amount), amount)
        BY DEF SelectionFits
    <2>1. \A a \in Address : book[a].utxos \in SUBSET Outpoint
        BY DEF IInv, TypeOK, AddressObject
    <2>2. Spendable(account) \in SUBSET Outpoint
        BY <2>1 DEF Spendable
    <2>3. amount \in Nat \ {0}
        BY LedgerAssumption
    <2> QED
        BY <2>2, <2>3, AccumulatedFits
<1> QED
    BY <1>1, AlwaysIInv, PTL

-----------------------------------------------------------------------------
(* The history *)

\* determineType says "sent" only if an own address pays and no external one is
\* paid, and "received" only if an external one is paid and none pays.
LEMMA TypesAre ==
    ASSUME NEW tx, NEW account
    PROVE  /\ TypeOf(tx, account) = "sent" =>
                  /\ ~ PaysTo(tx, ExternalAddresses(account))
                  /\ \/ SpendsFrom(tx, InternalAddresses(account))
                     \/ SpendsFrom(tx, ExternalAddresses(account))
           /\ TypeOf(tx, account) = "received" =>
                  /\ PaysTo(tx, ExternalAddresses(account))
                  /\ ~ SpendsFrom(tx, ExternalAddresses(account))
BY DEF TypeOf, IsSent, IsAddressTransfer

LEMMA MineIs ==
    ASSUME NEW account
    PROVE  /\ Mine(account) = ExternalAddresses(account) \cup InternalAddresses(account)
           /\ Foreign \notin Mine(account)
BY DEF Mine, ExternalAddresses, InternalAddresses, Types, Address

\* categorizeTransactions looks at the addresses that take part, not at what they
\* pay; still what it calls sent or received is, but for joint payments and spent
\* change, whatever the account has derived since.
THEOREM HistoryTypeFollowsMoney == Spec => []TypeFollowsMoney
<1>1. TypeOK => TypeFollowsMoney
    <2> SUFFICES ASSUME TypeOK, NEW account \in open, NEW tx \in FilterTransactions(account)
                 PROVE  /\ TypeOf(tx, account) = "sent" =>
                               \/ PaidOut(tx, Mine(account)) > PaidIn(tx, Mine(account))
                               \/ \E o \in Spends[tx] : Owner[o] \notin Mine(account)
                        /\ TypeOf(tx, account) = "received" =>
                               \/ PaidIn(tx, Mine(account)) > PaidOut(tx, Mine(account))
                               \/ SpendsFrom(tx, InternalAddresses(account))
        BY DEF TypeFollowsMoney
    <2> DEFINE mine == Mine(account)
               outputs == {o \in Outpoint : Creator[o] = tx}
               in == {o \in Outpoint : Creator[o] = tx /\ Owner[o] \in mine}
               out == {o \in Spends[tx] : Owner[o] \in mine}
    <2>1. tx \in Tx
        BY DEF FilterTransactions, ExternalAddresses, TypeOK, AddressObject
    <2>2. /\ Spends[tx] \in SUBSET Outpoint /\ outputs \in SUBSET Outpoint
          /\ in \in SUBSET outputs /\ in \in SUBSET Outpoint /\ out \in SUBSET Outpoint
        BY <2>1, LedgerAssumption
    <2>3. /\ PaidIn(tx, mine) = Worth[in] /\ PaidOut(tx, mine) = Worth[out]
          /\ Worth[in] \in Nat /\ Worth[out] \in Nat /\ Worth[outputs] \in Nat
        BY <2>2, WorthAssumption DEF PaidIn, PaidOut
    <2>4. ASSUME TypeOf(tx, account) = "sent", \A o \in Spends[tx] : Owner[o] \in mine
          PROVE  PaidOut(tx, mine) > PaidIn(tx, mine)
        <3>1. out = Spends[tx] /\ Spends[tx] # {}
            BY <2>4, TypesAre DEF SpendsFrom
        <3>2. Worth[outputs] < Worth[out]
            BY <2>1, <3>1, RelayAssumption
        <3>3. Worth[in] <= Worth[outputs]
            BY <2>2, WorthGrows
        <3> QED
            BY <2>3, <3>2, <3>3
    <2>5. ASSUME TypeOf(tx, account) = "received", ~ SpendsFrom(tx, InternalAddresses(account))
          PROVE  PaidIn(tx, mine) > PaidOut(tx, mine)
        <3>1. out = {}
            BY <2>5, TypesAre, MineIs DEF SpendsFrom
        <3>2. PICK o \in in : Owner[o] # Foreign
            BY <2>5, TypesAre, MineIs DEF PaysTo
        <3>3. Worth[{o}] > 0 /\ Worth[{o}] \in Nat
            BY <2>2, <3>2, RelayAssumption, WorthAssumption
        <3>4. Worth[{o}] <= Worth[in]
            BY <2>2, <3>2, WorthGrows
        <3>5. Worth[out] = 0
            BY <3>1, WorthOfNothing
        <3> QED
            BY <2>3, <3>3, <3>4, <3>5
    <2> QED
        BY <2>4, <2>5
<1> QED
    BY <1>1, LedgerTypeCorrect, PTL
=============================================================================
