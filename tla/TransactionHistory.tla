-------------------------- MODULE TransactionHistory --------------------------
(***************************************************************************)
(* getTransactionHistory of an HD wallet: the transactions an account is   *)
(* told of, and what it is told they are.                                  *)
(*                                                                         *)
(* The address a transaction spends from is known from the script of its   *)
(* input, whether the store has the output or not.  Times, heights and the *)
(* order they give the list are left out.                                  *)
(***************************************************************************)
EXTENDS WalletLedger

\* The network relays no payment to an address of nothing, and no transaction that
\* leaves no fee.
ASSUME RelayAssumption ==
    /\ \A o \in Outpoint : Owner[o] # Foreign => Worth[{o}] > 0
    /\ \A tx \in Tx :
           Spends[tx] # {} => Worth[{o \in Outpoint : Creator[o] = tx}] < Worth[Spends[tx]]

-----------------------------------------------------------------------------
(* classifyAddresses                                                       *)

ExternalAddresses(account) == {a \in known \cap Address : a[1] = account /\ a[2] = "external"}
InternalAddresses(account) == {a \in known \cap Address : a[1] = account /\ a[2] = "internal"}
OtherAccountAddresses(account) == {a \in known \cap Address : a[1] # account}

PaysTo(tx, addresses) == \E o \in Outpoint : Creator[o] = tx /\ Owner[o] \in addresses
SpendsFrom(tx, addresses) == \E o \in Spends[tx] : Owner[o] \in addresses

-----------------------------------------------------------------------------
(* determineType                                                           *)

IsAddressTransfer(tx, account) ==
    LET external == ExternalAddresses(account)
    IN  SpendsFrom(tx, external) /\ PaysTo(tx, external)

IsAccountTransfer(tx, account) ==
    LET external == ExternalAddresses(account)
        other == OtherAccountAddresses(account)
    IN  \/ SpendsFrom(tx, external) /\ PaysTo(tx, other)
        \/ SpendsFrom(tx, other) /\ PaysTo(tx, external)

\* Mutated form: the two sides are swapped.
IsSentSwapped(tx, account) ==
    /\ ~ SpendsFrom(tx, ExternalAddresses(account))
    /\ PaysTo(tx, InternalAddresses(account)) \/ PaysTo(tx, ExternalAddresses(account))
IsSent(tx, account) ==
    /\ ~ PaysTo(tx, ExternalAddresses(account))
    /\ SpendsFrom(tx, InternalAddresses(account)) \/ SpendsFrom(tx, ExternalAddresses(account))

TypeOf(tx, account) ==
    IF IsAddressTransfer(tx, account) THEN "address_transfer"
    ELSE IF IsAccountTransfer(tx, account) THEN "account_transfer"
    ELSE IF IsSent(tx, account) THEN "sent"
    ELSE IF PaysTo(tx, ExternalAddresses(account)) THEN "received"
    ELSE "unknown"

-----------------------------------------------------------------------------
\* filterTransactions: { ...external, internal } holds the external addresses
\* and one that is not an address.
FilterTransactions(account) == UNION {book[a].transactions : a \in ExternalAddresses(account)}

-----------------------------------------------------------------------------
Mine(account) == {a \in known \cap Address : a[1] = account /\ a[2] \in Types}
PaidIn(tx, mine) == Worth[{o \in Outpoint : Creator[o] = tx /\ Owner[o] \in mine}]
PaidOut(tx, mine) == Worth[{o \in Spends[tx] : Owner[o] \in mine}]

\* What the history calls sent made the account poorer, unless somebody else pays
\* with it (or an address not derived yet), and what it calls received made it
\* richer or spends its change (change that is paid to an address of the account is
\* filed as received), whatever has been imported and derived since.
TypeFollowsMoney ==
    \A account \in open :
        LET mine == Mine(account)
        IN  \A tx \in FilterTransactions(account) :
                LET type == TypeOf(tx, account)
                IN  /\ type = "sent" =>
                           \/ PaidOut(tx, mine) > PaidIn(tx, mine)
                           \/ \E o \in Spends[tx] : Owner[o] \notin mine
                    /\ type = "received" =>
                           \/ PaidIn(tx, mine) > PaidOut(tx, mine)
                           \/ SpendsFrom(tx, InternalAddresses(account))

\* "Will filter out transaction that are not concerning us (which can happen in
\* the case of multiple account in store)": those that an address of the account
\* lists do concern it.
HistoryIsComplete ==
    \A account \in open : \A a \in Mine(account) :
        book[a].transactions \subseteq FilterTransactions(account)
=============================================================================
