---------------------------- MODULE WalletAccounts ----------------------------
(***************************************************************************)
(* A wallet and its accounts: the index a new account gets, who finds it   *)
(* and when, and what becomes of it when its initialisation fails or the   *)
(* wallet is disconnected.                                                 *)
(*                                                                         *)
(* An account is a position of wallet.accounts.  What happens between the  *)
(* two ends of its initialisation is WorkerLifecycle; what a disconnection *)
(* saves is StatePersistence.                                              *)
(***************************************************************************)
EXTENDS Integers, Sequences, FiniteSetsExt

CONSTANTS
    Openings,       \* how many accounts the wallet may have at first
    Indexes,        \* the indexes accounts are asked for by
    MaxNew          \* bound on the accounts that are created

\* An index prints with two digits at most.
ASSUME AccountsAssumption ==
    /\ Openings \subseteq 0..49
    /\ Indexes \subseteq 0..99
    /\ MaxNew \in 0..49

Undefined == -1

VARIABLES
    accounts,       \* wallet.accounts
    opened,         \* how many of them there were at first
    leaving,        \* Wallet.disconnect: "no", "storage", "accounts", "done" or "failed"
    path,           \* the account it disconnects ...
    paths,          \* ... and how many there were when it looked
    clashing        \* history: the indexes of accounts created although there was one

departure == <<leaving, path, paths>>
vars == <<accounts, opened, departure, clashing>>

\* state: of the promise of createAccount: "pending", "failing" (the account is
\* being disconnected), "failed" or "ready".  interval: its readiness interval.
\* departures: how often it has been disconnected, its listeners removed.
Account(index, state) ==
    [index |-> index, state |-> state, interval |-> state = "pending", departures |-> 0]

Position == DOMAIN accounts
Taken == {accounts[a].index : a \in Position}

-----------------------------------------------------------------------------
(* The index of an account that was given none                             *)

\* sort() compares the indexes as strings; undefined goes last.
Printed(i) == IF i < 10 THEN 11 * i ELSE 11 * (i \div 10) + (i % 10) + 1
LastSorted(S) ==
    IF Undefined \in S THEN Undefined
    ELSE CHOOSE i \in S : \A j \in S : Printed(j) <= Printed(i)

\* Mutated form: the number of accounts
AccountCount(S) == Len(accounts)
\* getNextUnusedAccountIndexForWallet; undefined bounds no loop.
NextUnusedIndex(S) ==
    LET upTo == CASE S = {} -> 0
                  [] Undefined \in S -> -1
                  [] OTHER -> LastSorted(S) + 1
        unused == (0..upTo) \ S
    IN  IF unused = {} THEN Undefined ELSE Min(unused)

-----------------------------------------------------------------------------
(* createAccount and getAccount                                            *)

Init ==
    /\ opened \in Openings
    /\ accounts = [a \in 1..opened |-> Account(a - 1, "ready")]
    /\ leaving = "no" /\ path = 0 /\ paths = 0
    /\ clashing = {}

\* _addAccountToWallet: no account has the index of the wallet, which has none.
Added(account) == Append(accounts, account)

\* createAccount up to its first await: the constructor, and init, which may
\* throw before the readiness interval is set
Create(index) ==
    /\ Len(accounts) < opened + MaxNew
    /\ \E state \in {"pending", "failing"} : accounts' = Added(Account(index, state))

CreateAccount ==
    /\ Create(NextUnusedIndex(Taken))
    /\ UNCHANGED <<opened, departure, clashing>>

CreateAccountAt(index) ==
    /\ Create(index)
    /\ clashing' = clashing \cup ({index} \cap Taken)
    /\ UNCHANGED <<opened, departure>>

\* getAccount returns an account the wallet has as it is.
GetAccount(index) ==
    /\ index \notin Taken
    /\ Create(index)
    /\ UNCHANGED <<opened, departure, clashing>>

\* A turn of the readiness interval finds the plugins ready.
BecomesReady(a) ==
    /\ accounts[a].interval
    /\ accounts' = [accounts EXCEPT ![a].interval = FALSE, ![a].state = "ready"]
    /\ UNCHANGED <<opened, departure, clashing>>

\* ... and the derivation of addresses that follows throws, which nobody catches.
ReadinessThrows(a) ==
    /\ accounts[a].interval
    /\ accounts' = [accounts EXCEPT ![a].interval = FALSE]
    /\ UNCHANGED <<opened, departure, clashing>>

-----------------------------------------------------------------------------
(* disconnect                                                              *)

\* The end of Account.disconnect
Disconnected(account) == [account EXCEPT !.departures = @ + 1, !.interval = FALSE]

\* createAccount disconnects the account it could not initialise, which stays
\* in the wallet, and rejects, whether that succeeds or not.
CreateRejects(a) ==
    /\ accounts[a].state = "failing"
    /\ \/ accounts' = [accounts EXCEPT ![a] = [Disconnected(@) EXCEPT !.state = "failed"]]
       \/ accounts' = [accounts EXCEPT ![a].state = "failed"]
    /\ UNCHANGED <<opened, departure, clashing>>

WalletDisconnect ==
    /\ leaving = "no"
    /\ leaving' = "storage"
    /\ UNCHANGED <<accounts, opened, path, paths, clashing>>

\* Mutated form: one account less
NextPathBut == path' = path + 1 /\ leaving' = IF path + 1 < paths THEN "accounts" ELSE "done"
NextPath == path' = path + 1 /\ leaving' = IF path < paths THEN "accounts" ELSE "done"

\* The storage has stopped: the accounts of this moment will be disconnected.
StorageStopped ==
    /\ leaving = "storage"
    /\ paths' = Len(accounts)
    /\ path' = 1
    /\ leaving' = IF accounts = <<>> THEN "done" ELSE "accounts"
    /\ UNCHANGED <<accounts, opened, clashing>>

AccountDisconnected ==
    /\ leaving = "accounts"
    /\ accounts' = [accounts EXCEPT ![path] = Disconnected(@)]
    /\ NextPath
    /\ UNCHANGED <<opened, paths, clashing>>

\* The first that rejects ends it.
DisconnectFails ==
    /\ leaving \in {"storage", "accounts"}
    /\ leaving' = "failed"
    /\ UNCHANGED <<accounts, opened, path, paths, clashing>>

Next ==
    \/ CreateAccount
    \/ \E index \in Indexes : CreateAccountAt(index) \/ GetAccount(index)
    \/ \E a \in Position : BecomesReady(a) \/ ReadinessThrows(a) \/ CreateRejects(a)
    \/ WalletDisconnect \/ StorageStopped \/ AccountDisconnected \/ DisconnectFails

Spec == Init /\ [][Next]_vars

-----------------------------------------------------------------------------
TypeOK ==
    /\ opened \in Openings
    /\ accounts \in Seq([index: Nat \cup {Undefined},
                         state: {"pending", "failing", "failed", "ready"},
                         interval: BOOLEAN, departures: Nat])
    /\ leaving \in {"no", "storage", "accounts", "done", "failed"}
    /\ path \in Nat /\ paths \in 0..Len(accounts)
    /\ clashing \subseteq Indexes

\* Two accounts have the same index only if createAccount was given one that
\* was taken, however many calls of getAccount and createAccount overlap; a new
\* account has one as long as the indexes 0 to 10 are not all taken (9 is the
\* last of them as strings).
OneAccountPerIndex ==
    \A a, b \in Position :
        a # b /\ accounts[a].index = accounts[b].index =>
            \/ accounts[a].index \in clashing
            \/ accounts[a].index = Undefined /\ 0..10 \subseteq Taken

\* wallet.disconnect "will disconnect all accounts" (docs/wallet/disconnect.md):
\* when it resolves, each of those that the wallet had when the storage stopped
\* has been, those whose initialisation was under way included, and none of them
\* becomes ready any more.
DisconnectReachesAll ==
    leaving = "done" =>
        \A a \in 1..paths : accounts[a].departures > 0 /\ ~ accounts[a].interval
=============================================================================
