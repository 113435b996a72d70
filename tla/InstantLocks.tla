----------------------------- MODULE InstantLocks -----------------------------
(***************************************************************************)
(* The instant locks of transactions: the accounts import them into the    *)
(* store they share, and waitForInstantLock waits for one, with a timeout. *)
(*                                                                         *)
(* A listener hears what its own account imports, until the account is     *)
(* disconnected.                                                           *)
(***************************************************************************)
EXTENDS WalletAccounts

CONSTANTS
    Transactions,   \* those that locks are waited for
    Clients,        \* the accounts that import them and wait for them
    MaxWaits        \* bound on the calls of waitForInstantLock

ASSUME LocksAssumption == Clients \subseteq Nat /\ MaxWaits \in Nat

VARIABLES
    instantLocks,   \* the transactions whose locks are in the store
    waits           \* the calls of waitForInstantLock

lockVars == <<vars, instantLocks, waits>>

\* state: "waiting", "resolved" or "timed out".  since: the departures of the
\* account when it began to listen.  History: elsewhere, has another account
\* imported the lock meanwhile?  stored: was the lock there at the timeout?
Wait(a, tx, state) ==
    [account |-> a, tx |-> tx, state |-> state, since |-> accounts[a].departures,
     elsewhere |-> FALSE, stored |-> FALSE]

LockInit ==
    /\ Init
    /\ instantLocks = {}
    /\ waits = <<>>

\* Mutated form: whoever is waiting is told by the next import of its account
WaitsUnlooked(tx) == "waiting"
\* A lock that is in the store already resolves the promise at once.
WaitsFor(tx) == IF tx \in instantLocks THEN "resolved" ELSE "waiting"

WaitForInstantLock(a, tx) ==
    /\ Len(waits) < MaxWaits
    /\ waits' = Append(waits, Wait(a, tx, WaitsFor(tx)))
    /\ UNCHANGED <<vars, instantLocks>>

Hears(wait, a, tx) ==
    /\ wait.state = "waiting" /\ wait.account = a /\ wait.tx = tx
    /\ wait.since = accounts[a].departures

\* importInstantLock, by the worker of the account or by its user
ImportInstantLock(a, tx) ==
    /\ instantLocks' = instantLocks \cup {tx}
    /\ waits' = [n \in DOMAIN waits |->
           IF Hears(waits[n], a, tx) THEN [waits[n] EXCEPT !.state = "resolved"]
           ELSE [waits[n] EXCEPT !.elsewhere = @ \/ (waits[n].tx = tx /\ waits[n].account # a)]]
    /\ UNCHANGED vars

TimedOut(n) ==
    /\ waits[n].state = "waiting"
    /\ waits' = [waits EXCEPT ![n].state = "timed out", ![n].stored = waits[n].tx \in instantLocks]
    /\ UNCHANGED <<vars, instantLocks>>

LockNext ==
    \/ Next /\ UNCHANGED <<instantLocks, waits>>
    \/ \E a \in Position \cap Clients, tx \in Transactions :
           WaitForInstantLock(a, tx) \/ ImportInstantLock(a, tx)
    \/ \E n \in DOMAIN waits : TimedOut(n)

LockSpec == LockInit /\ [][LockNext]_lockVars

-----------------------------------------------------------------------------
LockTypeOK ==
    /\ TypeOK
    /\ instantLocks \subseteq Transactions
    /\ waits \in Seq([account: Nat, tx: Transactions,
                      state: {"waiting", "resolved", "timed out"}, since: Nat,
                      elsewhere: BOOLEAN, stored: BOOLEAN])

\* A wait times out although the store has the lock only if another account of
\* the wallet imported it meanwhile, or its own after a disconnection.
TimeoutMeansMissing ==
    \A n \in DOMAIN waits :
        waits[n].state = "timed out" /\ waits[n].stored =>
            waits[n].elsewhere \/ accounts[waits[n].account].departures > waits[n].since
=============================================================================
