-------------------------- MODULE InstantLocksProofs --------------------------
(***************************************************************************)
(* Proofs about the accounts of a wallet and the instant locks they wait   *)
(* for, for any number of accounts, calls and locks.                       *)
(***************************************************************************)
EXTENDS InstantLocks, WellFoundedInduction, TLAPS

\* A new account's index is at most one more than the largest there was.
IndexBound == \A a \in Position : accounts[a].index <= 99 + a

\* An account has no index only when sort() put the 9 last, and 10 was taken.
UndefinedIsLate == Undefined \in Taken => 0..10 \subseteq Taken

\* How far Wallet.disconnect has come
DisconnectInv ==
    /\ leaving = "accounts" => path \in 1..paths
    /\ leaving = "done" => path = paths + 1
    /\ leaving \in {"no", "storage"} => path = 0 /\ paths = 0
    /\ \A a \in 1..paths : a < path => accounts[a].departures > 0 /\ ~ accounts[a].interval

\* A wait that goes on although the lock is stored missed its import.
WaitInv ==
    \A n \in DOMAIN waits :
        /\ waits[n].account \in Position
        /\ waits[n].since <= accounts[waits[n].account].departures
        /\ waits[n].state = "waiting" /\ waits[n].tx \in instantLocks =>
               waits[n].elsewhere \/ accounts[waits[n].account].departures > waits[n].since

AccountsInv ==
    /\ TypeOK
    /\ IndexBound /\ UndefinedIsLate /\ OneAccountPerIndex
    /\ DisconnectInv

IInv == AccountsInv /\ LockTypeOK /\ WaitInv /\ TimeoutMeansMissing

-----------------------------------------------------------------------------
(* The index of an account that was given none                             *)

\* A nonempty set of numbers has a least one.
LEMMA Least ==
    ASSUME NEW S \in SUBSET Nat, S # {}
    PROVE  \E n \in S : \A m \in S : n <= m
<1> DEFINE R == OpToRel(<, Nat)
<1>1. \A m, n \in Nat : m < n => <<m, n>> \in R
    BY DEF OpToRel
<1>2. PICK n \in S : \A m \in S : ~ (<<m, n>> \in R)
    <2>1. IsWellFoundedOn(R, Nat)
        BY NatLessThanWellFounded
    <2> QED
        BY <2>1, WFMin
<1> HIDE DEF R
<1>3. \A m \in S : ~ (m < n)
    BY <1>1, <1>2
<1> QED
    BY <1>3

\* Indexes are sorted as numbers are, but for those from 2 to 9, which go
\* behind others with two digits: only 9 comes after its successor.
LEMMA PrintedGrows ==
    ASSUME NEW i \in Nat, i # 9
    PROVE  Printed(i) < Printed(i + 1)
<1>1. CASE i < 9
    BY <1>1 DEF Printed
<1>2. CASE i >= 10
    <2>1. PICK q \in Nat, r \in 0..9 : i = 10 * q + r
        <3>1. i \div 10 \in Nat /\ i % 10 \in 0..9 /\ i = 10 * (i \div 10) + (i % 10)
            OBVIOUS
        <3> QED
            BY <3>1
    <2>2. i \div 10 = q /\ i % 10 = r
        BY <2>1
    <2>3. Printed(i) = 11 * q + r + 1
        BY <1>2, <2>2 DEF Printed
    <2>4. CASE r < 9
        <3>1. (i + 1) \div 10 = q /\ (i + 1) % 10 = r + 1
            BY <2>1, <2>4
        <3>2. Printed(i + 1) = 11 * q + (r + 1) + 1
            BY <1>2, <3>1 DEF Printed
        <3> QED
            BY <2>3, <3>2
    <2>5. CASE r = 9
        <3>1. (i + 1) \div 10 = q + 1 /\ (i + 1) % 10 = 0
            BY <2>1, <2>5
        <3>2. Printed(i + 1) = 11 * (q + 1) + 0 + 1
            BY <1>2, <3>1 DEF Printed
        <3> QED
            BY <2>3, <2>5, <3>2
    <2> QED
        BY <2>1, <2>4, <2>5
<1> QED
    BY <1>1, <1>2

LEMMA PrintedType ==
    ASSUME NEW i \in Nat
    PROVE  Printed(i) \in Nat /\ Printed(i) <= 11 * i + 1
<1>1. i \div 10 \in Nat /\ i % 10 \in 0..9 /\ i = 10 * (i \div 10) + (i % 10)
    OBVIOUS
<1> QED
    BY <1>1 DEF Printed

\* Of bounded indexes one is printed last.
LEMMA SomeLastSorted ==
    ASSUME NEW S \in SUBSET Nat, S # {}, NEW bound \in Nat, \A i \in S : i <= bound
    PROVE  LastSorted(S) \in S /\ \A j \in S : Printed(j) <= Printed(LastSorted(S))
<1> DEFINE limit == 11 * bound + 1
           Short(i) == limit - Printed(i)
           distances == {d \in Nat : \E i \in S : d = Short(i)}
<1>1. \A i \in S : Short(i) \in Nat /\ Printed(i) \in Nat /\ limit \in Nat
    BY PrintedType
<1>2. distances # {} /\ distances \in SUBSET Nat
    BY <1>1
<1>3. PICK d \in distances : \A e \in distances : d <= e
    BY <1>2, Least
<1>4. PICK i \in S : d = Short(i)
    BY <1>3
<1>5. \A j \in S : Printed(j) <= Printed(i)
    BY <1>1, <1>3, <1>4
<1>6. Undefined \notin S
    BY DEF Undefined
<1>7. LastSorted(S) = CHOOSE k \in S : \A j \in S : Printed(j) <= Printed(k)
    BY <1>6 DEF LastSorted
<1> QED
    BY <1>5, <1>7

\* getNextUnusedAccountIndexForWallet finds an index that no account has, or
\* none although 0 to 10 are all taken.
LEMMA NextIndexIsUnused ==
    ASSUME NEW S \in SUBSET (Nat \cup {Undefined}), NEW bound \in Nat, \A i \in S : i <= bound,
           Undefined \in S => 0..10 \subseteq S
    PROVE  \/ NextUnusedIndex(S) \in 0..bound + 1 /\ NextUnusedIndex(S) \notin S
           \/ NextUnusedIndex(S) = Undefined /\ 0..10 \subseteq S
<1> DEFINE upTo == CASE S = {} -> 0
                     [] Undefined \in S -> -1
                     [] OTHER -> LastSorted(S) + 1
           unused == (0..upTo) \ S
<1>1. NextUnusedIndex(S) = IF unused = {} THEN Undefined ELSE Min(unused)
    BY DEF NextUnusedIndex
<1>2. upTo \in Int /\ upTo <= bound + 1 /\ (unused = {} => 0..10 \subseteq S)
    <2>1. CASE S = {}
        <3>1. upTo = 0
            BY <2>1
        <3> QED
            BY <2>1, <3>1
    <2>2. CASE Undefined \in S
        <3>1. upTo = -1
            BY <2>2
        <3> QED
            BY <2>2, <3>1
    <2>3. CASE S # {} /\ Undefined \notin S
        <3>1. S \in SUBSET Nat
            BY <2>3
        <3>2. PICK last \in S :
                  last = LastSorted(S) /\ \A j \in S : Printed(j) <= Printed(last)
            BY <2>3, <3>1, SomeLastSorted
        <3>3. upTo = last + 1 /\ last \in Nat
            BY <2>3, <3>1, <3>2
        <3>4. ASSUME unused = {} PROVE 0..10 \subseteq S
            <4>1. last + 1 \in S
                BY <3>3, <3>4
            <4>2. last = 9
                <5>1. Printed(last + 1) <= Printed(last) /\ Printed(last) \in Nat
                      /\ Printed(last + 1) \in Nat
                    BY <3>2, <3>3, <4>1, PrintedType
                <5> QED
                    BY <3>3, <5>1, PrintedGrows
            <4>3. upTo = 10
                BY <3>3, <4>2
            <4> QED
                BY <3>4, <4>3
        <3> QED
            BY <3>3, <3>4
    <2> QED
        BY <2>1, <2>2, <2>3
<1> HIDE DEF upTo
<1>3. CASE unused = {}
    BY <1>1, <1>2, <1>3
<1>4. CASE unused # {}
    <2>1. unused \in SUBSET Nat /\ \A i \in unused : i <= bound + 1
        BY <1>2
    <2>2. Min(unused) \in unused
        BY <1>4, <2>1, Least DEF Min
    <2> QED
        BY <1>1, <1>4, <2>1, <2>2
<1> QED
    BY <1>3, <1>4

-----------------------------------------------------------------------------
(* What every step keeps                                                   *)

AccountRecord == [index: Nat \cup {Undefined},
                  state: {"pending", "failing", "failed", "ready"},
                  interval: BOOLEAN, departures: Nat]

WaitRecord == [account: Nat, tx: Transactions,
               state: {"waiting", "resolved", "timed out"}, since: Nat,
               elsewhere: BOOLEAN, stored: BOOLEAN]

\* What becomes of an account
Grown(old, new) ==
    /\ new.index = old.index
    /\ old.departures <= new.departures
    /\ new.interval => old.interval

\* The accounts there are stay, and one may be added.
AccountsGrow ==
    /\ accounts' \in Seq(AccountRecord)
    /\ Len(accounts) <= Len(accounts') /\ Len(accounts') <= Len(accounts) + 1
    /\ \A a \in Position : Grown(accounts[a], accounts'[a])

LEMMA AccountsType ==
    ASSUME TypeOK
    PROVE  /\ accounts \in Seq(AccountRecord) /\ Len(accounts) \in Nat
           /\ \A a \in Position : accounts[a] \in AccountRecord
<1>1. accounts \in Seq(AccountRecord)
    BY Zenon DEF TypeOK, AccountRecord
<1> HIDE DEF AccountRecord
<1>2. Len(accounts) \in Nat /\ \A a \in Position : accounts[a] \in AccountRecord
    BY <1>1 DEF Position
<1> QED
    BY <1>1, <1>2

\* The accounts as they are
LEMMA AccountsStay ==
    ASSUME TypeOK, UNCHANGED accounts
    PROVE  AccountsGrow
<1>1. \A a \in Position : Grown(accounts[a], accounts[a])
    BY AccountsType DEF Grown, AccountRecord
<1> QED
    BY <1>1, AccountsType DEF AccountsGrow

\* A new account, at the end
LEMMA CreateStep ==
    ASSUME TypeOK, NEW index \in Nat \cup {Undefined}, Create(index)
    PROVE  /\ AccountsGrow
           /\ Len(accounts') = Len(accounts) + 1
           /\ accounts'[Len(accounts) + 1].index = index
           /\ \A a \in Position : accounts'[a] = accounts[a]
<1>1. accounts \in Seq(AccountRecord) /\ Len(accounts) \in Nat
    BY AccountsType
<1>2. PICK state \in {"pending", "failing"} : accounts' = Append(accounts, Account(index, state))
    BY DEF Create, Added
<1>3. Account(index, state) \in AccountRecord /\ Account(index, state).index = index
    BY DEF Account, AccountRecord
<1> HIDE DEF AccountRecord
<1>4. PICK new \in AccountRecord : new = Account(index, state)
    BY <1>3
<1>5. accounts' = Append(accounts, new) /\ new.index = index
    BY <1>2, <1>3, <1>4
<1>6. /\ accounts' \in Seq(AccountRecord) /\ Len(accounts') = Len(accounts) + 1
      /\ accounts'[Len(accounts) + 1] = new
      /\ \A a \in 1..Len(accounts) : accounts'[a] = accounts[a]
    BY <1>1, <1>5
<1>7. \A a \in Position : accounts'[a] = accounts[a] /\ accounts[a] \in AccountRecord
    BY <1>1, <1>6 DEF Position
<1>8. \A a \in Position : Grown(accounts[a], accounts'[a])
    BY <1>7 DEF Grown, AccountRecord
<1>9. AccountsGrow
    BY <1>1, <1>6, <1>8 DEF AccountsGrow
<1> QED
    BY <1>5, <1>6, <1>7, <1>9

\* One account changes, and keeps its index.
LEMMA ChangeStep ==
    ASSUME TypeOK, NEW a \in Position, NEW new \in AccountRecord,
           Grown(accounts[a], new), accounts' = [accounts EXCEPT ![a] = new]
    PROVE  /\ AccountsGrow
           /\ Len(accounts') = Len(accounts)
           /\ accounts'[a] = new
<1>1. accounts \in Seq(AccountRecord) /\ Len(accounts) \in Nat
    BY AccountsType
<1>2. \A b \in Position : accounts[b] \in AccountRecord
    BY AccountsType
<1>3. /\ accounts' \in Seq(AccountRecord) /\ Len(accounts') = Len(accounts)
      /\ accounts'[a] = new
      /\ \A b \in Position : b # a => accounts'[b] = accounts[b]
    BY <1>1 DEF Position
<1>4. \A b \in Position : Grown(accounts[b], accounts[b])
    BY <1>2 DEF Grown, AccountRecord
<1>5. \A b \in Position : Grown(accounts[b], accounts'[b])
    BY <1>3, <1>4
<1> QED
    BY <1>1, <1>3, <1>5 DEF AccountsGrow

LEMMA DisconnectedType ==
    ASSUME NEW account \in AccountRecord
    PROVE  /\ Disconnected(account) \in AccountRecord
           /\ Grown(account, Disconnected(account))
           /\ Disconnected(account).departures > 0
           /\ ~ Disconnected(account).interval
<1>1. account.departures \in Nat
    BY DEF AccountRecord
<1>2. PICK older : older = [account EXCEPT !.departures = account.departures + 1]
    OBVIOUS
<1>3. /\ older \in AccountRecord /\ older.index = account.index
      /\ older.departures = account.departures + 1
    BY <1>1, <1>2 DEF AccountRecord
<1>4. Disconnected(account) = [older EXCEPT !.interval = FALSE]
    BY <1>2, Zenon DEF Disconnected
<1>5. PICK new : new = [older EXCEPT !.interval = FALSE]
    OBVIOUS
<1>6. /\ new \in AccountRecord /\ new.index = account.index
      /\ new.departures = account.departures + 1 /\ ~ new.interval
    BY <1>3, <1>5 DEF AccountRecord
<1>7. new.departures > 0 /\ Grown(account, new)
    BY <1>1, <1>6 DEF Grown
<1> QED
    BY <1>4, <1>5, <1>6, <1>7

-----------------------------------------------------------------------------
(* The indexes of the accounts                                             *)

\* The account that was given no index gets an unused one.
LEMMA NextOfTaken ==
    ASSUME TypeOK, IndexBound, UndefinedIsLate
    PROVE  LET next == NextUnusedIndex(Taken)
           IN  \/ next \in Nat /\ next <= 100 + Len(accounts) /\ next \notin Taken
               \/ next = Undefined /\ 0..10 \subseteq Taken
<1> DEFINE bound == 99 + Len(accounts)
<1>1. bound \in Nat /\ Position = 1..Len(accounts)
    BY AccountsType DEF Position
<1>2. \A a \in Position : accounts[a].index \in Nat \cup {Undefined}
    BY AccountsType DEF AccountRecord
<1>3. Taken \in SUBSET (Nat \cup {Undefined})
    BY <1>2 DEF Taken
<1>4. \A i \in Taken : i <= bound
    <2>1. ASSUME NEW a \in Position PROVE accounts[a].index <= bound
        BY <1>1, <1>2, <2>1 DEF IndexBound, Undefined
    <2> QED
        BY <2>1 DEF Taken
<1> HIDE DEF bound
<1>5. PICK next : next = NextUnusedIndex(Taken)
    OBVIOUS
<1>6. \/ next \in 0..bound + 1 /\ next \notin Taken
      \/ next = Undefined /\ 0..10 \subseteq Taken
    BY <1>1, <1>3, <1>4, <1>5, NextIndexIsUnused DEF UndefinedIsLate
<1>7. next \in 0..bound + 1 => next \in Nat /\ next <= 100 + Len(accounts)
    BY <1>1, AccountsType DEF bound
<1> QED
    BY <1>5, <1>6, <1>7

\* No account is added.
LEMMA IndexesKept ==
    ASSUME TypeOK, IndexBound, UndefinedIsLate, OneAccountPerIndex,
           AccountsGrow, Len(accounts') = Len(accounts), UNCHANGED clashing
    PROVE  (IndexBound /\ UndefinedIsLate /\ OneAccountPerIndex)'
<1>1. Position' = Position
    BY AccountsType DEF Position, AccountsGrow
<1>2. \A a \in Position : accounts'[a].index = accounts[a].index
    BY DEF AccountsGrow, Grown
<1>3. Taken' = Taken
    BY <1>1, <1>2 DEF Taken
<1>4. IndexBound'
    BY <1>1, <1>2 DEF IndexBound
<1>5. UndefinedIsLate'
    BY <1>3 DEF UndefinedIsLate
<1>6. OneAccountPerIndex'
    BY <1>1, <1>2, <1>3 DEF OneAccountPerIndex
<1> QED
    BY <1>4, <1>5, <1>6

\* An account is added.
LEMMA IndexAdded ==
    ASSUME TypeOK, IndexBound, UndefinedIsLate, OneAccountPerIndex,
           NEW index \in Nat \cup {Undefined}, Create(index),
           index <= 100 + Len(accounts),
           index = Undefined => 0..10 \subseteq Taken,
           index \in Taken => index = Undefined \/ index \in clashing',
           clashing \subseteq clashing'
    PROVE  (IndexBound /\ UndefinedIsLate /\ OneAccountPerIndex)'
<1> DEFINE new == Len(accounts) + 1
<1>0. accounts' \in Seq(AccountRecord) /\ Len(accounts') = new
    BY CreateStep DEF AccountsGrow
<1>1. Len(accounts) \in Nat /\ Position = 1..Len(accounts) /\ Position' = 1..new
    BY <1>0, AccountsType DEF Position
<1>2. /\ \A a \in Position : accounts'[a].index = accounts[a].index
      /\ accounts'[new].index = index
    BY CreateStep
<1>3. Position' = Position \cup {new} /\ new \notin Position
    BY <1>1
<1> HIDE DEF new
<1>4. Taken' = Taken \cup {index}
    BY <1>2, <1>3 DEF Taken
<1>5. IndexBound'
    <2>1. index <= 99 + new
        BY <1>1, AccountsType DEF new, Undefined
    <2> QED
        BY <1>2, <1>3, <2>1 DEF IndexBound
<1>6. UndefinedIsLate'
    BY <1>4 DEF UndefinedIsLate
<1>7. OneAccountPerIndex'
    <2> DEFINE Accounted(i) == i \in clashing' \/ (i = Undefined /\ 0..10 \subseteq Taken')
    <2>1. ASSUME NEW a \in Position, NEW b \in Position, a # b,
                 accounts'[a].index = accounts'[b].index
          PROVE  Accounted(accounts'[a].index)
        BY <1>2, <1>4, <2>1 DEF OneAccountPerIndex
    <2>2. ASSUME NEW a \in Position, accounts[a].index = index
          PROVE  Accounted(index)
        <3>1. index \in Taken
            BY <2>2 DEF Taken
        <3> QED
            BY <1>4, <3>1
    <2>3. ASSUME NEW a \in Position', NEW b \in Position', a # b,
                 accounts'[a].index = accounts'[b].index
          PROVE  Accounted(accounts'[a].index)
        <3>1. CASE a \in Position /\ b \in Position
            BY <2>1, <2>3, <3>1
        <3>2. CASE a = new
            BY <1>2, <1>3, <2>2, <2>3, <3>2
        <3>3. CASE b = new
            BY <1>2, <1>3, <2>2, <2>3, <3>3
        <3> QED
            BY <1>3, <3>1, <3>2, <3>3
    <2> QED
        BY <2>3 DEF OneAccountPerIndex
<1> QED
    BY <1>5, <1>6, <1>7

-----------------------------------------------------------------------------
(* The steps of the accounts                                               *)

\* What the steps that leave the disconnection alone do to it
LEMMA DepartureKept ==
    ASSUME TypeOK, DisconnectInv, AccountsGrow, UNCHANGED departure
    PROVE  DisconnectInv' /\ (path \in Nat /\ paths \in 0..Len(accounts))'
<1>1. /\ path' = path /\ paths' = paths /\ leaving' = leaving
      /\ path \in Nat /\ paths \in 0..Len(accounts) /\ Len(accounts) \in Nat
      /\ accounts' \in Seq(AccountRecord) /\ Len(accounts) <= Len(accounts')
    BY AccountsType DEF departure, TypeOK, AccountsGrow
<1>2. paths' \in 0..Len(accounts')
    BY <1>1
<1>3. ASSUME NEW a \in 1..paths, a < path
      PROVE  accounts'[a].departures > 0 /\ ~ accounts'[a].interval
    <2>1. a \in Position
        BY <1>1, AccountsType DEF Position
    <2>2. accounts'[a] \in AccountRecord /\ accounts[a] \in AccountRecord
        <3>1. a \in 1..Len(accounts')
            BY <1>1
        <3> QED
            BY <1>1, <2>1, <3>1, AccountsType
    <2>3. accounts[a].departures > 0 /\ ~ accounts[a].interval
        BY <1>3 DEF DisconnectInv
    <2>4. Grown(accounts[a], accounts'[a])
        BY <2>1 DEF AccountsGrow
    <2>5. accounts[a].departures \in Nat /\ accounts'[a].departures \in Nat
        BY <2>2 DEF AccountRecord
    <2> QED
        BY <2>3, <2>4, <2>5 DEF Grown
<1> QED
    BY <1>1, <1>2, <1>3 DEF DisconnectInv

\* A step that changes one account, for the promise and the interval of its
\* creation
LEMMA AccountChanges ==
    ASSUME TypeOK, DisconnectInv, IndexBound, UndefinedIsLate, OneAccountPerIndex,
           NEW a \in Position, NEW new \in AccountRecord, Grown(accounts[a], new),
           accounts' = [accounts EXCEPT ![a] = new],
           UNCHANGED <<opened, departure, clashing>>
    PROVE  AccountsInv' /\ AccountsGrow
<1>1. AccountsGrow /\ Len(accounts') = Len(accounts)
    BY ChangeStep
<1>2. (IndexBound /\ UndefinedIsLate /\ OneAccountPerIndex)'
    BY <1>1, IndexesKept
<1>3. DisconnectInv' /\ (path \in Nat /\ paths \in 0..Len(accounts))'
    BY <1>1, DepartureKept
<1>4. TypeOK'
    BY <1>1, <1>3 DEF TypeOK, AccountsGrow, AccountRecord, departure
<1> QED
    BY <1>1, <1>2, <1>3, <1>4 DEF AccountsInv

\* A step that adds one
LEMMA AccountAdded ==
    ASSUME TypeOK, DisconnectInv, IndexBound, UndefinedIsLate, OneAccountPerIndex,
           NEW index \in Nat \cup {Undefined}, Create(index),
           index <= 100 + Len(accounts),
           index = Undefined => 0..10 \subseteq Taken,
           index \in Taken => index = Undefined \/ index \in clashing',
           clashing \subseteq clashing', clashing' \subseteq Indexes,
           UNCHANGED <<opened, departure>>
    PROVE  AccountsInv' /\ AccountsGrow
<1>1. AccountsGrow
    BY CreateStep
<1>2. (IndexBound /\ UndefinedIsLate /\ OneAccountPerIndex)'
    BY IndexAdded
<1>3. DisconnectInv' /\ (path \in Nat /\ paths \in 0..Len(accounts))'
    BY <1>1, DepartureKept
<1>4. TypeOK'
    BY <1>1, <1>3 DEF TypeOK, AccountsGrow, AccountRecord, departure
<1> QED
    BY <1>1, <1>2, <1>3, <1>4 DEF AccountsInv

\* The readiness interval ends.
LEMMA NoLongerWaiting ==
    ASSUME NEW old \in AccountRecord,
           NEW new \in {[old EXCEPT !.interval = FALSE],
                        [old EXCEPT !.interval = FALSE, !.state = "ready"]}
    PROVE  new \in AccountRecord /\ Grown(old, new)
<1>1. PICK idle : idle = [old EXCEPT !.interval = FALSE]
    OBVIOUS
<1>2. /\ idle \in AccountRecord /\ idle.index = old.index
      /\ idle.departures = old.departures /\ ~ idle.interval
    BY <1>1 DEF AccountRecord
<1>3. [old EXCEPT !.interval = FALSE, !.state = "ready"] = [idle EXCEPT !.state = "ready"]
    BY <1>1 DEF AccountRecord
<1>4. /\ new \in AccountRecord /\ new.index = old.index
      /\ new.departures = old.departures /\ ~ new.interval
    BY <1>1, <1>2, <1>3 DEF AccountRecord
<1>5. old.departures \in Nat
    BY DEF AccountRecord
<1> QED
    BY <1>4, <1>5 DEF Grown

\* The indexes that accounts are asked for by
LEMMA IndexesBounded ==
    ASSUME AccountsAssumption, TypeOK, NEW index \in Indexes
    PROVE  index \in Nat /\ index # Undefined /\ index <= 100 + Len(accounts)
<1>1. index \in 0..99
    BY DEF AccountsAssumption
<1> QED
    BY <1>1, AccountsType DEF Undefined

LEMMA AccountsStep ==
    ASSUME AccountsAssumption, AccountsInv, [Next]_vars
    PROVE  AccountsInv' /\ AccountsGrow
<1>1. TypeOK /\ IndexBound /\ UndefinedIsLate /\ OneAccountPerIndex /\ DisconnectInv
    BY DEF AccountsInv
<1>2. clashing \subseteq Indexes
    BY <1>1 DEF TypeOK
<1>3. CASE CreateAccount
    <2>1. PICK next : next = NextUnusedIndex(Taken)
        OBVIOUS
    <2>2. Create(next) /\ UNCHANGED <<opened, departure, clashing>>
        BY <1>3, <2>1 DEF CreateAccount
    <2>3. \/ next \in Nat /\ next <= 100 + Len(accounts) /\ next \notin Taken
          \/ next = Undefined /\ 0..10 \subseteq Taken
        BY <1>1, <2>1, NextOfTaken
    <2>4. next \in Nat => next # Undefined
        BY DEF Undefined
    <2>5. Undefined <= 100 + Len(accounts)
        BY <1>1, AccountsType DEF Undefined
    <2> QED
        BY <1>1, <1>2, <2>2, <2>3, <2>4, <2>5, AccountAdded
<1>4. ASSUME NEW index \in Indexes, CreateAccountAt(index)
      PROVE  AccountsInv' /\ AccountsGrow
    <2>1. /\ Create(index) /\ UNCHANGED <<opened, departure>>
          /\ clashing' = clashing \cup ({index} \cap Taken)
        BY <1>4 DEF CreateAccountAt
    <2>2. /\ clashing \subseteq clashing' /\ clashing' \subseteq Indexes
          /\ index \in Taken => index \in clashing'
        BY <1>2, <2>1
    <2>3. index \in Nat /\ index # Undefined /\ index <= 100 + Len(accounts)
        BY <1>1, IndexesBounded
    <2> QED
        BY <1>1, <2>1, <2>2, <2>3, AccountAdded
<1>5. ASSUME NEW index \in Indexes, GetAccount(index)
      PROVE  AccountsInv' /\ AccountsGrow
    <2>1. Create(index) /\ index \notin Taken /\ UNCHANGED <<opened, departure, clashing>>
        BY <1>5 DEF GetAccount
    <2>2. index \in Nat /\ index # Undefined /\ index <= 100 + Len(accounts)
        BY <1>1, IndexesBounded
    <2> QED
        BY <1>1, <1>2, <2>1, <2>2, AccountAdded
<1>6. ASSUME NEW a \in Position, BecomesReady(a)
      PROVE  AccountsInv' /\ AccountsGrow
    <2>1. PICK new : new = [accounts[a] EXCEPT !.interval = FALSE, !.state = "ready"]
        OBVIOUS
    <2>2. accounts[a] \in AccountRecord
        BY <1>1, AccountsType
    <2>3. new \in AccountRecord /\ Grown(accounts[a], new)
        BY <2>1, <2>2, NoLongerWaiting
    <2>4. accounts' = [accounts EXCEPT ![a] = new] /\ UNCHANGED <<opened, departure, clashing>>
        BY <1>6, <2>1 DEF BecomesReady
    <2> QED
        BY <1>1, <2>3, <2>4, AccountChanges
<1>7. ASSUME NEW a \in Position, ReadinessThrows(a)
      PROVE  AccountsInv' /\ AccountsGrow
    <2>1. PICK new : new = [accounts[a] EXCEPT !.interval = FALSE]
        OBVIOUS
    <2>2. accounts[a] \in AccountRecord
        BY <1>1, AccountsType
    <2>3. new \in AccountRecord /\ Grown(accounts[a], new)
        BY <2>1, <2>2, NoLongerWaiting
    <2>4. accounts' = [accounts EXCEPT ![a] = new] /\ UNCHANGED <<opened, departure, clashing>>
        BY <1>7, <2>1 DEF ReadinessThrows
    <2> QED
        BY <1>1, <2>3, <2>4, AccountChanges
<1>8. ASSUME NEW a \in Position, CreateRejects(a)
      PROVE  AccountsInv' /\ AccountsGrow
    <2>1. PICK gone : gone = Disconnected(accounts[a])
        OBVIOUS
    <2>2. gone \in AccountRecord /\ Grown(accounts[a], gone) /\ accounts[a] \in AccountRecord
        BY <1>1, <2>1, AccountsType, DisconnectedType
    <2>3. PICK new : /\ new \in {[gone EXCEPT !.state = "failed"],
                                 [accounts[a] EXCEPT !.state = "failed"]}
                     /\ accounts' = [accounts EXCEPT ![a] = new]
        BY <1>8, <2>1 DEF CreateRejects
    <2>4. new \in AccountRecord /\ Grown(accounts[a], new)
        BY <2>2, <2>3 DEF AccountRecord, Grown
    <2>5. UNCHANGED <<opened, departure, clashing>>
        BY <1>8 DEF CreateRejects
    <2> QED
        BY <1>1, <2>3, <2>4, <2>5, AccountChanges
<1>9. ASSUME UNCHANGED <<accounts, opened, clashing>>,
             DisconnectInv', (path \in Nat /\ paths \in 0..Len(accounts))',
             leaving' \in {"no", "storage", "accounts", "done", "failed"}
      PROVE  AccountsInv' /\ AccountsGrow
    <2>1. AccountsGrow /\ Len(accounts') = Len(accounts)
        BY <1>1, <1>9, AccountsStay
    <2>2. (IndexBound /\ UndefinedIsLate /\ OneAccountPerIndex)'
        BY <1>1, <1>9, <2>1, IndexesKept
    <2>3. TypeOK'
        BY <1>1, <1>9 DEF TypeOK
    <2> QED
        BY <1>9, <2>1, <2>2, <2>3 DEF AccountsInv
<1>10. path \in Nat /\ paths \in 0..Len(accounts) /\ Len(accounts) \in Nat
    BY <1>1, AccountsType DEF TypeOK
<1>11. CASE WalletDisconnect
    BY <1>1, <1>9, <1>10, <1>11 DEF WalletDisconnect, DisconnectInv
<1>12. CASE StorageStopped
    <2>1. UNCHANGED <<accounts, opened, clashing>> /\ path' = 1 /\ paths' = Len(accounts)
        BY <1>12 DEF StorageStopped
    <2>2. leaving' = (IF accounts = <<>> THEN "done" ELSE "accounts")
        BY <1>12 DEF StorageStopped
    <2>3. accounts = <<>> <=> Len(accounts) = 0
        BY <1>1, AccountsType
    <2>4. DisconnectInv'
        BY <1>10, <2>1, <2>2, <2>3 DEF DisconnectInv
    <2> QED
        BY <1>9, <1>10, <2>1, <2>2, <2>4
<1>13. CASE AccountDisconnected
    <2>1. leaving = "accounts" /\ path \in 1..paths /\ path \in Position
        BY <1>1, <1>10, <1>13, AccountsType DEF AccountDisconnected, DisconnectInv, Position
    <2>2. PICK gone : gone = Disconnected(accounts[path])
        OBVIOUS
    <2>3. /\ gone \in AccountRecord /\ Grown(accounts[path], gone)
          /\ gone.departures > 0 /\ ~ gone.interval
        BY <1>1, <2>1, <2>2, AccountsType, DisconnectedType
    <2>4. accounts' = [accounts EXCEPT ![path] = gone] /\ UNCHANGED <<opened, paths, clashing>>
        BY <1>13, <2>2 DEF AccountDisconnected
    <2>5. path' = path + 1 /\ leaving' = IF path < paths THEN "accounts" ELSE "done"
        BY <1>13 DEF AccountDisconnected, NextPath
    <2>6. AccountsGrow /\ Len(accounts') = Len(accounts) /\ accounts'[path] = gone
        BY <1>1, <2>1, <2>3, <2>4, ChangeStep
    <2>7. (IndexBound /\ UndefinedIsLate /\ OneAccountPerIndex)'
        BY <1>1, <2>4, <2>6, IndexesKept
    <2>8. TypeOK'
        BY <1>1, <1>10, <2>4, <2>5, <2>6 DEF TypeOK, AccountsGrow, AccountRecord
    <2>9. ASSUME NEW a \in 1..paths, a < path + 1
          PROVE  accounts'[a].departures > 0 /\ ~ accounts'[a].interval
        <3>1. CASE a = path
            BY <2>3, <2>6, <3>1
        <3>2. CASE a # path
            <4>1. a < path /\ a \in Position
                BY <1>1, <1>10, <2>9, <3>2, AccountsType DEF Position
            <4>2. accounts'[a] = accounts[a]
                BY <1>1, <2>4, <3>2, <4>1, AccountsType DEF Position
            <4> QED
                BY <1>1, <4>1, <4>2 DEF DisconnectInv
        <3> QED
            BY <3>1, <3>2
    <2>10. DisconnectInv'
        BY <1>10, <2>1, <2>4, <2>5, <2>9 DEF DisconnectInv
    <2> QED
        BY <2>6, <2>7, <2>8, <2>10 DEF AccountsInv
<1>14. CASE DisconnectFails
    BY <1>1, <1>9, <1>10, <1>14 DEF DisconnectFails, DisconnectInv
<1>15. CASE UNCHANGED vars
    <2>1. UNCHANGED <<accounts, opened, clashing>> /\ leaving' = leaving
          /\ path' = path /\ paths' = paths
        BY <1>15 DEF vars, departure
    <2>2. DisconnectInv'
        BY <1>1, <2>1 DEF DisconnectInv
    <2>3. leaving \in {"no", "storage", "accounts", "done", "failed"}
        BY <1>1 DEF TypeOK
    <2> QED
        BY <1>9, <1>10, <2>1, <2>2, <2>3
<1> QED
    BY <1>3, <1>4, <1>5, <1>6, <1>7, <1>8, <1>11, <1>12, <1>13, <1>14, <1>15 DEF Next

-----------------------------------------------------------------------------
(* The invariant                                                           *)

LEMMA AccountsInit == AccountsAssumption /\ Init => AccountsInv
<1> SUFFICES ASSUME AccountsAssumption, Init PROVE AccountsInv
    OBVIOUS
<1>1. opened \in Nat /\ accounts = [a \in 1..opened |-> Account(a - 1, "ready")]
      /\ leaving = "no" /\ path = 0 /\ paths = 0 /\ clashing = {}
    BY DEF Init, AccountsAssumption
<1>2. ASSUME NEW a \in 1..opened
      PROVE  /\ accounts[a] \in AccountRecord
             /\ accounts[a].index = a - 1 /\ a - 1 \in Nat
    <2>1. a - 1 \in Nat
        BY <1>1
    <2>2. Account(a - 1, "ready") \in AccountRecord /\ Account(a - 1, "ready").index = a - 1
        BY <2>1 DEF Account, AccountRecord
    <2> QED
        BY <1>1, <2>1, <2>2
<1>3. Position = 1..opened
    BY <1>1 DEF Position
<1> HIDE DEF AccountRecord
<1>4. accounts \in Seq(AccountRecord) /\ Len(accounts) = opened
    BY <1>1, <1>2
<1>5. TypeOK
    BY <1>1, <1>4 DEF Init, TypeOK, AccountRecord
<1>6. IndexBound
    <2>1. ASSUME NEW a \in 1..opened PROVE accounts[a].index <= 99 + a
        BY <1>1, <1>2
    <2> QED
        BY <1>3, <2>1 DEF IndexBound
<1>7. UndefinedIsLate
    <2>1. \A a \in Position : accounts[a].index # Undefined
        BY <1>2, <1>3 DEF Undefined
    <2> QED
        BY <2>1 DEF UndefinedIsLate, Taken
<1>8. OneAccountPerIndex
    BY <1>1, <1>2, <1>3 DEF OneAccountPerIndex
<1>9. DisconnectInv
    BY <1>1 DEF DisconnectInv
<1> QED
    BY <1>5, <1>6, <1>7, <1>8, <1>9 DEF AccountsInv

\* What is said of a wait in WaitInv and TimeoutMeansMissing
WaitOK(wait, locks) ==
    /\ wait.account \in Position
    /\ wait.since <= accounts[wait.account].departures
    /\ wait.state = "waiting" /\ wait.tx \in locks =>
           wait.elsewhere \/ accounts[wait.account].departures > wait.since
    /\ wait.state = "timed out" /\ wait.stored =>
           wait.elsewhere \/ accounts[wait.account].departures > wait.since

LEMMA WaitsOK ==
    WaitInv /\ TimeoutMeansMissing <=> \A n \in DOMAIN waits : WaitOK(waits[n], instantLocks)
    BY DEF WaitInv, TimeoutMeansMissing, WaitOK

LEMMA WaitsType ==
    ASSUME LockTypeOK
    PROVE  /\ waits \in Seq(WaitRecord) /\ Len(waits) \in Nat
           /\ \A n \in DOMAIN waits : waits[n] \in WaitRecord
<1>1. waits \in Seq(WaitRecord)
    BY Zenon DEF LockTypeOK, WaitRecord
<1> HIDE DEF WaitRecord
<1>2. Len(waits) \in Nat /\ \A n \in DOMAIN waits : waits[n] \in WaitRecord
    BY <1>1
<1> QED
    BY <1>1, <1>2

\* A wait that does not change, while the accounts go on
LEMMA WaitKept ==
    ASSUME AccountsInv, AccountsGrow, NEW wait \in WaitRecord, NEW locks,
           WaitOK(wait, locks)
    PROVE  WaitOK(wait, locks)'
<1> DEFINE a == wait.account
<1>1. TypeOK /\ a \in Position
    BY DEF AccountsInv, WaitOK
<1>2. a \in Position'
    BY <1>1, AccountsType DEF AccountsGrow, Position
<1>3. accounts[a] \in AccountRecord /\ accounts'[a] \in AccountRecord
    BY <1>1, <1>2, AccountsType DEF AccountsGrow, Position
<1>4. accounts[a].departures \in Nat /\ accounts'[a].departures \in Nat
    BY <1>3 DEF AccountRecord
<1>5. accounts[a].departures <= accounts'[a].departures
    BY <1>1 DEF AccountsGrow, Grown
<1>6. wait.since \in Nat
    BY DEF WaitRecord
<1>7. /\ wait.since <= accounts[a].departures => wait.since <= accounts'[a].departures
      /\ accounts[a].departures > wait.since => accounts'[a].departures > wait.since
    BY <1>4, <1>5, <1>6
<1> QED
    BY <1>2, <1>7, Zenon DEF WaitOK

\* The invariant, from what is said of each wait
LEMMA IInvFrom ==
    ASSUME AccountsInv', waits' \in Seq(WaitRecord), instantLocks' \subseteq Transactions,
           \A n \in DOMAIN waits' : WaitOK(waits[n], instantLocks)'
    PROVE  IInv'
<1>1. LockTypeOK'
    BY Zenon DEF AccountsInv, LockTypeOK, WaitRecord
<1>2. WaitInv' /\ TimeoutMeansMissing'
    BY DEF WaitInv, TimeoutMeansMissing, WaitOK
<1> QED
    BY <1>1, <1>2 DEF IInv

LEMMA LocksStep ==
    ASSUME AccountsAssumption, LocksAssumption, IInv, [LockNext]_lockVars
    PROVE  IInv'
<1>1. /\ AccountsInv /\ TypeOK /\ LockTypeOK /\ instantLocks \subseteq Transactions
      /\ \A n \in DOMAIN waits : WaitOK(waits[n], instantLocks)
    BY WaitsOK DEF IInv, LockTypeOK
<1>2. waits \in Seq(WaitRecord) /\ Len(waits) \in Nat
      /\ \A n \in DOMAIN waits : waits[n] \in WaitRecord
    BY <1>1, WaitsType
<1> HIDE DEF WaitRecord
<1>3. ASSUME [Next]_vars, UNCHANGED <<instantLocks, waits>> PROVE IInv'
    <2>1. AccountsInv' /\ AccountsGrow
        BY <1>1, <1>3, AccountsStep
    <2>2. ASSUME NEW n \in DOMAIN waits PROVE WaitOK(waits[n], instantLocks)'
        <3>1. PICK wait \in WaitRecord : wait = waits[n]
            BY <1>2
        <3>2. PICK locks : locks = instantLocks
            OBVIOUS
        <3>3. WaitOK(wait, locks)'
            BY <1>1, <2>1, <3>1, <3>2, WaitKept
        <3> QED
            BY <1>3, <3>1, <3>2, <3>3
    <2> QED
        BY <1>1, <1>2, <1>3, <2>1, <2>2, IInvFrom
<1>4. ASSUME UNCHANGED vars
      PROVE  AccountsInv' /\ accounts' = accounts /\ Position' = Position
    <2>1. accounts' = accounts
        BY <1>4 DEF vars
    <2> QED
        BY <1>1, <1>4, <2>1, AccountsStep DEF Position
<1>5. ASSUME NEW a \in Position \cap Clients, NEW tx \in Transactions,
             WaitForInstantLock(a, tx)
      PROVE  IInv'
    <2>1. PICK wait : wait = Wait(a, tx, WaitsFor(tx))
        OBVIOUS
    <2>2. /\ waits' = Append(waits, wait)
          /\ UNCHANGED vars /\ instantLocks' = instantLocks
        BY <1>5, <2>1 DEF WaitForInstantLock
    <2>3. /\ wait.account = a /\ wait.tx = tx /\ wait.since = accounts[a].departures
          /\ wait.state = (IF tx \in instantLocks THEN "resolved" ELSE "waiting")
          /\ ~ wait.elsewhere /\ ~ wait.stored
        BY <2>1 DEF Wait, WaitsFor
    <2>4. accounts[a].departures \in Nat /\ a \in Nat
        <3>1. accounts[a] \in AccountRecord
            BY <1>1, AccountsType
        <3> QED
            BY <3>1 DEF AccountRecord, LocksAssumption
    <2>5. wait \in WaitRecord
        BY <2>1, <2>4 DEF Wait, WaitsFor, WaitRecord
    <2>6. waits' \in Seq(WaitRecord) /\ Len(waits') = Len(waits) + 1
          /\ waits'[Len(waits) + 1] = wait
          /\ \A n \in 1..Len(waits) : waits'[n] = waits[n]
        BY <1>2, <2>2, <2>5
    <2>7. ASSUME NEW n \in DOMAIN waits' PROVE WaitOK(waits[n], instantLocks)'
        <3>1. CASE n \in DOMAIN waits
            <4>1. waits'[n] = waits[n] /\ WaitOK(waits[n], instantLocks)
                BY <1>1, <1>2, <2>6, <3>1
            <4> QED
                BY <1>4, <2>2, <4>1 DEF WaitOK
        <3>2. CASE n \notin DOMAIN waits
            <4>1. waits'[n] = wait
                BY <1>2, <2>6, <3>2
            <4>2. wait.since <= accounts[a].departures
                BY <2>3, <2>4
            <4> QED
                BY <1>4, <2>2, <2>3, <4>1, <4>2 DEF WaitOK
        <3> QED
            BY <3>1, <3>2
    <2> QED
        BY <1>1, <1>4, <2>2, <2>6, <2>7, IInvFrom
<1>6. ASSUME NEW a \in Position \cap Clients, NEW tx \in Transactions,
             ImportInstantLock(a, tx)
      PROVE  IInv'
    <2>1. /\ instantLocks' = instantLocks \cup {tx} /\ UNCHANGED vars
          /\ waits' = [n \in DOMAIN waits |->
                 IF Hears(waits[n], a, tx) THEN [waits[n] EXCEPT !.state = "resolved"]
                 ELSE [waits[n] EXCEPT !.elsewhere = waits[n].elsewhere
                           \/ (waits[n].tx = tx /\ waits[n].account # a)]]
        BY <1>6 DEF ImportInstantLock
    <2>2. ASSUME NEW n \in DOMAIN waits
          PROVE  waits'[n] \in WaitRecord /\ WaitOK(waits[n], instantLocks)'
        <3>1. PICK wait \in WaitRecord : wait = waits[n]
            BY <1>2
        <3>2. WaitOK(wait, instantLocks)
            BY <1>1, <3>1
        <3>3. CASE Hears(wait, a, tx)
            <4>1. waits'[n] = [wait EXCEPT !.state = "resolved"]
                BY <2>1, <3>1, <3>3
            <4>2. /\ waits'[n] \in WaitRecord /\ waits'[n].state = "resolved"
                  /\ waits'[n].account = wait.account /\ waits'[n].since = wait.since
                BY <4>1 DEF WaitRecord
            <4> QED
                BY <1>4, <2>1, <3>2, <4>2 DEF WaitOK
        <3>4. CASE ~ Hears(wait, a, tx)
            <4>1. PICK missed \in BOOLEAN :
                      missed = (wait.elsewhere \/ (wait.tx = tx /\ wait.account # a))
                BY DEF WaitRecord
            <4>2. waits'[n] = [wait EXCEPT !.elsewhere = missed]
                BY <2>1, <3>1, <3>4, <4>1
            <4>3. PICK new : new = [wait EXCEPT !.elsewhere = missed]
                OBVIOUS
            <4>4. /\ new \in WaitRecord /\ new.elsewhere = missed /\ new.tx = wait.tx
                  /\ new.account = wait.account /\ new.since = wait.since
                  /\ new.state = wait.state /\ new.stored = wait.stored
                BY <4>3 DEF WaitRecord
            <4>5. wait.since # accounts[wait.account].departures
                      => accounts[wait.account].departures > wait.since
                <5>1. wait.since \in Nat /\ wait.account \in Position
                    BY <3>2 DEF WaitRecord, WaitOK
                <5>2. accounts[wait.account] \in AccountRecord
                    BY <1>1, <5>1, AccountsType
                <5>3. accounts[wait.account].departures \in Nat
                    BY <5>2 DEF AccountRecord
                <5>4. wait.since <= accounts[wait.account].departures
                    BY <3>2, Zenon DEF WaitOK
                <5> QED
                    BY <5>1, <5>3, <5>4
            <4>6. wait.state = "waiting" /\ wait.tx = tx =>
                      missed \/ accounts[wait.account].departures > wait.since
                <5>1. wait.tx = tx /\ wait.account # a => missed
                    BY <4>1
                <5>2. wait.state = "waiting" /\ wait.tx = tx /\ wait.account = a
                          => wait.since # accounts[wait.account].departures
                    BY <3>4 DEF Hears
                <5> QED
                    BY <4>5, <5>1, <5>2, Zenon
            <4>7. wait.elsewhere => missed
                BY <4>1
            <4>8. WaitOK(new, instantLocks \cup {tx})
                BY <3>2, <4>4, <4>6, <4>7, Zenon DEF WaitOK
            <4>9. /\ waits'[n] = new /\ instantLocks' = instantLocks \cup {tx}
                  /\ accounts' = accounts /\ Position' = Position
                BY <1>4, <2>1, <4>2, <4>3
            <4> QED
                BY <4>4, <4>8, <4>9, Zenon DEF WaitOK
        <3> QED
            BY <3>3, <3>4
    <2>3. waits' \in Seq(WaitRecord) /\ DOMAIN waits' = DOMAIN waits
        <3>1. DOMAIN waits = 1..Len(waits)
            BY <1>2
        <3>2. DOMAIN waits' = DOMAIN waits /\ waits' = [n \in DOMAIN waits |-> waits'[n]]
            BY <2>1, Zenon
        <3>3. waits' \in [1..Len(waits) -> WaitRecord]
            BY <2>2, <3>1, <3>2
        <3> QED
            BY <1>2, <3>2, <3>3
    <2> QED
        BY <1>1, <1>4, <2>1, <2>2, <2>3, IInvFrom
<1>7. ASSUME NEW n \in DOMAIN waits, TimedOut(n) PROVE IInv'
    <2>1. PICK wait \in WaitRecord : wait = waits[n]
        BY <1>2
    <2>2. PICK stored \in BOOLEAN : stored = (wait.tx \in instantLocks)
        <3>1. (wait.tx \in instantLocks) = TRUE \/ (wait.tx \in instantLocks) = FALSE
            OBVIOUS
        <3>2. (wait.tx \in instantLocks) \in BOOLEAN
            BY <3>1
        <3> QED
            BY <3>2
    <2>3. PICK new : new = [wait EXCEPT !.state = "timed out", !.stored = stored]
        OBVIOUS
    <2>4. /\ waits' = [waits EXCEPT ![n] = new] /\ wait.state = "waiting"
          /\ UNCHANGED vars /\ instantLocks' = instantLocks
        BY <1>7, <2>1, <2>2, <2>3 DEF TimedOut
    <2>5. /\ new \in WaitRecord /\ new.stored = stored /\ new.state = "timed out"
          /\ new.account = wait.account /\ new.since = wait.since /\ new.tx = wait.tx
          /\ new.elsewhere = wait.elsewhere
        BY <2>3 DEF WaitRecord
    <2>6. WaitOK(new, instantLocks)
        BY <1>1, <2>1, <2>2, <2>4, <2>5 DEF WaitOK
    <2>7. /\ waits' \in Seq(WaitRecord) /\ DOMAIN waits' = DOMAIN waits /\ waits'[n] = new
          /\ \A m \in DOMAIN waits : m # n => waits'[m] = waits[m]
        <3>1. new \in WaitRecord /\ waits' = [waits EXCEPT ![n] = new]
            BY <2>4, <2>5
        <3>2. n \in 1..Len(waits) /\ waits \in Seq(WaitRecord)
            BY <1>2
        <3> QED
            BY <3>1, <3>2
    <2>8. ASSUME NEW m \in DOMAIN waits PROVE WaitOK(waits[m], instantLocks)'
        <3>1. WaitOK(waits'[m], instantLocks)
            BY <1>1, <2>6, <2>7
        <3> QED
            BY <1>4, <2>4, <3>1 DEF WaitOK
    <2> QED
        BY <1>1, <1>4, <2>4, <2>7, <2>8, IInvFrom
<1>8. CASE UNCHANGED lockVars
    BY <1>3, <1>8 DEF lockVars
<1> QED
    BY <1>3, <1>5, <1>6, <1>7, <1>8 DEF LockNext

LEMMA LocksInit == AccountsAssumption /\ LockInit => IInv
<1> SUFFICES ASSUME AccountsAssumption, LockInit PROVE IInv
    OBVIOUS
<1>1. AccountsInv /\ TypeOK
    BY AccountsInit DEF LockInit, AccountsInv
<1>2. instantLocks = {} /\ waits = <<>>
    BY DEF LockInit
<1>3. LockTypeOK
    BY <1>1, <1>2 DEF LockTypeOK
<1>4. WaitInv /\ TimeoutMeansMissing
    BY <1>2 DEF WaitInv, TimeoutMeansMissing
<1> QED
    BY <1>1, <1>3, <1>4 DEF IInv

LEMMA Invariance == LockSpec => []IInv
<1>1. LockInit => IInv
    BY LocksInit, AccountsAssumption
<1>2. IInv /\ [LockNext]_lockVars => IInv'
    BY LocksStep, AccountsAssumption, LocksAssumption
<1> QED
    BY <1>1, <1>2, PTL DEF LockSpec

-----------------------------------------------------------------------------
\* The accounts, the locks and the calls of waitForInstantLock have their types.
THEOREM LocksTypeCorrect == LockSpec => []LockTypeOK
<1>1. IInv => LockTypeOK
    BY DEF IInv
<1> QED
    BY <1>1, Invariance, PTL

\* Two accounts have one index only if createAccount was asked for it, or when
\* 0 to 10 are all taken: getAccount and createAccount may overlap in any way.
THEOREM IndexesDiffer == LockSpec => []OneAccountPerIndex
<1>1. IInv => OneAccountPerIndex
    BY DEF IInv, AccountsInv
<1> QED
    BY <1>1, Invariance, PTL

\* When Wallet.disconnect resolves, every account that there was when the
\* storage stopped is disconnected, and none of them can become ready.
THEOREM DisconnectIsComplete == LockSpec => []DisconnectReachesAll
<1>1. IInv => DisconnectReachesAll
    <2> SUFFICES ASSUME IInv, leaving = "done", NEW a \in 1..paths
                 PROVE  accounts[a].departures > 0 /\ ~ accounts[a].interval
        BY DEF DisconnectReachesAll
    <2>1. path = paths + 1 /\ paths \in Nat
        BY DEF IInv, AccountsInv, DisconnectInv, TypeOK
    <2> QED
        BY <2>1 DEF IInv, AccountsInv, DisconnectInv
<1> QED
    BY <1>1, Invariance, PTL

\* waitForInstantLock times out with the lock in the store only if another
\* account imported it, or its own did after it had been disconnected.
THEOREM TimeoutsMissed == LockSpec => []TimeoutMeansMissing
<1>1. IInv => TimeoutMeansMissing
    BY DEF IInv
<1> QED
    BY <1>1, Invariance, PTL
=============================================================================
