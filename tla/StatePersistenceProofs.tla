----------------------- MODULE StatePersistenceProofs -----------------------
(***************************************************************************)
(* StatePersistence for any transactions, any gap and any number of saves, *)
(* failures and restarts.                                                  *)
(***************************************************************************)
EXTENDS StatePersistence, SequenceTheorems, FiniteSetTheorems, TLAPS

(***************************************************************************)
(* The invariant's parts are operators of values, so that what a part of   *)
(* the store, a saved item or the disk holds is spoken of alike.  free are *)
(* the exposed transactions, missed the ones passed.                       *)
(***************************************************************************)

\* An address object is used only if something pays its address, its balance
\* is what its UTXOs are worth, and it lists what it holds.
GoodObject(a, object, free) ==
    /\ object.used => \E t \in Tx : a \in Pays[t]
    /\ \/ object.balanceSat = Cardinality(object.utxos)
       \/ object.utxos \cap free # {}
    /\ \A t \in object.utxos : Lists(object, t) \/ t \in free

GoodObjects(addresses, free) ==
    /\ DOMAIN addresses \in SUBSET Address
    /\ addresses \in [DOMAIN addresses -> AddressObject]
    /\ \A a \in DOMAIN addresses : GoodObject(a, addresses[a], free)

GoodWallets(wallets, free, missed) ==
    /\ wallets = [addresses |-> wallets.addresses, blockHeight |-> wallets.blockHeight]
    /\ GoodObjects(wallets.addresses, free)
    /\ wallets.blockHeight \in {0} \cup Tx
    /\ \A t \in Tx :
        t <= wallets.blockHeight /\ Pays[t] \cap DOMAIN wallets.addresses = {} => t \in missed

\* What a wallets part has taken in is among some transactions.
Claims(wallets, t, missed) ==
    \/ Listed(wallets, t)
    \/ /\ t <= wallets.blockHeight /\ t \notin missed
       /\ Pays[t] \cap DOMAIN wallets.addresses # {}
Backed(wallets, transactions, free, missed) ==
    \A t \in Tx \ free : Claims(wallets, t, missed) => t \in transactions

\* A save's value is what the store held, and the store has grown only by
\* exposed transactions since; a save that has written its transactions has
\* left all of the others on the disk.
IsSave(call) == call.frame # "configure"
GoodSave(call, transactions, saved, free, missed) ==
    /\ call.step \in 1..4
    /\ call.step = 1 => /\ call.value \subseteq transactions
                        /\ transactions \ free \subseteq call.value
    /\ call.step = 2 => /\ GoodWallets(call.value, free, missed)
                        /\ Backed(call.value, transactions, free, missed)
    /\ call.step > 1 => transactions \ free \subseteq saved

\* The calls that are pending, of which at most one is configure()'s
Pending(queue) == {queue[i] : i \in DOMAIN queue}
Single(queue) ==
    \A i, j \in DOMAIN queue : ~IsSave(queue[i]) /\ ~IsSave(queue[j]) => i = j

Values ==
    (SUBSET Tx)
    \cup UNION {[addresses : [known -> AddressObject], blockHeight : {0} \cup Tx] :
                    known \in SUBSET Address}
CallRecord ==
    [frame : {"configure", "interval", "disconnect"}, step : 0..4, value : Values]

-----------------------------------------------------------------------------
(* The strengthened invariant *)

Configs == {"adapter", "unusable", "reading", "failed", "done"}
AllExposed == Tx \subseteq exposed

Typing ==
    /\ store = [transactions |-> store.transactions, wallets |-> store.wallets]
    /\ store.transactions \in SUBSET Tx
    /\ mapped \in SUBSET DOMAIN store.wallets.addresses
    /\ dirty \in BOOLEAN /\ timer \in BOOLEAN
    /\ config \in Configs
    /\ DOMAIN read \in SUBSET Content /\ DOMAIN disk \in SUBSET Content
    /\ "transactions" \in DOMAIN read => read.transactions \in SUBSET Tx
    /\ "transactions" \in DOMAIN disk => disk.transactions \in SUBSET Tx
    /\ calls \in Seq(CallRecord)
    /\ account \in {"none", "open", "closed"}
    /\ exposed \in SUBSET Tx /\ passed \in SUBSET Tx

\* The wallets parts in the store, on the disk and read from it
GoodParts ==
    /\ GoodWallets(store.wallets, exposed, passed)
    /\ "wallets" \in DOMAIN disk => GoodWallets(disk.wallets, exposed, passed)
    /\ "wallets" \in DOMAIN read => GoodWallets(read.wallets, exposed, passed)

StoreBacked == Backed(store.wallets, store.transactions, exposed, passed)
DiskBacked ==
    "wallets" \in DOMAIN disk => Backed(disk.wallets, SavedTransactions, exposed, passed)

\* A save of a store that was not rehydrated exposes everything.
SavesOK ==
    \A call \in Pending(calls) : IsSave(call) =>
        /\ Rehydrated \/ AllExposed
        /\ GoodSave(call, store.transactions, SavedTransactions, exposed, passed)

\* configure()'s call is pending only before it has ended, and it has read what the disk has of
\* the parts before it, unless everything is exposed.
ConfigureOK ==
    \A call \in Pending(calls) : ~IsSave(call) =>
        /\ config \in {"adapter", "reading"}
        /\ call.step = 0 <=> config = "adapter"
        /\ ~AllExposed =>
            /\ call.step > 1 /\ "transactions" \in DOMAIN disk => "transactions" \in DOMAIN read
            /\ call.step > 2 /\ "wallets" \in DOMAIN disk => "wallets" \in DOMAIN read
OneConfigure == Single(calls)

\* What an account takes in before the rehydration is exposed.
OnlyFree(addresses, free) ==
    \A a \in DOMAIN addresses : \A t \in Tx :
        t \in addresses[a].utxos \/ Lists(addresses[a], t) => t \in free
EarlyIsExposed == ~Rehydrated => OnlyFree(store.wallets.addresses, exposed)

\* Nothing is written while the disk is read, unless everything is exposed.
ReadIsDisk ==
    /\ DOMAIN read \subseteq DOMAIN disk
    /\ ~AllExposed => \A part \in DOMAIN read : read[part] = disk[part]
    /\ Rehydrated => DOMAIN read = {}

\* A rehydrated store has what the disk has.
SavedIsKnown ==
    Rehydrated /\ ~AllExposed => SavedTransactions \ exposed \subseteq store.transactions

IInv ==
    /\ Typing
    /\ GoodParts
    /\ StoreBacked
    /\ DiskBacked
    /\ SavesOK
    /\ ConfigureOK
    /\ OneConfigure
    /\ EarlyIsExposed
    /\ ReadIsDisk
    /\ SavedIsKnown
    /\ CreditIsSavedOrPending

-----------------------------------------------------------------------------
(* Transactions, addresses and parts *)

\* Transactions are numbered from one, and there are finitely many.
LEMMA TxFacts ==
    /\ Tx = 1..Len(Pays) /\ Len(Pays) \in Nat
    /\ Tx \subseteq Nat /\ 0 \notin Tx
    /\ IsFiniteSet(Tx)
    /\ \A t \in Tx : Pays[t] \subseteq Nat
<1>1. Tx = 1..Len(Pays) /\ Len(Pays) \in Nat /\ \A t \in Tx : Pays[t] \in SUBSET Nat
    BY PaysAssumption DEF Tx
<1>2. IsFiniteSet(1..Len(Pays))
    BY <1>1, FS_Interval
<1> QED
    BY <1>1, <1>2

\* The order of the parts
LEMMA OrderFacts ==
    /\ Len(Order) = 4
    /\ Order[1] = "transactions" /\ Order[2] = "wallets"
    /\ Order[3] = "chains" /\ Order[4] = "instantLocks"
    /\ Content = {"transactions", "wallets"}
    /\ Order[1] \in Content /\ Order[2] \in Content
    /\ Order[3] \notin Content /\ Order[4] \notin Content
BY DEF Order, Content

\* A good wallets part has the type the store's part has.
LEMMA GoodWalletsType ==
    ASSUME NEW wallets, NEW free, NEW missed, GoodWallets(wallets, free, missed)
    PROVE  IsWallets(wallets) /\ wallets \in Values
<1> DEFINE known == DOMAIN wallets.addresses
<1>1. known \in SUBSET Address
    BY DEF GoodWallets, GoodObjects
<1>2. wallets \in [addresses : [known -> AddressObject], blockHeight : {0} \cup Tx]
    BY DEF GoodWallets, GoodObjects
<1> QED
    BY <1>1, <1>2 DEF IsWallets, Values

\* What is good stays good when more is exposed or passed.
LEMMA GoodWalletsStay ==
    ASSUME NEW wallets, NEW free, NEW missed, NEW free2, NEW missed2,
           free \subseteq free2, missed \subseteq missed2,
           GoodWallets(wallets, free, missed)
    PROVE  GoodWallets(wallets, free2, missed2)
<1>1. \A a \in DOMAIN wallets.addresses : GoodObject(a, wallets.addresses[a], free2)
    BY DEF GoodWallets, GoodObjects, GoodObject
<1> QED
    BY <1>1 DEF GoodWallets, GoodObjects

LEMMA BackedStays ==
    ASSUME NEW wallets, NEW free, NEW missed, NEW free2, NEW missed2,
           NEW transactions, NEW transactions2,
           free \subseteq free2, missed \subseteq missed2,
           transactions \ free2 \subseteq transactions2,
           Backed(wallets, transactions, free, missed)
    PROVE  Backed(wallets, transactions2, free2, missed2)
BY DEF Backed, Claims

LEMMA GoodSaveStays ==
    ASSUME NEW call, NEW free, NEW missed, NEW free2, NEW missed2,
           NEW transactions, NEW transactions2, NEW saved, NEW saved2,
           free \subseteq free2, missed \subseteq missed2,
           transactions \subseteq transactions2,
           transactions2 \ free2 \subseteq transactions,
           saved \ free2 \subseteq saved2,
           GoodSave(call, transactions, saved, free, missed)
    PROVE  GoodSave(call, transactions2, saved2, free2, missed2)
<1>1. CASE call.step = 2
    <2>1. GoodWallets(call.value, free2, missed2)
        BY <1>1, GoodWalletsStay DEF GoodSave
    <2>2. transactions \ free2 \subseteq transactions2
        OBVIOUS
    <2>3. Backed(call.value, transactions2, free2, missed2)
        BY <1>1, <2>2, BackedStays DEF GoodSave
    <2> QED
        BY <1>1, <2>1, <2>3 DEF GoodSave
<1>2. CASE call.step # 2
    BY <1>2 DEF GoodSave
<1> QED
    BY <1>1, <1>2

-----------------------------------------------------------------------------
(* The adapter's queue of calls *)

\* A call that is made is added to the pending ones.
LEMMA AppendPending ==
    ASSUME NEW S, NEW queue \in Seq(S), NEW call \in S
    PROVE  /\ Append(queue, call) \in Seq(S)
           /\ Pending(Append(queue, call)) = Pending(queue) \cup {call}
<1> DEFINE longer == Append(queue, call)
<1>1. /\ longer \in Seq(S) /\ Len(queue) \in Nat /\ Len(longer) = Len(queue) + 1
      /\ \A i \in 1..Len(queue) : longer[i] = queue[i]
      /\ longer[Len(queue) + 1] = call
    BY AppendProperties
<1>2. DOMAIN queue = 1..Len(queue) /\ DOMAIN longer = 1..(Len(queue) + 1)
    BY <1>1
<1>3. DOMAIN longer = DOMAIN queue \cup {Len(queue) + 1}
    BY <1>1, <1>2
<1> HIDE DEF longer
<1>4. Pending(longer) = Pending(queue) \cup {call}
    BY <1>1, <1>2, <1>3 DEF Pending
<1> QED
    BY <1>1, <1>4 DEF longer

\* A call that is served leaves the others pending.
LEMMA TailPending ==
    ASSUME NEW S, NEW queue \in Seq(S), queue # <<>>
    PROVE  /\ Tail(queue) \in Seq(S) /\ Head(queue) \in S
           /\ Head(queue) \in Pending(queue)
           /\ Pending(Tail(queue)) \subseteq Pending(queue)
<1>1. /\ Head(queue) = queue[1] /\ Len(queue) \in Nat /\ Len(queue) > 0
      /\ Head(queue) \in S
      /\ Tail(queue) \in Seq(S) /\ Len(Tail(queue)) = Len(queue) - 1
      /\ \A i \in 1..Len(Tail(queue)) : Tail(queue)[i] = queue[i + 1]
    BY HeadTailProperties
<1>2. 1 \in DOMAIN queue
    BY <1>1
<1>3. ASSUME NEW i \in DOMAIN Tail(queue)
      PROVE  i + 1 \in DOMAIN queue /\ Tail(queue)[i] = queue[i + 1]
    BY <1>1
<1> QED
    BY <1>1, <1>2, <1>3 DEF Pending

\* When configure()'s only call is served, only saves are pending.
LEMMA TailSingle ==
    ASSUME NEW S, NEW queue \in Seq(S), queue # <<>>, Single(queue)
    PROVE  /\ Single(Tail(queue))
           /\ ~IsSave(Head(queue)) => \A call \in Pending(Tail(queue)) : IsSave(call)
<1>1. /\ Head(queue) = queue[1] /\ Len(queue) \in Nat /\ Len(queue) > 0
      /\ Tail(queue) \in Seq(S) /\ Len(Tail(queue)) = Len(queue) - 1
      /\ \A i \in 1..Len(Tail(queue)) : Tail(queue)[i] = queue[i + 1]
    BY HeadTailProperties
<1>2. 1 \in DOMAIN queue
    BY <1>1
<1>3. ASSUME NEW i \in DOMAIN Tail(queue)
      PROVE  /\ i \in Nat /\ i + 1 \in DOMAIN queue /\ i + 1 # 1
             /\ Tail(queue)[i] = queue[i + 1]
    BY <1>1
<1>4. Single(Tail(queue))
    <2> SUFFICES ASSUME NEW i \in DOMAIN Tail(queue), NEW j \in DOMAIN Tail(queue),
                        ~IsSave(Tail(queue)[i]), ~IsSave(Tail(queue)[j])
                 PROVE  i = j
        BY DEF Single
    <2>1. ~IsSave(queue[i + 1]) /\ ~IsSave(queue[j + 1])
        BY <1>3
    <2>2. i + 1 = j + 1
        BY <1>3, <2>1 DEF Single
    <2> QED
        BY <1>3, <2>2
<1>5. ASSUME ~IsSave(Head(queue)), NEW call \in Pending(Tail(queue)) PROVE IsSave(call)
    <2>1. PICK i \in DOMAIN Tail(queue) : call = Tail(queue)[i]
        BY DEF Pending
    <2>2. i + 1 \in DOMAIN queue /\ i + 1 # 1 /\ call = queue[i + 1]
        BY <1>3, <2>1
    <2>3. ~IsSave(queue[1])
        BY <1>1, <1>5
    <2> QED
        BY <1>2, <2>2, <2>3 DEF Single
<1> QED
    BY <1>4, <1>5

\* A further save changes nothing about configure()'s call, and a call of
\* configure() is the only one when there is none yet.
LEMMA AppendSingle ==
    ASSUME NEW S, NEW queue \in Seq(S), NEW call \in S, Single(queue),
           IsSave(call) \/ \A other \in Pending(queue) : IsSave(other)
    PROVE  Single(Append(queue, call))
<1> DEFINE longer == Append(queue, call)
<1>1. /\ longer \in Seq(S) /\ Len(queue) \in Nat /\ Len(longer) = Len(queue) + 1
      /\ \A i \in 1..Len(queue) : longer[i] = queue[i]
      /\ longer[Len(queue) + 1] = call
    BY AppendProperties
<1>2. DOMAIN queue = 1..Len(queue) /\ DOMAIN longer = 1..(Len(queue) + 1)
    BY <1>1
<1>3. DOMAIN longer = DOMAIN queue \cup {Len(queue) + 1}
    BY <1>1, <1>2
<1> HIDE DEF longer
<1>4. \A i \in DOMAIN queue : longer[i] = queue[i] /\ queue[i] \in Pending(queue)
    BY <1>1, <1>2 DEF Pending
<1>5. Single(longer)
    BY <1>1, <1>3, <1>4 DEF Single
<1> QED
    BY <1>5 DEF longer

\* What a call of the adapter is: the step it is at and, for a save, what the
\* store holds of the part.
LEMMA CallFacts ==
    ASSUME IInv, NEW frame \in {"configure", "interval", "disconnect"}, NEW step \in 1..4
    PROVE  /\ Call(frame, step) \in CallRecord
           /\ Call(frame, step).frame = frame /\ Call(frame, step).step = step
           /\ frame # "configure" /\ step = 1 => Call(frame, step).value = store.transactions
           /\ frame # "configure" /\ step = 2 => Call(frame, step).value = store.wallets
<1>1. store.transactions \in Values /\ store.wallets \in Values /\ {} \in Values
    BY GoodWalletsType DEF IInv, Typing, GoodParts, Values
<1>2. Call(frame, step) = [frame |-> frame, step |-> step, value |-> Call(frame, step).value]
    BY DEF Call
<1>3. Call(frame, step).value \in Values
    BY <1>1, OrderFacts DEF Call
<1>4. Call(frame, step) \in CallRecord
    BY <1>2, <1>3 DEF CallRecord
<1> QED
    BY <1>4, OrderFacts DEF Call

-----------------------------------------------------------------------------
(* Address objects *)

\* An address object as a record, and the other way round
LEMMA ObjectFields ==
    ASSUME NEW object \in AddressObject
    PROVE  /\ object.used \in BOOLEAN /\ object.transactions \in Seq(Tx)
           /\ object.utxos \in SUBSET Tx /\ object.balanceSat \in Nat
BY DEF AddressObject

\* A fresh address object is good and lists nothing.
LEMMA FreshObject ==
    /\ FreshAddress \in AddressObject
    /\ FreshAddress.utxos = {}
    /\ \A t \in Tx : ~Lists(FreshAddress, t)
    /\ \A a, free : GoodObject(a, FreshAddress, free)
<1>1. FreshAddress \in AddressObject
    BY DEF FreshAddress, AddressObject
<1>2. FreshAddress.utxos = {} /\ FreshAddress.transactions = <<>>
         /\ FreshAddress.balanceSat = 0 /\ FreshAddress.used = FALSE
    BY DEF FreshAddress
<1>3. \A t : ~Lists(FreshAddress, t)
    BY <1>2 DEF Lists
<1>4. Cardinality({}) = 0
    BY FS_EmptySet
<1> QED
    BY <1>1, <1>2, <1>3, <1>4 DEF GoodObject

\* Crediting an output lists the transaction, holds the output, and keeps the
\* object good.
LEMMA CreditedObject ==
    ASSUME NEW object \in AddressObject, NEW t \in Tx, NEW a, NEW free,
           GoodObject(a, object, free), a \in Pays[t]
    PROVE  /\ Credited(object, t) \in AddressObject
           /\ GoodObject(a, Credited(object, t), free)
           /\ Credited(object, t).utxos = object.utxos \cup {t}
           /\ \A u : Lists(Credited(object, t), u) <=> Lists(object, u) \/ u = t
<1> DEFINE new == Credited(object, t)
<1>1. /\ object.used \in BOOLEAN /\ object.transactions \in Seq(Tx)
      /\ object.utxos \in SUBSET Tx /\ object.balanceSat \in Nat
    BY ObjectFields
<1>2. /\ new.used = TRUE
      /\ new.transactions = Append(object.transactions, t)
      /\ new.utxos = object.utxos \cup {t}
      /\ new.balanceSat = object.balanceSat + (IF t \in object.utxos THEN 0 ELSE 1)
    BY DEF Credited
<1>3. /\ new.transactions \in Seq(Tx) /\ Len(object.transactions) \in Nat
      /\ Len(new.transactions) = Len(object.transactions) + 1
      /\ \A i \in 1..Len(object.transactions) : new.transactions[i] = object.transactions[i]
      /\ new.transactions[Len(object.transactions) + 1] = t
    BY <1>1, <1>2, AppendProperties
<1>4. new \in AddressObject
    <2>a. new.used \in BOOLEAN
        BY <1>2
    <2>b. new.transactions \in Seq(Tx) /\ new.utxos \in SUBSET Tx /\ new.balanceSat \in Nat
        BY <1>1, <1>2, <1>3
    <2>1. /\ new.used \in BOOLEAN /\ new.transactions \in Seq(Tx)
          /\ new.utxos \in SUBSET Tx /\ new.balanceSat \in Nat
        BY <2>a, <2>b
    <2>2. new = [used |-> new.used, transactions |-> new.transactions, utxos |-> new.utxos,
                 balanceSat |-> new.balanceSat]
        BY DEF Credited
    <2> HIDE DEF new
    <2> QED
        BY <2>1, <2>2 DEF AddressObject
<1> HIDE DEF new
<1>5. \A u : Lists(new, u) <=> Lists(object, u) \/ u = t
    <2> TAKE u
    <2>1. /\ DOMAIN object.transactions = 1..Len(object.transactions)
          /\ DOMAIN new.transactions = 1..(Len(object.transactions) + 1)
        BY <1>1, <1>3
    <2>2. ASSUME Lists(new, u) PROVE Lists(object, u) \/ u = t
        <3>1. PICK i \in DOMAIN new.transactions : new.transactions[i] = u
            BY <2>2 DEF Lists
        <3>2. i = Len(object.transactions) + 1 \/ i \in 1..Len(object.transactions)
            BY <1>3, <2>1
        <3> QED
            BY <1>3, <2>1, <3>1, <3>2 DEF Lists
    <2>3. ASSUME Lists(object, u) PROVE Lists(new, u)
        <3>1. PICK i \in DOMAIN object.transactions : object.transactions[i] = u
            BY <2>3 DEF Lists
        <3>2. i \in 1..Len(object.transactions) /\ i \in DOMAIN new.transactions
            BY <1>3, <2>1
        <3> QED
            BY <1>3, <3>1, <3>2 DEF Lists
    <2>4. Lists(new, t)
        <3>1. Len(object.transactions) + 1 \in DOMAIN new.transactions
            BY <1>3, <2>1
        <3> QED
            BY <1>3, <3>1 DEF Lists
    <2> QED
        BY <2>2, <2>3, <2>4
<1>6. GoodObject(a, new, free)
    <2>1. IsFiniteSet(object.utxos)
        BY <1>1, TxFacts, FS_Subset
    <2>2. /\ Cardinality(object.utxos) \in Nat
          /\ t \in object.utxos => Cardinality(new.utxos) = Cardinality(object.utxos)
          /\ t \notin object.utxos => Cardinality(new.utxos) = Cardinality(object.utxos) + 1
        BY <1>2, <2>1, FS_CardinalityType, FS_AddElement
    <2>3. \/ new.balanceSat = Cardinality(new.utxos)
          \/ new.utxos \cap free # {}
        BY <1>1, <1>2, <2>2 DEF GoodObject
    <2>4. \A u \in new.utxos : Lists(new, u) \/ u \in free
        BY <1>2, <1>5 DEF GoodObject
    <2> QED
        BY <2>3, <2>4 DEF GoodObject
<1> QED
    BY <1>2, <1>4, <1>5, <1>6 DEF new

\* What is behind some position of a sequence is of the sequence.
LEMMA SuffixElements ==
    ASSUME NEW S, NEW seq \in Seq(S), NEW front \in Nat
    PROVE  /\ SubSeq(seq, front + 1, Len(seq)) \in Seq(S)
           /\ \A i \in DOMAIN SubSeq(seq, front + 1, Len(seq)) :
                \E j \in DOMAIN seq : SubSeq(seq, front + 1, Len(seq))[i] = seq[j]
<1> DEFINE rest == SubSeq(seq, front + 1, Len(seq))
<1>1. Len(seq) \in Nat /\ DOMAIN seq = 1..Len(seq) /\ \A i \in DOMAIN seq : seq[i] \in S
    OBVIOUS
<1>2. CASE front + 1 <= Len(seq)
    <2>1. \A i \in (front + 1)..Len(seq) : seq[i] \in S
        BY <1>1
    <2>2. rest \in Seq(S) /\ Len(rest) = Len(seq) - front
             /\ \A i \in 1..Len(rest) : rest[i] = seq[front + i]
        BY <1>1, <1>2, <2>1
    <2> HIDE DEF rest
    <2>3. ASSUME NEW i \in DOMAIN rest PROVE \E j \in DOMAIN seq : rest[i] = seq[j]
        <3>1. i \in 1..Len(rest) /\ front + i \in DOMAIN seq
            BY <1>1, <1>2, <2>2
        <3> QED
            BY <2>2, <3>1
    <2> QED
        BY <2>2, <2>3 DEF rest
<1>3. CASE ~(front + 1 <= Len(seq))
    <2>1. rest = <<>>
        BY <1>1, <1>3, SubSeqEmpty
    <2> HIDE DEF rest
    <2>2. rest \in Seq(S) /\ DOMAIN rest = {}
        BY <2>1
    <2> QED
        BY <2>2 DEF rest
<1> QED
    BY <1>2, <1>3

\* The merge of two address objects holds what either holds, keeps the list of
\* the second, and adds to it only what the first lists.  It is good when the
\* second is and all that the first holds is exposed.
LEMMA MergedObject ==
    ASSUME NEW ours \in AddressObject, NEW theirs \in AddressObject, NEW a, NEW free,
           GoodObject(a, theirs, free),
           \A t \in ours.utxos : t \in free
    PROVE  /\ MergedAddress(ours, theirs) \in AddressObject
           /\ GoodObject(a, MergedAddress(ours, theirs), free)
           /\ MergedAddress(ours, theirs).utxos = ours.utxos \cup theirs.utxos
           /\ \A t : Lists(MergedAddress(ours, theirs), t) => Lists(ours, t) \/ Lists(theirs, t)
<1> DEFINE new == MergedAddress(ours, theirs)
           rest == SubSeq(ours.transactions, Len(theirs.transactions) + 1,
                          Len(ours.transactions))
<1>1. /\ ours.used \in BOOLEAN /\ ours.transactions \in Seq(Tx)
      /\ ours.utxos \in SUBSET Tx /\ ours.balanceSat \in Nat
      /\ theirs.used \in BOOLEAN /\ theirs.transactions \in Seq(Tx)
      /\ theirs.utxos \in SUBSET Tx /\ theirs.balanceSat \in Nat
    BY ObjectFields
<1>2. /\ new.used = theirs.used
      /\ new.transactions = theirs.transactions \o rest
      /\ new.utxos = ours.utxos \cup theirs.utxos
      /\ new.balanceSat = theirs.balanceSat
    BY DEF MergedAddress
<1>3. new = [used |-> new.used, transactions |-> new.transactions, utxos |-> new.utxos,
             balanceSat |-> new.balanceSat]
    BY DEF MergedAddress
<1> HIDE DEF new
<1>4. /\ rest \in Seq(Tx) /\ Len(rest) \in Nat
      /\ \A i \in DOMAIN rest : \E j \in DOMAIN ours.transactions :
            rest[i] = ours.transactions[j]
    <2>1. Len(theirs.transactions) \in Nat
        BY <1>1
    <2>2. ours.transactions \in Seq(Tx)
        BY <1>1
    <2>3. /\ rest \in Seq(Tx)
          /\ \A i \in DOMAIN rest : \E j \in DOMAIN ours.transactions :
                rest[i] = ours.transactions[j]
        BY <2>1, <2>2, SuffixElements
    <2> HIDE DEF rest
    <2> QED
        BY <2>3
<1> HIDE DEF rest
<1>5. /\ new.transactions \in Seq(Tx) /\ Len(theirs.transactions) \in Nat
      /\ Len(new.transactions) = Len(theirs.transactions) + Len(rest)
      /\ \A i \in 1..Len(new.transactions) : new.transactions[i] =
            IF i <= Len(theirs.transactions) THEN theirs.transactions[i]
            ELSE rest[i - Len(theirs.transactions)]
    BY <1>1, <1>2, <1>4, ConcatProperties
<1>6. new \in AddressObject
    <2>1. new.used \in BOOLEAN /\ new.utxos \in SUBSET Tx /\ new.balanceSat \in Nat
        BY <1>1, <1>2
    <2> QED
        BY <1>3, <1>5, <2>1 DEF AddressObject
<1>7. ASSUME NEW t, Lists(new, t) PROVE Lists(ours, t) \/ Lists(theirs, t)
    <2>1. PICK i \in DOMAIN new.transactions : new.transactions[i] = t
        BY <1>7 DEF Lists
    <2>a. i \in 1..Len(new.transactions)
        BY <1>5
    <2>2. CASE i <= Len(theirs.transactions)
        <3>0. DOMAIN theirs.transactions = 1..Len(theirs.transactions)
            BY <1>1
        <3>1. i \in DOMAIN theirs.transactions
            BY <1>5, <2>a, <2>2, <3>0
        <3>2. theirs.transactions[i] = t
            BY <1>5, <2>a, <2>1, <2>2
        <3> QED
            BY <3>1, <3>2 DEF Lists
    <2>3. CASE ~(i <= Len(theirs.transactions))
        <3>1. i - Len(theirs.transactions) \in DOMAIN rest
            BY <1>4, <1>5, <2>1, <2>3
        <3>2. t = rest[i - Len(theirs.transactions)]
            BY <1>5, <2>a, <2>1, <2>3
        <3>3. \E j \in DOMAIN ours.transactions : t = ours.transactions[j]
            BY <1>4, <3>1, <3>2
        <3> QED
            BY <3>3 DEF Lists
    <2> QED
        BY <2>2, <2>3
<1>8. ASSUME NEW t, Lists(theirs, t) PROVE Lists(new, t)
    <2>1. PICK i \in DOMAIN theirs.transactions : theirs.transactions[i] = t
        BY <1>8 DEF Lists
    <2>2. i \in 1..Len(theirs.transactions) /\ i \in DOMAIN new.transactions
        BY <1>1, <1>4, <1>5
    <2>3. new.transactions[i] = t
        BY <1>4, <1>5, <2>1, <2>2
    <2> QED
        BY <2>2, <2>3 DEF Lists
<1>9. GoodObject(a, new, free)
    <2>1. \/ new.balanceSat = Cardinality(new.utxos)
          \/ new.utxos \cap free # {}
        <3>1. CASE ours.utxos = {}
            <4>1. new.utxos = theirs.utxos
                BY <1>2, <3>1
            <4> QED
                BY <1>2, <4>1 DEF GoodObject
        <3>2. CASE ours.utxos # {}
            BY <1>2, <3>2
        <3> QED
            BY <3>1, <3>2
    <2>2. \A t \in new.utxos : Lists(new, t) \/ t \in free
        BY <1>2, <1>8 DEF GoodObject
    <2> QED
        BY <1>2, <2>1, <2>2 DEF GoodObject
<1> QED
    BY <1>2, <1>6, <1>7, <1>9 DEF new

-----------------------------------------------------------------------------
(* The wallets part *)

\* The addresses derived ahead of used ones are addresses of the model.
LEMMA AheadIsAddress ==
    ASSUME NEW addresses,
           \A a \in DOMAIN addresses : addresses[a].used => \E t \in Tx : a \in Pays[t]
    PROVE  Ahead(addresses) \in SUBSET Address
<1> SUFFICES ASSUME NEW a \in Ahead(addresses) PROVE a \in Address
    OBVIOUS
<1>1. PICK last \in {0} \cup {b \in DOMAIN addresses : addresses[b].used} : a \in 1..last + Gap
    BY DEF Ahead
<1>2. last \in {0} \cup UNION {Pays[t] : t \in Tx}
    OBVIOUS
<1> QED
    BY <1>1, <1>2 DEF Address

\* Deriving addresses up to the gap limit keeps the address objects there are
\* and adds fresh ones.
LEMMA WithGapObjects ==
    ASSUME NEW addresses, NEW free, GoodObjects(addresses, free)
    PROVE  /\ GoodObjects(WithGap(addresses), free)
           /\ DOMAIN WithGap(addresses) = DOMAIN addresses \cup Ahead(addresses)
           /\ \A a \in DOMAIN WithGap(addresses) : WithGap(addresses)[a] =
                IF a \in DOMAIN addresses THEN addresses[a] ELSE FreshAddress
<1> DEFINE new == WithGap(addresses)
<1>1. /\ DOMAIN new = DOMAIN addresses \cup Ahead(addresses)
      /\ \A a \in DOMAIN new : new[a] =
            IF a \in DOMAIN addresses THEN addresses[a] ELSE FreshAddress
      /\ new = [a \in DOMAIN new |-> new[a]]
    BY DEF WithGap
<1> HIDE DEF new
<1>2. Ahead(addresses) \in SUBSET Address
    BY AheadIsAddress DEF GoodObjects, GoodObject
<1>3. \A a \in DOMAIN new : new[a] \in AddressObject /\ GoodObject(a, new[a], free)
    BY <1>1, FreshObject DEF GoodObjects
<1>4. new \in [DOMAIN new -> AddressObject]
    BY <1>1, <1>3
<1>5. DOMAIN new \in SUBSET Address
    BY <1>1, <1>2 DEF GoodObjects
<1>6. GoodObjects(new, free)
    BY <1>3, <1>4, <1>5 DEF GoodObjects
<1> QED
    BY <1>1, <1>6 DEF new

\* Merging two wallets' addresses keeps the second's lists and adds what the
\* first lists, all of which is exposed.
LEMMA MergedObjects ==
    ASSUME NEW ours, NEW theirs, NEW free,
           GoodObjects(ours, free), GoodObjects(theirs, free), OnlyFree(ours, free)
    PROVE  /\ GoodObjects(MergedAddresses(ours, theirs), free)
           /\ DOMAIN MergedAddresses(ours, theirs) = DOMAIN ours \cup DOMAIN theirs
           /\ \A a \in DOMAIN MergedAddresses(ours, theirs) : \A t \in Tx \ free :
                Lists(MergedAddresses(ours, theirs)[a], t) =>
                    a \in DOMAIN theirs /\ Lists(theirs[a], t)
<1> DEFINE new == MergedAddresses(ours, theirs)
<1>1. /\ DOMAIN new = DOMAIN ours \cup DOMAIN theirs
      /\ \A a \in DOMAIN new : new[a] =
            IF a \notin DOMAIN theirs THEN ours[a]
            ELSE IF a \notin DOMAIN ours THEN theirs[a]
            ELSE MergedAddress(ours[a], theirs[a])
      /\ new = [a \in DOMAIN new |-> new[a]]
    BY DEF MergedAddresses
<1> HIDE DEF new
<1>2. ASSUME NEW a \in DOMAIN new
      PROVE  /\ new[a] \in AddressObject
             /\ GoodObject(a, new[a], free)
             /\ \A t \in Tx \ free :
                    Lists(new[a], t) => a \in DOMAIN theirs /\ Lists(theirs[a], t)
    <2>1. CASE a \notin DOMAIN theirs
        BY <1>1, <2>1 DEF GoodObjects, OnlyFree
    <2>2. CASE a \notin DOMAIN ours
        BY <1>1, <2>2 DEF GoodObjects
    <2>3. CASE a \in DOMAIN ours /\ a \in DOMAIN theirs
        <3>1. /\ ours[a] \in AddressObject /\ theirs[a] \in AddressObject
              /\ GoodObject(a, theirs[a], free)
            BY <2>3 DEF GoodObjects
        <3>2. ours[a].utxos \in SUBSET Tx
            BY <3>1, ObjectFields
        <3>3. /\ \A t \in ours[a].utxos : t \in free
              /\ \A t \in Tx \ free : ~Lists(ours[a], t)
            BY <2>3, <3>2 DEF OnlyFree
        <3>4. new[a] = MergedAddress(ours[a], theirs[a])
            BY <1>1, <2>3
        <3>5. /\ MergedAddress(ours[a], theirs[a]) \in AddressObject
              /\ GoodObject(a, MergedAddress(ours[a], theirs[a]), free)
              /\ \A t : Lists(MergedAddress(ours[a], theirs[a]), t)
                            => Lists(ours[a], t) \/ Lists(theirs[a], t)
            BY <3>1, <3>3, MergedObject
        <3> QED
            BY <2>3, <3>3, <3>4, <3>5
    <2> QED
        BY <2>1, <2>2, <2>3
<1>3. new \in [DOMAIN new -> AddressObject]
    BY <1>1, <1>2
<1>4. DOMAIN new \in SUBSET Address
    BY <1>1 DEF GoodObjects
<1>5. GoodObjects(new, free)
    BY <1>2, <1>3, <1>4 DEF GoodObjects
<1> QED
    BY <1>1, <1>2, <1>5 DEF new

\* A wallets part whose addresses have grown stays good, and what it has taken
\* in stays among the transactions when this holds of what it lists.
LEMMA GrownWallets ==
    ASSUME NEW wallets, NEW addresses, NEW free, NEW missed, NEW free2,
           NEW transactions, NEW transactions2,
           free \subseteq free2,
           GoodWallets(wallets, free, missed),
           GoodObjects(addresses, free2),
           DOMAIN wallets.addresses \subseteq DOMAIN addresses,
           Backed(wallets, transactions, free, missed),
           transactions \ free2 \subseteq transactions2,
           \A a \in DOMAIN addresses : \A t \in Tx \ free2 :
                Lists(addresses[a], t) => Listed(wallets, t) \/ t \in transactions2
    PROVE  LET grown == [wallets EXCEPT !.addresses = addresses]
           IN  /\ GoodWallets(grown, free2, missed)
               /\ Backed(grown, transactions2, free2, missed)
               /\ grown.addresses = addresses
<1> DEFINE grown == [wallets EXCEPT !.addresses = addresses]
<1>1. grown = [addresses |-> addresses, blockHeight |-> wallets.blockHeight]
    BY DEF GoodWallets
<1>2. grown.addresses = addresses /\ grown.blockHeight = wallets.blockHeight
    BY <1>1
<1>3. grown = [addresses |-> grown.addresses, blockHeight |-> grown.blockHeight]
    BY <1>1
<1> HIDE DEF grown
<1>4. GoodWallets(grown, free2, missed)
    BY <1>2, <1>3 DEF GoodWallets
<1>5. ASSUME NEW t \in Tx \ free2, Claims(grown, t, missed) PROVE t \in transactions2
    <2>1. CASE Listed(grown, t)
        <3>1. Listed(wallets, t) \/ t \in transactions2
            BY <1>2, <2>1 DEF Listed
        <3> QED
            BY <3>1 DEF Backed, Claims
    <2>2. CASE t <= grown.blockHeight /\ t \notin missed
        <3>1. t <= wallets.blockHeight /\ t \in Tx /\ t \notin free
            BY <1>2, <2>2
        <3>2. Pays[t] \cap DOMAIN wallets.addresses # {}
            BY <2>2, <3>1 DEF GoodWallets
        <3> QED
            BY <2>2, <3>1, <3>2 DEF Backed, Claims
    <2> QED
        BY <1>5, <2>1, <2>2 DEF Claims
<1>6. Backed(grown, transactions2, free2, missed)
    BY <1>5 DEF Backed
<1> QED
    BY <1>2, <1>4, <1>6 DEF grown

-----------------------------------------------------------------------------
(* A new process *)

LEMMA EmptyWallets ==
    ASSUME NEW free, NEW missed, NEW transactions
    PROVE  /\ EmptyStore = [transactions |-> {}, wallets |-> EmptyStore.wallets]
           /\ EmptyStore.transactions = {} /\ DOMAIN EmptyStore.wallets.addresses = {}
           /\ GoodWallets(EmptyStore.wallets, free, missed)
           /\ Backed(EmptyStore.wallets, transactions, free, missed)
           /\ \A t : ~Listed(EmptyStore.wallets, t)
<1> DEFINE empty == EmptyStore.wallets
<1>1. /\ empty = [addresses |-> empty.addresses, blockHeight |-> empty.blockHeight]
      /\ empty.addresses = <<>> /\ empty.blockHeight = 0
      /\ EmptyStore.transactions = {}
      /\ EmptyStore = [transactions |-> {}, wallets |-> empty]
    BY DEF EmptyStore
<1> HIDE DEF empty
<1>2. DOMAIN empty.addresses = {} /\ empty.addresses \in [{} -> AddressObject]
    BY <1>1
<1>3. GoodObjects(empty.addresses, free)
    BY <1>2 DEF GoodObjects
<1>4. \A t \in Tx : ~(t <= 0)
    BY TxFacts
<1>5. GoodWallets(empty, free, missed)
    BY <1>1, <1>3, <1>4 DEF GoodWallets
<1>6. \A t : ~Listed(empty, t)
    BY <1>2 DEF Listed
<1>7. Backed(empty, transactions, free, missed)
    BY <1>1, <1>4, <1>6 DEF Backed, Claims
<1> QED
    BY <1>1, <1>2, <1>5, <1>6, <1>7 DEF empty

\* A process that starts, with whatever an earlier one has left on the disk
FreshProcess ==
    /\ store = EmptyStore /\ mapped = {} /\ dirty = FALSE
    /\ timer = FALSE /\ config = "adapter" /\ read = <<>> /\ calls = ConfigureCalls
    /\ account = "none"
    /\ DOMAIN disk \in SUBSET Content
    /\ "transactions" \in DOMAIN disk => disk.transactions \in SUBSET Tx
    /\ "wallets" \in DOMAIN disk => GoodWallets(disk.wallets, exposed, passed)
    /\ DiskBacked
    /\ exposed \in SUBSET Tx /\ passed \in SUBSET Tx

LEMMA FreshIInv == FreshProcess => IInv
<1> SUFFICES ASSUME FreshProcess PROVE IInv
    OBVIOUS
<1>1. /\ store = [transactions |-> {}, wallets |-> store.wallets]
      /\ store.transactions = {} /\ DOMAIN store.wallets.addresses = {}
      /\ GoodWallets(store.wallets, exposed, passed)
      /\ StoreBacked
      /\ \A t : ~Listed(store.wallets, t)
    BY EmptyWallets DEF FreshProcess, StoreBacked
<1> DEFINE first == [frame |-> "configure", step |-> 0, value |-> {}]
<1>2. /\ calls = <<first>> /\ first \in CallRecord
      /\ first.frame = "configure" /\ first.step = 0
    <2>1. {} \in Values
        BY DEF Values
    <2> QED
        BY <2>1 DEF FreshProcess, ConfigureCalls, CallRecord
<1> HIDE DEF first
<1>3. calls \in Seq(CallRecord) /\ DOMAIN calls = {1} /\ calls[1] = first
    BY <1>2
<1>4. Pending(calls) = {first}
    BY <1>3 DEF Pending
<1>5. dirty \in BOOLEAN /\ timer \in BOOLEAN
    BY DEF FreshProcess
<1>6. DOMAIN read = {}
    BY DEF FreshProcess
<1>7. Typing
    BY <1>1, <1>3, <1>5, <1>6 DEF FreshProcess, Typing, Configs
<1>8. GoodParts
    BY <1>1, <1>6 DEF FreshProcess, GoodParts
<1>9. SavesOK /\ ConfigureOK /\ OneConfigure
    BY <1>2, <1>3, <1>4
    DEF FreshProcess, SavesOK, ConfigureOK, OneConfigure, Single, IsSave
<1>10. EarlyIsExposed /\ ReadIsDisk /\ SavedIsKnown
    BY <1>1, <1>6 DEF FreshProcess, EarlyIsExposed, OnlyFree, ReadIsDisk, SavedIsKnown, Rehydrated
<1>11. CreditIsSavedOrPending
    BY <1>1 DEF CreditIsSavedOrPending
<1> QED
    BY <1>1, <1>7, <1>8, <1>9, <1>10, <1>11 DEF IInv, FreshProcess

\* The strengthened invariant holds of the first process.
LEMMA InitIInv == Init => IInv
<1> SUFFICES ASSUME Init PROVE FreshProcess
    BY FreshIInv
<1>1. DOMAIN disk = {}
    BY DEF Init
<1> QED
    BY <1>1 DEF Init, FreshProcess, DiskBacked

\* Whenever the process ends, the next one finds a disk it can start from.
LEMMA RestartIInv == IInv /\ Restart => IInv'
<1>1. IInv /\ Restart => FreshProcess'
    <2> SUFFICES ASSUME IInv, Restart PROVE FreshProcess'
        OBVIOUS
    <2>1. /\ disk' = disk /\ exposed' = exposed /\ passed' = passed
          /\ store' = EmptyStore /\ mapped' = {} /\ dirty' = FALSE
          /\ timer' = FALSE /\ config' = "adapter" /\ read' = <<>> /\ calls' = ConfigureCalls
          /\ account' = "none"
        BY DEF Restart
    <2>2. DiskBacked'
        BY <2>1 DEF IInv, DiskBacked, SavedTransactions
    <2> QED
        BY <2>1, <2>2 DEF IInv, Typing, GoodParts, FreshProcess
<1>2. FreshProcess' => IInv'
    BY FreshIInv, PTL
<1> QED
    BY <1>1, <1>2

-----------------------------------------------------------------------------
(* The account *)

\* What the account does to the store, the strengthened invariant survives if
\* the wallets part stays good and backed, and what is new to the store is
\* exposed whenever a save is pending or the store is not rehydrated.
LEMMA StoreGrows ==
    ASSUME IInv, UNCHANGED <<timer, config, read, calls, disk>>,
           exposed \subseteq exposed', exposed' \in SUBSET Tx,
           passed \subseteq passed', passed' \in SUBSET Tx,
           account' \in {"none", "open", "closed"}, dirty' \in BOOLEAN,
           store' = [transactions |-> store.transactions', wallets |-> store.wallets'],
           store.transactions' \in SUBSET Tx,
           store.transactions \subseteq store.transactions',
           Saves # {} => store.transactions' \ exposed' \subseteq store.transactions,
           mapped' \in SUBSET DOMAIN store.wallets.addresses',
           GoodWallets(store.wallets', exposed', passed'),
           Backed(store.wallets', store.transactions', exposed', passed'),
           ~Rehydrated => OnlyFree(store.wallets.addresses', exposed'),
           CreditIsSavedOrPending'
    PROVE  IInv'
<1>1. Typing'
    BY DEF IInv, Typing
<1>2. GoodParts'
    BY GoodWalletsStay DEF IInv, GoodParts
<1>3. SavedTransactions' = SavedTransactions /\ Rehydrated' = Rehydrated
    BY DEF SavedTransactions, Rehydrated
<1>4. StoreBacked' /\ DiskBacked'
    <2>1. SavedTransactions \ exposed' \subseteq SavedTransactions'
        BY <1>3
    <2>2. CASE "wallets" \in DOMAIN disk
        <3>1. Backed(disk.wallets, SavedTransactions', exposed', passed')
            BY <2>1, <2>2, BackedStays DEF IInv, DiskBacked
        <3> QED
            BY <3>1 DEF StoreBacked, DiskBacked
    <2>3. CASE "wallets" \notin DOMAIN disk
        BY <2>3 DEF StoreBacked, DiskBacked
    <2> QED
        BY <2>2, <2>3
<1>5. AllExposed => AllExposed'
    BY DEF AllExposed
<1>6. SavesOK'
    <2> SUFFICES ASSUME NEW call \in Pending(calls), IsSave(call)
                 PROVE  /\ (Rehydrated \/ AllExposed)'
                        /\ GoodSave(call, store.transactions', SavedTransactions',
                                    exposed', passed')
        BY DEF SavesOK
    <2>1. /\ Rehydrated \/ AllExposed
          /\ GoodSave(call, store.transactions, SavedTransactions, exposed, passed)
        BY DEF IInv, SavesOK
    <2>2. Saves # {}
        BY DEF Saves, Pending, IsSave
    <2>3. SavedTransactions \ exposed' \subseteq SavedTransactions'
        BY <1>3
    <2> QED
        BY <1>3, <1>5, <2>1, <2>2, <2>3, GoodSaveStays
<1>7. ConfigureOK' /\ OneConfigure' /\ ReadIsDisk' /\ EarlyIsExposed'
    BY <1>3, <1>5 DEF IInv, ConfigureOK, OneConfigure, ReadIsDisk, EarlyIsExposed
<1>8. SavedIsKnown'
    BY <1>3, <1>5 DEF IInv, SavedIsKnown
<1> QED
    BY <1>1, <1>2, <1>4, <1>6, <1>7, <1>8 DEF IInv

\* Creating an account derives addresses, which list nothing yet.
LEMMA CreateAccountIInv == IInv /\ CreateAccount => IInv'
<1> SUFFICES ASSUME IInv, CreateAccount PROVE IInv'
    OBVIOUS
<1> DEFINE old == store.wallets.addresses
           new == WithGap(old)
<1>1. /\ account' = "open"
      /\ store' = [store EXCEPT !.wallets.addresses = new]
      /\ mapped' = mapped \cup (Ahead(old) \ DOMAIN old)
      /\ UNCHANGED <<timer, config, read, calls, disk, exposed, passed>>
    BY DEF CreateAccount
<1>2. dirty' \in BOOLEAN /\ (dirty => dirty')
    BY DEF CreateAccount
<1>3. /\ GoodObjects(new, exposed)
      /\ DOMAIN new = DOMAIN old \cup Ahead(old)
      /\ \A a \in DOMAIN new : new[a] = IF a \in DOMAIN old THEN old[a] ELSE FreshAddress
    BY WithGapObjects DEF IInv, GoodParts, GoodWallets
<1> HIDE DEF new
<1>4. /\ store' = [transactions |-> store.transactions,
                   wallets |-> [store.wallets EXCEPT !.addresses = new]]
      /\ store.transactions' = store.transactions
      /\ store.wallets' = [store.wallets EXCEPT !.addresses = new]
      /\ store' = [transactions |-> store.transactions', wallets |-> store.wallets']
    BY <1>1 DEF IInv, Typing
<1>5. \A a \in DOMAIN new : \A t \in Tx :
        t \in new[a].utxos \/ Lists(new[a], t) =>
            a \in DOMAIN old /\ (t \in old[a].utxos \/ Lists(old[a], t))
    <2> TAKE a \in DOMAIN new
    <2> TAKE t \in Tx
    <2>1. CASE a \in DOMAIN old
        <3>1. new[a] = old[a]
            BY <1>3, <2>1
        <3> QED
            BY <2>1, <3>1
    <2>2. CASE a \notin DOMAIN old
        <3>1. new[a] = FreshAddress
            BY <1>3, <2>2
        <3> QED
            BY <3>1, FreshObject
    <2> QED
        BY <2>1, <2>2
<1>6. \A a \in DOMAIN new : \A t \in Tx : Lists(new[a], t) => Listed(store.wallets, t)
    <2> SUFFICES ASSUME NEW a \in DOMAIN new, NEW t \in Tx, Lists(new[a], t)
                 PROVE  Listed(store.wallets, t)
        OBVIOUS
    <2>1. a \in DOMAIN old /\ (new[a] = old[a] \/ new[a] = FreshAddress)
        BY <1>3, <1>5
    <2> QED
        BY <2>1, FreshObject DEF Listed
<1>7. /\ GoodWallets(store.wallets', exposed, passed)
      /\ Backed(store.wallets', store.transactions, exposed, passed)
      /\ store.wallets'.addresses = new
    <2> DEFINE grown == [store.wallets EXCEPT !.addresses = new]
    <2>1. /\ GoodWallets(store.wallets, exposed, passed)
          /\ Backed(store.wallets, store.transactions, exposed, passed)
        BY DEF IInv, GoodParts, StoreBacked
    <2>2. /\ GoodWallets(grown, exposed, passed)
          /\ Backed(grown, store.transactions, exposed, passed)
          /\ grown.addresses = new
        BY <1>3, <1>6, <2>1, GrownWallets
    <2>3. store.wallets' = grown
        BY <1>4
    <2> HIDE DEF grown
    <2> QED
        BY <2>2, <2>3
<1>8. ~Rehydrated => OnlyFree(store.wallets.addresses', exposed)
    BY <1>5, <1>7 DEF IInv, EarlyIsExposed, OnlyFree
<1>9. CreditIsSavedOrPending'
    <2>1. \A t \in Tx : Listed(store.wallets', t) => Listed(store.wallets, t)
        BY <1>6, <1>7 DEF Listed
    <2>2. SavedTransactions' = SavedTransactions
        BY <1>1 DEF SavedTransactions
    <2> QED
        BY <1>1, <1>2, <2>1, <2>2 DEF IInv, CreditIsSavedOrPending
<1>10. mapped' \in SUBSET DOMAIN store.wallets.addresses'
    BY <1>1, <1>3, <1>7 DEF IInv, Typing
<1> QED
    BY <1>1, <1>2, <1>4, <1>7, <1>8, <1>9, <1>10, StoreGrows DEF IInv, Typing

\* The synchronization that passes a height has taken in what it passes, or
\* knows none of its addresses.
LEMMA AdvanceIInv ==
    ASSUME NEW height \in Tx
    PROVE  IInv /\ Advance(height) => IInv'
<1> SUFFICES ASSUME IInv, Advance(height) PROVE IInv'
    OBVIOUS
<1> DEFINE wallets == store.wallets
           new == [wallets EXCEPT !.blockHeight = height]
           behind == {t \in 1..height : Pays[t] \cap DOMAIN wallets.addresses = {}}
<1>1. /\ height > wallets.blockHeight /\ account' = account
      /\ \A t \in 1..height : Pays[t] \cap DOMAIN wallets.addresses # {} =>
            t \in store.transactions \/ t < wallets.blockHeight
      /\ store' = [store EXCEPT !.wallets.blockHeight = height]
      /\ passed' = passed \cup behind
      /\ UNCHANGED <<mapped, dirty, timer, config, read, calls, disk, exposed>>
    BY DEF Advance
<1>2. /\ store.transactions' = store.transactions /\ store.wallets' = new
      /\ store' = [transactions |-> store.transactions', wallets |-> store.wallets']
    BY <1>1 DEF IInv, Typing
<1>3. /\ new = [addresses |-> new.addresses, blockHeight |-> new.blockHeight]
      /\ new.addresses = wallets.addresses /\ new.blockHeight = height
    BY DEF IInv, GoodParts, GoodWallets
<1> HIDE DEF new
<1>4. behind \in SUBSET Tx
    BY TxFacts
<1>5. \A t \in Tx : t <= height => t \in 1..height
    BY TxFacts
<1>6. wallets.blockHeight \in Nat /\ height \in Nat
    BY TxFacts DEF IInv, GoodParts, GoodWallets
<1>7. GoodWallets(new, exposed, passed')
    <2>1. \A t \in Tx :
            t <= height /\ Pays[t] \cap DOMAIN new.addresses = {} => t \in passed'
        BY <1>1, <1>3, <1>5
    <2> QED
        BY <1>3, <2>1 DEF IInv, GoodParts, GoodWallets
<1>8. Backed(new, store.transactions, exposed, passed')
    <2> SUFFICES ASSUME NEW t \in Tx \ exposed, Claims(new, t, passed')
                 PROVE  t \in store.transactions
        BY DEF Backed
    <2>1. Claims(wallets, t, passed) => t \in store.transactions
        BY DEF IInv, StoreBacked, Backed
    <2>2. CASE Listed(new, t)
        <3>1. Listed(wallets, t)
            BY <1>3, <2>2 DEF Listed
        <3> QED
            BY <2>1, <3>1 DEF Claims
    <2>3. CASE ~Listed(new, t)
        <3>1. t <= height /\ t \notin passed /\ Pays[t] \cap DOMAIN wallets.addresses # {}
            BY <1>1, <1>3, <2>3 DEF Claims
        <3>2. t \in Nat /\ (t \in store.transactions \/ t < wallets.blockHeight)
            BY <1>1, <1>5, <3>1, TxFacts
        <3>3. t < wallets.blockHeight => t <= wallets.blockHeight
            BY <1>6, <3>2
        <3> QED
            BY <2>1, <3>1, <3>2, <3>3 DEF Claims
    <2> QED
        BY <2>2, <2>3
<1>9. CreditIsSavedOrPending'
    <2>1. \A t : Listed(store.wallets', t) <=> Listed(store.wallets, t)
        BY <1>2, <1>3 DEF Listed
    <2>2. SavedTransactions' = SavedTransactions
        BY <1>1 DEF SavedTransactions
    <2> QED
        BY <1>1, <2>1, <2>2 DEF IInv, CreditIsSavedOrPending
<1>10. passed' \in SUBSET Tx /\ passed \subseteq passed'
    BY <1>1, <1>4 DEF IInv, Typing
<1>11. ~Rehydrated => OnlyFree(store.wallets.addresses', exposed)
    BY <1>2, <1>3 DEF IInv, EarlyIsExposed
<1>12. /\ mapped' \in SUBSET DOMAIN store.wallets.addresses'
       /\ account' \in {"none", "open", "closed"}
       /\ exposed' = exposed /\ exposed \in SUBSET Tx
    BY <1>1, <1>2, <1>3 DEF IInv, Typing
<1>13. dirty' \in BOOLEAN
    BY <1>1 DEF IInv, Typing
<1> HIDE DEF behind
<1> QED
    BY <1>1, <1>2, <1>7, <1>8, <1>9, <1>10, <1>11, <1>12, <1>13, StoreGrows DEF IInv, Typing

\* Importing a transaction lists and credits it at the mapped addresses that
\* it pays; unless its import is exposed, something is there to save.
LEMMA ImportIInv ==
    ASSUME NEW t \in Tx
    PROVE  IInv /\ Import(t) => IInv'
<1> SUFFICES ASSUME IInv, Import(t) PROVE IInv'
    OBVIOUS
<1> DEFINE old == store.wallets.addresses
           credited == [a \in DOMAIN old |->
                            IF a \in Affected(t) THEN Credited(old[a], t) ELSE old[a]]
           new == WithGap(credited)
           isExposed == /\ Saves # {} \/ ~Rehydrated
                        /\ t \notin store.transactions \/ Affected(t) # {}
<1>1. /\ account = "open"
      /\ store' = [transactions |-> store.transactions \cup {t},
                   wallets |-> [store.wallets EXCEPT !.addresses = new]]
      /\ mapped' = mapped \cup (Ahead(credited) \ DOMAIN credited)
      /\ exposed' = IF isExposed THEN exposed \cup {t} ELSE exposed
      /\ UNCHANGED <<timer, config, read, calls, account, disk, passed>>
    BY DEF Import
<1>2. dirty' \in BOOLEAN /\ (dirty => dirty') /\ (HasUpdate(t) => dirty')
    BY DEF Import
<1>3. /\ store.transactions' = store.transactions \cup {t}
      /\ store.wallets' = [store.wallets EXCEPT !.addresses = new]
      /\ store' = [transactions |-> store.transactions', wallets |-> store.wallets']
    BY <1>1
<1>4. exposed \subseteq exposed' /\ exposed' \in SUBSET Tx
    BY <1>1 DEF IInv, Typing
<1>5. /\ GoodObjects(old, exposed)
      /\ \A a \in Affected(t) : a \in DOMAIN old /\ a \in Pays[t] /\ ~Lists(old[a], t)
    BY DEF IInv, Typing, GoodParts, GoodWallets, Affected
<1>6. /\ DOMAIN credited = DOMAIN old
      /\ \A a \in DOMAIN old : credited[a] =
            IF a \in Affected(t) THEN Credited(old[a], t) ELSE old[a]
      /\ credited = [a \in DOMAIN credited |-> credited[a]]
    OBVIOUS
<1> HIDE DEF credited
<1>7. ASSUME NEW a \in DOMAIN old
      PROVE  /\ credited[a] \in AddressObject
             /\ GoodObject(a, credited[a], exposed)
             /\ \A u \in Tx :
                    u \in credited[a].utxos \/ Lists(credited[a], u) =>
                        \/ u = t /\ a \in Affected(t)
                        \/ u \in old[a].utxos \/ Lists(old[a], u)
             /\ \A u \in Tx : Lists(credited[a], u) =>
                        Lists(old[a], u) \/ (u = t /\ a \in Affected(t))
    <2>1. old[a] \in AddressObject /\ GoodObject(a, old[a], exposed)
        BY <1>5 DEF GoodObjects
    <2>2. CASE a \in Affected(t)
        <3>1. /\ Credited(old[a], t) \in AddressObject
              /\ GoodObject(a, Credited(old[a], t), exposed)
              /\ Credited(old[a], t).utxos = old[a].utxos \cup {t}
              /\ \A u : Lists(Credited(old[a], t), u) <=> Lists(old[a], u) \/ u = t
            BY <1>5, <2>1, <2>2, CreditedObject
        <3>2. credited[a] = Credited(old[a], t)
            BY <1>6, <2>2
        <3>3. \A u : u \in credited[a].utxos <=> u \in old[a].utxos \/ u = t
            BY <3>1, <3>2
        <3>4. \A u : Lists(credited[a], u) <=> Lists(old[a], u) \/ u = t
            BY <3>1, <3>2
        <3>5. credited[a] \in AddressObject /\ GoodObject(a, credited[a], exposed)
            BY <3>1, <3>2
        <3>6. \A u \in Tx : u \in credited[a].utxos \/ Lists(credited[a], u) =>
                    \/ u = t /\ a \in Affected(t)
                    \/ u \in old[a].utxos \/ Lists(old[a], u)
            BY <2>2, <3>3, <3>4
        <3>7. \A u \in Tx : Lists(credited[a], u) =>
                    Lists(old[a], u) \/ (u = t /\ a \in Affected(t))
            BY <2>2, <3>4
        <3> HIDE DEF old
        <3> QED
            BY <3>5, <3>6, <3>7
    <2>3. CASE a \notin Affected(t)
        <3>1. credited[a] = old[a]
            BY <1>6, <2>3
        <3> QED
            BY <2>1, <3>1
    <2> QED
        BY <2>2, <2>3
<1>8. GoodObjects(credited, exposed')
    <2>1. GoodObjects(credited, exposed)
        BY <1>5, <1>6, <1>7 DEF GoodObjects
    <2> QED
        BY <1>4, <2>1 DEF GoodObjects, GoodObject
<1>9. /\ GoodObjects(new, exposed')
      /\ DOMAIN new = DOMAIN credited \cup Ahead(credited)
      /\ \A a \in DOMAIN new : new[a] =
            IF a \in DOMAIN credited THEN credited[a] ELSE FreshAddress
    BY <1>8, WithGapObjects
<1> HIDE DEF new
<1>10. \A a \in DOMAIN new : \A u \in Tx :
        /\ u \in new[a].utxos \/ Lists(new[a], u) =>
            \/ u = t /\ Affected(t) # {}
            \/ a \in DOMAIN old /\ (u \in old[a].utxos \/ Lists(old[a], u))
        /\ Lists(new[a], u) =>
            Listed(store.wallets, u) \/ (u = t /\ Affected(t) # {})
    BY <1>6, <1>7, <1>9, FreshObject DEF Listed
<1>11. /\ GoodWallets(store.wallets', exposed', passed)
       /\ Backed(store.wallets', store.transactions', exposed', passed)
       /\ store.wallets'.addresses = new
    <2>1. store.transactions \ exposed' \subseteq store.transactions'
        BY <1>3
    <2>2. \A a \in DOMAIN new : \A u \in Tx \ exposed' :
            Lists(new[a], u) => Listed(store.wallets, u) \/ u \in store.transactions'
        BY <1>3, <1>10
    <2>3. DOMAIN old \subseteq DOMAIN new
        BY <1>6, <1>9
    <2>4. /\ GoodWallets(store.wallets, exposed, passed)
          /\ Backed(store.wallets, store.transactions, exposed, passed)
        BY DEF IInv, GoodParts, StoreBacked
    <2> DEFINE grown == [store.wallets EXCEPT !.addresses = new]
    <2>5. /\ GoodWallets(grown, exposed', passed)
          /\ Backed(grown, store.transactions', exposed', passed)
          /\ grown.addresses = new
        BY <1>4, <1>9, <2>1, <2>2, <2>3, <2>4, GrownWallets
    <2> QED
        BY <1>3, <2>5
<1>12. ~Rehydrated => OnlyFree(store.wallets.addresses', exposed')
    <2> SUFFICES ASSUME ~Rehydrated, NEW a \in DOMAIN new, NEW u \in Tx,
                        u \in new[a].utxos \/ Lists(new[a], u)
                 PROVE  u \in exposed'
        BY <1>11 DEF OnlyFree
    <2>1. CASE u = t /\ Affected(t) # {}
        BY <1>1, <2>1
    <2>2. CASE a \in DOMAIN old /\ (u \in old[a].utxos \/ Lists(old[a], u))
        BY <1>4, <2>2 DEF IInv, EarlyIsExposed, OnlyFree
    <2> QED
        BY <1>10, <2>1, <2>2
<1>13. CreditIsSavedOrPending'
    <2> SUFFICES ASSUME NEW u \in Tx \ exposed', Listed(store.wallets', u)
                 PROVE  u \in SavedTransactions \/ dirty'
        BY <1>1 DEF CreditIsSavedOrPending, SavedTransactions
    <2>1. CASE Listed(store.wallets, u)
        BY <1>2, <1>4, <2>1 DEF IInv, CreditIsSavedOrPending
    <2>2. CASE u = t /\ Affected(t) # {}
        <3>1. PICK a \in Affected(t) : TRUE
            BY <2>2
        <3>2. t \notin old[a].utxos
            BY <1>4, <1>5, <2>2 DEF GoodObjects, GoodObject
        <3> QED
            BY <1>2, <3>2 DEF HasUpdate
    <2> QED
        BY <1>10, <1>11, <2>1, <2>2 DEF Listed
<1>14. Saves # {} => store.transactions' \ exposed' \subseteq store.transactions
    BY <1>1, <1>3
<1>15. mapped' \in SUBSET DOMAIN store.wallets.addresses'
    BY <1>1, <1>6, <1>9, <1>11 DEF IInv, Typing
<1>16. /\ store.transactions' \in SUBSET Tx
       /\ store.transactions \subseteq store.transactions'
       /\ account' \in {"none", "open", "closed"}
       /\ passed' = passed /\ passed \in SUBSET Tx
    BY <1>1, <1>3 DEF IInv, Typing
<1> QED
    BY <1>1, <1>2, <1>3, <1>4, <1>11, <1>12, <1>13, <1>14, <1>15, <1>16, StoreGrows

-----------------------------------------------------------------------------
(* Saving *)

\* A save begins with what the store holds of the transactions; one that
\* overtakes the rehydration exposes them all.
LEMMA SaveStateIInv ==
    ASSUME IInv, NEW frame \in {"interval", "disconnect"}, SaveState(frame),
           UNCHANGED <<store, mapped, dirty, timer, config, read, disk, passed>>,
           account' \in {"none", "open", "closed"}
    PROVE  IInv'
<1> DEFINE new == Call(frame, 1)
<1>1. /\ new \in CallRecord /\ new.frame = frame /\ new.step = 1
      /\ new.value = store.transactions
    BY CallFacts
<1>2. calls' = Append(calls, new) /\ exposed' = IF Rehydrated THEN exposed ELSE Tx
    BY DEF SaveState
<1> HIDE DEF new
<1>3. /\ calls' \in Seq(CallRecord) /\ Pending(calls') = Pending(calls) \cup {new}
      /\ IsSave(new)
    BY <1>1, <1>2, AppendPending DEF IInv, Typing, IsSave
<1>4. /\ exposed \subseteq exposed' /\ exposed' \in SUBSET Tx
      /\ Rehydrated' = Rehydrated /\ SavedTransactions' = SavedTransactions
      /\ AllExposed => AllExposed'
      /\ Rehydrated \/ AllExposed'
    BY <1>2 DEF IInv, Typing, Rehydrated, SavedTransactions, AllExposed
<1>5. Typing'
    BY <1>3, <1>4 DEF IInv, Typing
<1>6. GoodParts'
    BY <1>4, GoodWalletsStay DEF IInv, GoodParts
<1>7. StoreBacked' /\ DiskBacked'
    <2>1. StoreBacked'
        <3>1. Backed(store.wallets, store.transactions, exposed', passed)
            BY <1>4, BackedStays DEF IInv, StoreBacked
        <3> QED
            BY <3>1 DEF StoreBacked
    <2>2. DiskBacked'
        <3>1. ASSUME "wallets" \in DOMAIN disk
              PROVE  Backed(disk.wallets, SavedTransactions, exposed', passed)
            BY <1>4, <3>1, BackedStays DEF IInv, DiskBacked
        <3> QED
            BY <1>4, <3>1 DEF DiskBacked
    <2> QED
        BY <2>1, <2>2
<1>8. SavesOK'
    <2> SUFFICES ASSUME NEW call \in Pending(calls'), IsSave(call)
                 PROVE  /\ (Rehydrated \/ AllExposed)'
                        /\ GoodSave(call, store.transactions, SavedTransactions,
                                    exposed', passed)
        BY <1>4 DEF SavesOK
    <2>1. CASE call = new
        BY <1>1, <1>4, <2>1 DEF GoodSave
    <2>2. CASE call \in Pending(calls)
        <3>1. /\ Rehydrated \/ AllExposed
              /\ GoodSave(call, store.transactions, SavedTransactions, exposed, passed)
            BY <2>2 DEF IInv, SavesOK
        <3> QED
            BY <1>4, <3>1, GoodSaveStays
    <2> QED
        BY <1>3, <2>1, <2>2
<1>9. ConfigureOK'
    BY <1>3, <1>4 DEF IInv, ConfigureOK
<1>10. OneConfigure'
    BY <1>1, <1>2, <1>3, AppendSingle DEF IInv, Typing, OneConfigure
<1>11. EarlyIsExposed' /\ ReadIsDisk' /\ SavedIsKnown'
    BY <1>4 DEF IInv, EarlyIsExposed, OnlyFree, ReadIsDisk, SavedIsKnown
<1>12. CreditIsSavedOrPending'
    BY <1>4 DEF IInv, CreditIsSavedOrPending
<1> QED
    BY <1>5, <1>6, <1>7, <1>8, <1>9, <1>10, <1>11, <1>12 DEF IInv

LEMMA TickIInv == IInv /\ Tick => IInv'
<1> SUFFICES ASSUME IInv, Tick PROVE IInv'
    OBVIOUS
<1>1. /\ SaveState("interval")
      /\ UNCHANGED <<store, mapped, dirty, timer, config, read, disk, passed, account>>
    BY DEF Tick, storageVars
<1> QED
    BY <1>1, SaveStateIInv DEF IInv, Typing

\* What neither the store, the disk nor the history notices, and leaves no
\* save behind, is harmless if configure()'s part of the invariant holds after.
LEMMA ConfigureSteps ==
    ASSUME IInv, UNCHANGED <<store, mapped, dirty, disk, exposed, passed>>,
           Typing', Rehydrated' = Rehydrated,
           "wallets" \in DOMAIN read' => GoodWallets(read.wallets', exposed, passed),
           \A call \in Pending(calls') : IsSave(call) => call \in Pending(calls),
           ConfigureOK', OneConfigure', ReadIsDisk'
    PROVE  IInv'
<1>1. SavedTransactions' = SavedTransactions /\ AllExposed' = AllExposed
    BY DEF SavedTransactions, AllExposed
<1>2. GoodParts' /\ StoreBacked' /\ DiskBacked'
    BY <1>1 DEF IInv, GoodParts, StoreBacked, DiskBacked
<1>3. SavesOK'
    <2> SUFFICES ASSUME NEW call \in Pending(calls'), IsSave(call)
                 PROVE  /\ Rehydrated \/ AllExposed
                        /\ GoodSave(call, store.transactions, SavedTransactions,
                                    exposed, passed)
        BY <1>1 DEF SavesOK
    <2> QED
        BY DEF IInv, SavesOK
<1>4. EarlyIsExposed' /\ SavedIsKnown' /\ CreditIsSavedOrPending'
    BY <1>1 DEF IInv, EarlyIsExposed, SavedIsKnown, CreditIsSavedOrPending
<1> QED
    BY <1>2, <1>3, <1>4 DEF IInv

\* Disconnecting saves once, or without an adapter only stops the interval.
LEMMA DisconnectIInv == IInv /\ Disconnect => IInv'
<1> SUFFICES ASSUME IInv, Disconnect PROVE IInv'
    OBVIOUS
<1>1. /\ account' = "closed"
      /\ UNCHANGED <<store, mapped, dirty, config, read, disk, passed>>
    BY DEF Disconnect, storageVars
<1>2. CASE SaveState("disconnect") /\ UNCHANGED timer
    BY <1>1, <1>2, SaveStateIInv
<1>3. CASE timer' = FALSE /\ UNCHANGED <<calls, exposed>>
    <2>1. Typing'
        BY <1>1, <1>3 DEF IInv, Typing
    <2>2. Rehydrated' = Rehydrated /\ AllExposed' = AllExposed
        BY <1>1, <1>3 DEF Rehydrated, AllExposed
    <2>3. ConfigureOK' /\ OneConfigure' /\ ReadIsDisk'
        BY <1>1, <1>3, <2>2 DEF IInv, ConfigureOK, OneConfigure, ReadIsDisk
    <2>4. "wallets" \in DOMAIN read => GoodWallets(read.wallets, exposed, passed)
        BY DEF IInv, GoodParts
    <2> QED
        BY <1>1, <1>3, <2>1, <2>2, <2>3, <2>4, ConfigureSteps
<1> QED
    BY <1>2, <1>3 DEF Disconnect

-----------------------------------------------------------------------------
(* Configuring *)

\* The call the adapter serves, and the ones behind it
LEMMA ServedCall ==
    ASSUME IInv, calls # <<>>
    PROVE  /\ Head(calls) \in CallRecord /\ Head(calls) \in Pending(calls)
           /\ Tail(calls) \in Seq(CallRecord) /\ Pending(Tail(calls)) \subseteq Pending(calls)
           /\ Single(Tail(calls))
           /\ ~IsSave(Head(calls)) =>
                /\ \A call \in Pending(Tail(calls)) : IsSave(call)
                /\ config \in {"adapter", "reading"} /\ ~Rehydrated
<1>1. calls \in Seq(CallRecord) /\ Single(calls)
    BY DEF IInv, Typing, OneConfigure
<1>2. /\ Head(calls) \in CallRecord /\ Head(calls) \in Pending(calls)
      /\ Tail(calls) \in Seq(CallRecord) /\ Pending(Tail(calls)) \subseteq Pending(calls)
    BY <1>1, TailPending
<1>3. /\ Single(Tail(calls))
      /\ ~IsSave(Head(calls)) => \A call \in Pending(Tail(calls)) : IsSave(call)
    BY <1>1, TailSingle
<1>4. ~IsSave(Head(calls)) => config \in {"adapter", "reading"} /\ ~Rehydrated
    BY <1>2 DEF IInv, ConfigureOK, Rehydrated
<1> QED
    BY <1>2, <1>3, <1>4

\* An adapter that rejects a call leaves everything but configure() as it was.
LEMMA CallFailsIInv == IInv /\ CallFails => IInv'
<1> SUFFICES ASSUME IInv, CallFails PROVE IInv'
    OBVIOUS
<1> DEFINE call == Head(calls)
<1>1. /\ calls # <<>> /\ calls' = Tail(calls)
      /\ UNCHANGED <<store, mapped, dirty, timer, account, disk, exposed, passed>>
      /\ IsSave(call) => config' = config /\ read' = read
      /\ ~IsSave(call) => config' \in {"unusable", "failed"} /\ read' = <<>>
    BY DEF CallFails, storageVars, IsSave
<1> HIDE DEF call
<1>2. /\ Tail(calls) \in Seq(CallRecord) /\ Pending(Tail(calls)) \subseteq Pending(calls)
      /\ Single(Tail(calls))
      /\ ~IsSave(call) => /\ \A other \in Pending(Tail(calls)) : IsSave(other)
                          /\ ~Rehydrated
    BY <1>1, ServedCall DEF call
<1>3. read' = read \/ DOMAIN read' = {}
    BY <1>1
<1>4. Typing'
    BY <1>1, <1>2, <1>3 DEF IInv, Typing, Configs
<1>5. Rehydrated' = Rehydrated /\ AllExposed' = AllExposed
    BY <1>1, <1>2 DEF Rehydrated, AllExposed
<1>6. "wallets" \in DOMAIN read' => GoodWallets(read.wallets', exposed, passed)
    BY <1>3 DEF IInv, GoodParts
<1>7. ReadIsDisk'
    BY <1>1, <1>3, <1>5 DEF IInv, ReadIsDisk
<1>8. ConfigureOK'
    <2>1. CASE IsSave(call)
        <3>1. config' = config /\ read' = read
            BY <1>1, <2>1
        <3> QED
            BY <1>1, <1>2, <1>5, <3>1 DEF IInv, ConfigureOK
    <2>2. CASE ~IsSave(call)
        BY <1>1, <1>2, <2>2 DEF ConfigureOK
    <2> QED
        BY <2>1, <2>2
<1>9. OneConfigure' /\ \A other \in Pending(calls') : IsSave(other) => other \in Pending(calls)
    BY <1>1, <1>2 DEF OneConfigure
<1> QED
    BY <1>1, <1>4, <1>5, <1>6, <1>7, <1>8, <1>9, ConfigureSteps

\* What configure() does next, when only saves are pending besides
LEMMA ConfigureCall ==
    ASSUME IInv, calls # <<>>, ~IsSave(Head(calls)), NEW step \in 1..4,
           calls' = Append(Tail(calls), Call("configure", step))
    PROVE  /\ calls' \in Seq(CallRecord)
           /\ OneConfigure'
           /\ \A call \in Pending(calls') :
                /\ IsSave(call) => call \in Pending(calls)
                /\ ~IsSave(call) => call.step = step
<1> DEFINE new == Call("configure", step)
           rest == Tail(calls)
<1>1. /\ new \in CallRecord /\ new.frame = "configure" /\ new.step = step
      /\ calls' = Append(rest, new)
    BY CallFacts
<1>2. /\ rest \in Seq(CallRecord) /\ Pending(rest) \subseteq Pending(calls)
      /\ Single(rest)
      /\ \A call \in Pending(rest) : IsSave(call)
    BY ServedCall
<1> HIDE DEF new, rest
<1>3. ~IsSave(new)
    BY <1>1 DEF IsSave
<1>4. calls' \in Seq(CallRecord) /\ Pending(calls') = Pending(rest) \cup {new}
    <2>1. /\ Append(rest, new) \in Seq(CallRecord)
          /\ Pending(Append(rest, new)) = Pending(rest) \cup {new}
        BY <1>1, <1>2, AppendPending
    <2> QED
        BY <1>1, <2>1
<1>5. Single(calls')
    BY <1>1, <1>2, AppendSingle
<1> QED
    BY <1>1, <1>2, <1>3, <1>4, <1>5 DEF OneConfigure

\* The adapter answered: the parts are read from the first one on.
LEMMA AdapterReadyIInv == IInv /\ AdapterReady => IInv'
<1> SUFFICES ASSUME IInv, AdapterReady PROVE IInv'
    OBVIOUS
<1>1. /\ calls # <<>> /\ ~IsSave(Head(calls)) /\ config = "adapter" /\ config' = "reading"
      /\ calls' = Append(Tail(calls), Call("configure", 1))
      /\ UNCHANGED <<store, mapped, dirty, timer, read, account, disk, exposed, passed>>
    BY DEF AdapterReady, storageVars, IsSave
<1>2. /\ calls' \in Seq(CallRecord) /\ OneConfigure'
      /\ \A call \in Pending(calls') :
            /\ IsSave(call) => call \in Pending(calls)
            /\ ~IsSave(call) => call.step = 1
    BY <1>1, ConfigureCall
<1>3. Typing'
    BY <1>1, <1>2 DEF IInv, Typing, Configs
<1>4. Rehydrated' = Rehydrated /\ AllExposed' = AllExposed
    BY <1>1 DEF Rehydrated, AllExposed
<1>5. ConfigureOK'
    BY <1>1, <1>2 DEF ConfigureOK
<1>6. ReadIsDisk'
    BY <1>1, <1>4 DEF IInv, ReadIsDisk
<1>7. "wallets" \in DOMAIN read' => GoodWallets(read.wallets', exposed, passed)
    BY <1>1 DEF IInv, GoodParts
<1> QED
    BY <1>1, <1>2, <1>3, <1>4, <1>5, <1>6, <1>7, ConfigureSteps

\* The rehydration is at the step of configure()'s call.
LEMMA ConfigureStep ==
    ASSUME IInv, calls # <<>>, ~IsSave(Head(calls)), config = "reading"
    PROVE  /\ Head(calls).step \in 1..4
           /\ Head(calls).frame = "configure"
           /\ ~AllExposed =>
                /\ Head(calls).step > 1 /\ "transactions" \in DOMAIN disk
                    => "transactions" \in DOMAIN read
                /\ Head(calls).step > 2 /\ "wallets" \in DOMAIN disk
                    => "wallets" \in DOMAIN read
<1>1. Head(calls) \in Pending(calls) /\ Head(calls) \in CallRecord
    BY ServedCall
<1>2. Head(calls).step \in 0..4
    BY <1>1 DEF CallRecord
<1>3. Head(calls).step # 0
    BY <1>1 DEF IInv, ConfigureOK
<1> QED
    BY <1>1, <1>2, <1>3 DEF IInv, ConfigureOK, IsSave

\* What rehydrateState knows once the adapter has returned an item
KnownAfter(step) ==
    [part \in DOMAIN read \cup ({Order[step]} \cap DOMAIN disk) |->
        IF part = Order[step] THEN disk[part] ELSE read[part]]

LEMMA KnownFacts ==
    ASSUME IInv, NEW step \in 1..4
    PROVE  /\ DOMAIN KnownAfter(step) = DOMAIN read \cup ({Order[step]} \cap DOMAIN disk)
           /\ DOMAIN KnownAfter(step) \subseteq DOMAIN disk
           /\ \A part \in DOMAIN KnownAfter(step) :
                \/ part \in DOMAIN read /\ KnownAfter(step)[part] = read[part]
                \/ part \in DOMAIN disk /\ KnownAfter(step)[part] = disk[part]
           /\ ~AllExposed => \A part \in DOMAIN KnownAfter(step) :
                KnownAfter(step)[part] = disk[part]
<1> DEFINE known == KnownAfter(step)
<1>1. /\ DOMAIN known = DOMAIN read \cup ({Order[step]} \cap DOMAIN disk)
      /\ \A part \in DOMAIN known : known[part] =
            IF part = Order[step] THEN disk[part] ELSE read[part]
    BY DEF KnownAfter
<1> HIDE DEF known
<1>2. DOMAIN known \subseteq DOMAIN disk
    BY <1>1 DEF IInv, ReadIsDisk
<1>3. ASSUME NEW part \in DOMAIN known
      PROVE  \/ part \in DOMAIN read /\ known[part] = read[part]
             \/ part \in DOMAIN disk /\ known[part] = disk[part]
    BY <1>1, <1>2
<1>4. ASSUME ~AllExposed, NEW part \in DOMAIN known PROVE known[part] = disk[part]
    BY <1>3, <1>4 DEF IInv, ReadIsDisk
<1> QED
    BY <1>1, <1>2, <1>3, <1>4 DEF known

\* A part is read, and the next one is asked for.
LEMMA PartReadIInv ==
    ASSUME IInv, ItemRead, Head(calls).step # 4
    PROVE  IInv'
<1> DEFINE step == Head(calls).step
           known == KnownAfter(step)
<1>1. calls # <<>> /\ ~IsSave(Head(calls)) /\ config = "reading"
    BY DEF ItemRead, IsSave
<1>2. /\ step \in 1..4
      /\ ~AllExposed =>
            /\ step > 1 /\ "transactions" \in DOMAIN disk => "transactions" \in DOMAIN read
            /\ step > 2 /\ "wallets" \in DOMAIN disk => "wallets" \in DOMAIN read
    BY <1>1, ConfigureStep
<1>3. /\ read' = known
      /\ calls' = Append(Tail(calls), Call("configure", step + 1))
      /\ UNCHANGED <<store, timer, config, mapped, dirty, account, disk, exposed, passed>>
    BY OrderFacts DEF ItemRead, KnownAfter
<1>4. /\ DOMAIN known = DOMAIN read \cup ({Order[step]} \cap DOMAIN disk)
      /\ DOMAIN known \subseteq DOMAIN disk
      /\ \A part \in DOMAIN known :
            \/ part \in DOMAIN read /\ known[part] = read[part]
            \/ part \in DOMAIN disk /\ known[part] = disk[part]
      /\ ~AllExposed => \A part \in DOMAIN known : known[part] = disk[part]
    BY <1>2, KnownFacts
<1> HIDE DEF known
<1>5. step + 1 \in 1..4
    BY <1>2
<1> HIDE DEF step
<1>6. /\ calls' \in Seq(CallRecord) /\ OneConfigure'
      /\ \A call \in Pending(calls') :
            /\ IsSave(call) => call \in Pending(calls)
            /\ ~IsSave(call) => call.step = step + 1
    BY <1>1, <1>3, <1>5, ConfigureCall
<1>7. Typing'
    <2>1. DOMAIN known \in SUBSET Content
        BY <1>4 DEF IInv, Typing
    <2>2. "transactions" \in DOMAIN known => known.transactions \in SUBSET Tx
        BY <1>4 DEF IInv, Typing
    <2> QED
        BY <1>3, <1>6, <2>1, <2>2 DEF IInv, Typing
<1>8. Rehydrated' = Rehydrated /\ AllExposed' = AllExposed /\ ~Rehydrated
    BY <1>1, <1>3 DEF Rehydrated, AllExposed
<1>9. "wallets" \in DOMAIN read' => GoodWallets(read.wallets', exposed, passed)
    BY <1>3, <1>4 DEF IInv, GoodParts
<1>10. ConfigureOK'
    <2> SUFFICES ASSUME NEW call \in Pending(calls'), ~IsSave(call)
                 PROVE  /\ config' \in {"adapter", "reading"}
                        /\ call.step = 0 <=> config' = "adapter"
                        /\ ~AllExposed' =>
                            /\ call.step > 1 /\ "transactions" \in DOMAIN disk'
                                => "transactions" \in DOMAIN read'
                            /\ call.step > 2 /\ "wallets" \in DOMAIN disk'
                                => "wallets" \in DOMAIN read'
        BY DEF ConfigureOK
    <2>1. call.step = step + 1
        BY <1>6
    <2>2. config' = "reading" /\ ~(call.step = 0) /\ config' # "adapter"
        BY <1>1, <1>3, <1>5, <2>1
    <2>3. ASSUME ~AllExposed, "transactions" \in DOMAIN disk
          PROVE  "transactions" \in DOMAIN known
        <3>1. step = 1 \/ step > 1
            BY <1>2
        <3> QED
            BY <1>2, <1>4, <2>3, <3>1, OrderFacts
    <2>4. ASSUME ~AllExposed, call.step > 2, "wallets" \in DOMAIN disk
          PROVE  "wallets" \in DOMAIN known
        <3>1. step = 2 \/ step > 2
            BY <1>2, <2>1, <2>4
        <3> QED
            BY <1>2, <1>4, <2>4, <3>1, OrderFacts
    <2> QED
        BY <1>3, <1>8, <2>2, <2>3, <2>4
<1>11. ReadIsDisk'
    BY <1>3, <1>4, <1>8 DEF ReadIsDisk
<1> QED
    BY <1>3, <1>6, <1>7, <1>8, <1>9, <1>10, <1>11, ConfigureSteps

\* Unless everything is exposed, what the rehydration has read is the disk's.
LEMMA ReadFacts ==
    ASSUME IInv, ~AllExposed
    PROVE  /\ "transactions" \in DOMAIN read =>
                "transactions" \in DOMAIN disk /\ read.transactions = disk.transactions
           /\ "wallets" \in DOMAIN read =>
                "wallets" \in DOMAIN disk /\ read.wallets = disk.wallets
BY DEF IInv, ReadIsDisk

\* The last part is read, and the store is merged with what was read: all that
\* is not exposed comes from the disk.
LEMMA MergeIInv ==
    ASSUME IInv, ItemRead, Head(calls).step = 4
    PROVE  IInv'
<1> DEFINE known == KnownAfter(4)
           ours == store.wallets.addresses
           theirs == read.wallets.addresses
<1>1. calls # <<>> /\ ~IsSave(Head(calls)) /\ config = "reading" /\ ~Rehydrated
    BY DEF ItemRead, IsSave, Rehydrated
<1>2. ~AllExposed =>
        /\ "transactions" \in DOMAIN disk => "transactions" \in DOMAIN read
        /\ "wallets" \in DOMAIN disk => "wallets" \in DOMAIN read
    BY <1>1, ConfigureStep
<1>3. /\ store' = Merged(known) /\ read' = <<>> /\ calls' = Tail(calls)
      /\ timer' = TRUE /\ config' = "done"
      /\ UNCHANGED <<mapped, dirty, account, disk, exposed, passed>>
    BY OrderFacts DEF ItemRead, KnownAfter
<1>4. /\ DOMAIN known = DOMAIN read
      /\ \A part \in DOMAIN read : known[part] = read[part]
    BY OrderFacts DEF IInv, Typing, KnownAfter
<1> HIDE DEF known
<1>5. /\ store' = [transactions |-> store.transactions', wallets |-> store.wallets']
      /\ "transactions" \in DOMAIN read =>
            store.transactions' = store.transactions \cup read.transactions
      /\ "transactions" \notin DOMAIN read => store.transactions' = store.transactions
      /\ "wallets" \in DOMAIN read => store.wallets' =
            [addresses |-> MergedAddresses(ours, theirs), blockHeight |-> read.wallets.blockHeight]
      /\ "wallets" \notin DOMAIN read => store.wallets' = store.wallets
    BY <1>3, <1>4 DEF Merged
<1>6. /\ store.transactions' \in SUBSET Tx /\ store.transactions \subseteq store.transactions'
      /\ exposed \in SUBSET Tx /\ passed \in SUBSET Tx
    BY <1>5 DEF IInv, Typing
<1>7. /\ Rehydrated' /\ AllExposed' = AllExposed
      /\ SavedTransactions' = SavedTransactions
      /\ DOMAIN read' = {}
    BY <1>3 DEF Rehydrated, AllExposed, SavedTransactions
<1>8. ~AllExposed => SavedTransactions \subseteq store.transactions'
    BY <1>2, <1>5, ReadFacts DEF SavedTransactions
<1>9. GoodWallets(store.wallets, exposed, passed) /\ OnlyFree(ours, exposed)
    BY <1>1 DEF IInv, GoodParts, EarlyIsExposed
<1>10. /\ GoodWallets(store.wallets', exposed, passed)
       /\ DOMAIN ours \subseteq DOMAIN store.wallets.addresses'
       /\ \A t \in Tx \ exposed : Claims(store.wallets', t, passed) =>
            \/ t \in SavedTransactions
            \/ ~Listed(store.wallets', t) /\ t \in store.transactions
    <2>1. CASE "wallets" \in DOMAIN read
        <3> DEFINE merged == MergedAddresses(ours, theirs)
        <3>1. GoodWallets(read.wallets, exposed, passed)
            BY <2>1 DEF IInv, GoodParts
        <3>2. /\ GoodObjects(merged, exposed)
              /\ DOMAIN merged = DOMAIN ours \cup DOMAIN theirs
              /\ \A a \in DOMAIN merged : \A t \in Tx \ exposed :
                    Lists(merged[a], t) => a \in DOMAIN theirs /\ Lists(theirs[a], t)
            BY <1>9, <3>1, MergedObjects DEF GoodWallets
        <3> HIDE DEF merged
        <3>3. store.wallets' = [addresses |-> merged, blockHeight |-> read.wallets.blockHeight]
            BY <1>5, <2>1 DEF merged
        <3>4. store.wallets'.addresses = merged
                 /\ store.wallets'.blockHeight = read.wallets.blockHeight
            BY <3>3
        <3>5. GoodWallets(store.wallets', exposed, passed)
            BY <3>1, <3>2, <3>3, <3>4 DEF GoodWallets
        <3>6. ASSUME NEW t \in Tx \ exposed, Claims(store.wallets', t, passed)
              PROVE  t \in SavedTransactions
            <4>1. ~AllExposed
                BY DEF AllExposed
            <4>2. read.wallets = disk.wallets /\ "wallets" \in DOMAIN disk
                BY <2>1, <4>1, ReadFacts
            <4>3. Claims(read.wallets, t, passed)
                <5>1. CASE Listed(store.wallets', t)
                    BY <3>2, <3>4, <5>1 DEF Listed, Claims
                <5>2. CASE ~Listed(store.wallets', t)
                    <6>1. t <= read.wallets.blockHeight /\ t \notin passed
                        BY <3>4, <3>6, <5>2 DEF Claims
                    <6> QED
                        BY <3>1, <6>1 DEF GoodWallets, Claims
                <5> QED
                    BY <5>1, <5>2
            <4> QED
                BY <4>2, <4>3 DEF IInv, DiskBacked, Backed
        <3> QED
            BY <3>2, <3>4, <3>5, <3>6
    <2>2. CASE "wallets" \notin DOMAIN read
        <3>1. store.wallets' = store.wallets
            BY <1>5, <2>2
        <3>2. \A t \in Tx \ exposed : ~Listed(store.wallets, t)
            BY <1>9 DEF OnlyFree, Listed
        <3> QED
            BY <1>9, <3>1, <3>2 DEF IInv, StoreBacked, Backed
    <2> QED
        BY <2>1, <2>2
<1>11. /\ Tail(calls) \in Seq(CallRecord) /\ Pending(Tail(calls)) \subseteq Pending(calls)
       /\ Single(Tail(calls))
       /\ \A call \in Pending(Tail(calls)) : IsSave(call)
    BY <1>1, ServedCall
<1>12. Typing'
    <2>1. mapped' \in SUBSET DOMAIN store.wallets.addresses'
        BY <1>3, <1>10 DEF IInv, Typing
    <2>2. timer' \in BOOLEAN
        BY <1>3
    <2> QED
        BY <1>3, <1>5, <1>6, <1>7, <1>11, <2>1, <2>2 DEF IInv, Typing, Configs
<1>13. GoodParts'
    BY <1>3, <1>7, <1>10 DEF IInv, GoodParts
<1>14. StoreBacked'
    <2> SUFFICES ASSUME NEW t \in Tx \ exposed, Claims(store.wallets', t, passed)
                 PROVE  t \in store.transactions'
        BY <1>3 DEF StoreBacked, Backed
    <2>1. ~AllExposed
        BY DEF AllExposed
    <2> QED
        BY <1>6, <1>8, <1>10, <2>1
<1>15. DiskBacked'
    BY <1>3, <1>7 DEF IInv, DiskBacked
<1>16. SavesOK'
    <2> SUFFICES ASSUME NEW call \in Pending(calls'), IsSave(call)
                 PROVE  GoodSave(call, store.transactions', SavedTransactions, exposed, passed)
        BY <1>3, <1>7 DEF SavesOK
    <2>1. /\ AllExposed
          /\ GoodSave(call, store.transactions, SavedTransactions, exposed, passed)
        BY <1>1, <1>3, <1>11 DEF IInv, SavesOK
    <2>2. store.transactions' \ exposed \subseteq store.transactions
        BY <1>6, <2>1 DEF AllExposed
    <2> QED
        BY <1>6, <2>1, <2>2, GoodSaveStays
<1>17. ConfigureOK' /\ OneConfigure'
    BY <1>3, <1>11 DEF ConfigureOK, OneConfigure
<1>18. EarlyIsExposed' /\ ReadIsDisk'
    BY <1>7 DEF EarlyIsExposed, ReadIsDisk
<1>19. SavedIsKnown'
    BY <1>3, <1>7, <1>8 DEF SavedIsKnown
<1>20. CreditIsSavedOrPending'
    <2> SUFFICES ASSUME NEW t \in Tx \ exposed, Listed(store.wallets', t)
                 PROVE  t \in SavedTransactions
        BY <1>3, <1>7 DEF CreditIsSavedOrPending
    <2> QED
        BY <1>10 DEF Claims
<1> QED
    BY <1>12, <1>13, <1>14, <1>15, <1>16, <1>17, <1>18, <1>19, <1>20 DEF IInv

LEMMA ItemReadIInv == IInv /\ ItemRead => IInv'
BY PartReadIInv, MergeIInv

-----------------------------------------------------------------------------
(* Writing *)

\* The save that the adapter serves, what the disk holds after it, and what is
\* saved then: all that was, and all that the store has, but what is exposed.
LEMMA WrittenFacts ==
    ASSUME IInv, ItemSet
    PROVE  /\ calls # <<>> /\ IsSave(Head(calls)) /\ Head(calls).step \in 1..4
           /\ Head(calls).frame \in {"interval", "disconnect"}
           /\ Rehydrated \/ AllExposed
           /\ DOMAIN disk \subseteq DOMAIN disk' /\ DOMAIN disk' \in SUBSET Content
           /\ "transactions" \in DOMAIN disk' => disk.transactions' \in SUBSET Tx
           /\ SavedTransactions \ exposed \subseteq SavedTransactions'
           /\ store.transactions \ exposed \subseteq SavedTransactions'
           /\ \/ "wallets" \in DOMAIN disk /\ disk.wallets' = disk.wallets
              \/ "wallets" \notin DOMAIN disk'
              \/ /\ GoodWallets(disk.wallets', exposed, passed)
                 /\ Backed(disk.wallets', store.transactions, exposed, passed)
           /\ Rehydrated /\ ~AllExposed =>
                SavedTransactions' \ exposed \subseteq store.transactions
<1> DEFINE call == Head(calls)
           part == Order[call.step]
<1>1. calls # <<>> /\ IsSave(call)
    BY DEF ItemSet, IsSave
<1>2. /\ call \in CallRecord
      /\ Rehydrated \/ AllExposed
      /\ GoodSave(call, store.transactions, SavedTransactions, exposed, passed)
    BY <1>1, ServedCall DEF IInv, SavesOK
<1>3. call.step \in 1..4 /\ call.frame \in {"interval", "disconnect"}
    BY <1>1, <1>2 DEF GoodSave, IsSave, CallRecord
<1>4. /\ DOMAIN disk' = DOMAIN disk \cup ({part} \cap Content)
      /\ \A p \in DOMAIN disk' : disk'[p] = IF p = part THEN call.value ELSE disk[p]
    BY DEF ItemSet
<1>5. /\ store.transactions \in SUBSET Tx /\ SavedTransactions \in SUBSET Tx
      /\ DOMAIN disk \in SUBSET Content
    BY DEF IInv, Typing, SavedTransactions
<1>6. DOMAIN disk \subseteq DOMAIN disk' /\ DOMAIN disk' \in SUBSET Content
    BY <1>4, <1>5
<1>7. CASE call.step = 1
    <2>1. part = "transactions" /\ part \in Content
        BY <1>7, OrderFacts
    <2>2. /\ "transactions" \in DOMAIN disk' /\ disk.transactions' = call.value
          /\ SavedTransactions' = call.value
        BY <1>4, <2>1 DEF SavedTransactions
    <2>3. call.value \subseteq store.transactions /\ store.transactions \ exposed \subseteq call.value
        BY <1>2, <1>7 DEF GoodSave
    <2>4. SavedTransactions \ exposed \subseteq SavedTransactions'
        <3>1. CASE AllExposed
            BY <1>5, <3>1 DEF AllExposed
        <3>2. CASE Rehydrated /\ ~AllExposed
            BY <2>2, <2>3, <3>2 DEF IInv, SavedIsKnown
        <3> QED
            BY <1>2, <3>1, <3>2
    <2>5. \/ "wallets" \in DOMAIN disk /\ disk.wallets' = disk.wallets
          \/ "wallets" \notin DOMAIN disk'
        BY <1>4, <2>1
    <2> HIDE DEF part
    <2> QED
        BY <1>1, <1>2, <1>3, <1>5, <1>6, <2>2, <2>3, <2>4, <2>5
<1>8. CASE call.step # 1
    <2>1. part # "transactions" /\ store.transactions \ exposed \subseteq SavedTransactions
        BY <1>2, <1>3, <1>8, OrderFacts DEF GoodSave
    <2>2. /\ "transactions" \in DOMAIN disk' <=> "transactions" \in DOMAIN disk
          /\ "transactions" \in DOMAIN disk => disk.transactions' = disk.transactions
        BY <1>4, <2>1
    <2>3. SavedTransactions' = SavedTransactions
        BY <2>2 DEF SavedTransactions
    <2>4. "transactions" \in DOMAIN disk' => disk.transactions' \in SUBSET Tx
        BY <2>2 DEF IInv, Typing
    <2>5. CASE call.step = 2
        <3>1. disk.wallets' = call.value
            BY <1>4, <2>5, OrderFacts
        <3>2. /\ GoodWallets(call.value, exposed, passed)
              /\ Backed(call.value, store.transactions, exposed, passed)
            BY <1>2, <2>5 DEF GoodSave
        <3> HIDE DEF part
        <3> QED
            BY <1>1, <1>2, <1>3, <1>6, <2>1, <2>3, <2>4, <3>1, <3>2 DEF IInv, SavedIsKnown
    <2>6. CASE call.step # 2
        <3>1. part # "wallets"
            BY <1>3, <1>8, <2>6, OrderFacts
        <3>2. \/ "wallets" \in DOMAIN disk /\ disk.wallets' = disk.wallets
              \/ "wallets" \notin DOMAIN disk'
            BY <1>4, <3>1
        <3> HIDE DEF part
        <3> QED
            BY <1>1, <1>2, <1>3, <1>6, <2>1, <2>3, <2>4, <3>2 DEF IInv, SavedIsKnown
    <2> QED
        BY <2>5, <2>6
<1> QED
    BY <1>7, <1>8

\* The save goes on with the next part, or has ended.
LEMMA NextSave ==
    ASSUME IInv, ItemSet
    PROVE  /\ calls' \in Seq(CallRecord)
           /\ OneConfigure'
           /\ \A call \in Pending(calls') :
                \/ call \in Pending(calls)
                \/ /\ IsSave(call)
                   /\ GoodSave(call, store.transactions, SavedTransactions', exposed, passed)
<1> DEFINE rest == Tail(calls)
           step == Head(calls).step
           frame == Head(calls).frame
           new == Call(frame, step + 1)
<1>1. /\ calls # <<>> /\ step \in 1..4 /\ frame \in {"interval", "disconnect"}
      /\ store.transactions \ exposed \subseteq SavedTransactions'
    BY WrittenFacts
<1>2. /\ rest \in Seq(CallRecord) /\ Pending(rest) \subseteq Pending(calls) /\ Single(rest)
    BY <1>1, ServedCall
<1>3. /\ step = 4 => calls' = rest
      /\ step # 4 => calls' = Append(rest, new)
    BY OrderFacts DEF ItemSet
<1>4. CASE step = 4
    <2> HIDE DEF rest, new
    <2> QED
        BY <1>2, <1>3, <1>4 DEF OneConfigure
<1>5. CASE step # 4
    <2>1. step + 1 \in 1..4 /\ step + 1 > 1 /\ (step + 1 = 2 <=> step = 1)
        BY <1>1, <1>5
    <2>2. /\ new \in CallRecord /\ new.frame = frame /\ new.step = step + 1
          /\ step + 1 = 2 => new.value = store.wallets
        BY <1>1, <2>1, CallFacts
    <2>3. calls' = Append(rest, new)
        BY <1>3, <1>5
    <2> HIDE DEF rest, new
    <2>4. IsSave(new)
        BY <1>1, <2>2 DEF IsSave
    <2>5. /\ Append(rest, new) \in Seq(CallRecord)
          /\ Pending(Append(rest, new)) = Pending(rest) \cup {new}
        BY <1>2, <2>2, AppendPending
    <2>6. Single(Append(rest, new))
        BY <1>2, <2>2, <2>4, AppendSingle
    <2>7. GoodSave(new, store.transactions, SavedTransactions', exposed, passed)
        BY <1>1, <2>1, <2>2 DEF GoodSave, IInv, GoodParts, StoreBacked
    <2> QED
        BY <1>2, <2>3, <2>4, <2>5, <2>6, <2>7 DEF OneConfigure
<1> QED
    BY <1>4, <1>5

\* Whatever part is written, the disk stays good and backed.
LEMMA ItemSetIInv == IInv /\ ItemSet => IInv'
<1> SUFFICES ASSUME IInv, ItemSet PROVE IInv'
    OBVIOUS
<1>1. /\ calls # <<>> /\ IsSave(Head(calls))
      /\ Rehydrated \/ AllExposed
      /\ DOMAIN disk \subseteq DOMAIN disk' /\ DOMAIN disk' \in SUBSET Content
      /\ "transactions" \in DOMAIN disk' => disk.transactions' \in SUBSET Tx
      /\ SavedTransactions \ exposed \subseteq SavedTransactions'
      /\ store.transactions \ exposed \subseteq SavedTransactions'
      /\ Rehydrated /\ ~AllExposed => SavedTransactions' \ exposed \subseteq store.transactions
    BY WrittenFacts
<1>2. \/ "wallets" \in DOMAIN disk /\ disk.wallets' = disk.wallets
      \/ "wallets" \notin DOMAIN disk'
      \/ /\ GoodWallets(disk.wallets', exposed, passed)
         /\ Backed(disk.wallets', store.transactions, exposed, passed)
    BY WrittenFacts
<1>3. /\ calls' \in Seq(CallRecord) /\ OneConfigure'
      /\ \A call \in Pending(calls') :
            \/ call \in Pending(calls)
            \/ /\ IsSave(call)
               /\ GoodSave(call, store.transactions, SavedTransactions', exposed, passed)
    BY NextSave
<1>4. /\ UNCHANGED <<store, mapped, config, read, account, exposed, passed>>
      /\ dirty' = SaveEnds(Head(calls)).dirty /\ timer' = SaveEnds(Head(calls)).timer
    BY DEF ItemSet
<1>5. Rehydrated' = Rehydrated /\ AllExposed' = AllExposed
    BY <1>4 DEF Rehydrated, AllExposed
<1>6. dirty' \in BOOLEAN /\ timer' \in BOOLEAN
    BY <1>4 DEF IInv, Typing, SaveEnds
<1>7. Typing'
    BY <1>1, <1>3, <1>4, <1>6 DEF IInv, Typing
<1>8. GoodParts'
    BY <1>2, <1>4 DEF IInv, GoodParts
<1>9. StoreBacked'
    BY <1>4 DEF IInv, StoreBacked
<1>10. DiskBacked'
    <2> SUFFICES ASSUME "wallets" \in DOMAIN disk'
                 PROVE  Backed(disk.wallets', SavedTransactions', exposed, passed)
        BY <1>4 DEF DiskBacked
    <2>1. CASE "wallets" \in DOMAIN disk /\ disk.wallets' = disk.wallets
        <3>1. Backed(disk.wallets, SavedTransactions, exposed, passed)
            BY <2>1 DEF IInv, DiskBacked
        <3>2. Backed(disk.wallets, SavedTransactions', exposed, passed)
            BY <1>1, <3>1, BackedStays
        <3> QED
            BY <2>1, <3>2
    <2>2. CASE Backed(disk.wallets', store.transactions, exposed, passed)
        BY <1>1, <2>2, BackedStays
    <2> QED
        BY <1>2, <2>1, <2>2
<1>11. SavesOK'
    <2> SUFFICES ASSUME NEW call \in Pending(calls'), IsSave(call)
                 PROVE  GoodSave(call, store.transactions, SavedTransactions', exposed, passed)
        BY <1>1, <1>4, <1>5 DEF SavesOK
    <2>1. CASE call \in Pending(calls)
        <3>1. GoodSave(call, store.transactions, SavedTransactions, exposed, passed)
            BY <2>1 DEF IInv, SavesOK
        <3> QED
            BY <1>1, <3>1, GoodSaveStays
    <2> QED
        BY <1>3, <2>1
<1>12. ConfigureOK'
    <2> SUFFICES ASSUME NEW call \in Pending(calls'), ~IsSave(call)
                 PROVE  /\ config \in {"adapter", "reading"}
                        /\ call.step = 0 <=> config = "adapter"
                        /\ AllExposed
        BY <1>4, <1>5 DEF ConfigureOK
    <2>1. call \in Pending(calls)
        BY <1>3
    <2>2. /\ config \in {"adapter", "reading"}
          /\ call.step = 0 <=> config = "adapter"
        BY <2>1 DEF IInv, ConfigureOK
    <2> QED
        BY <1>1, <2>2 DEF Rehydrated
<1>13. EarlyIsExposed'
    BY <1>4, <1>5 DEF IInv, EarlyIsExposed
<1>14. ReadIsDisk'
    BY <1>1, <1>4, <1>5 DEF IInv, ReadIsDisk
<1>15. SavedIsKnown'
    BY <1>1, <1>4, <1>5 DEF SavedIsKnown
<1>16. CreditIsSavedOrPending'
    <2> SUFFICES ASSUME NEW t \in Tx \ exposed, Listed(store.wallets, t)
                 PROVE  t \in SavedTransactions'
        BY <1>4 DEF CreditIsSavedOrPending
    <2>1. t \in store.transactions
        BY DEF IInv, StoreBacked, Backed, Claims
    <2> QED
        BY <1>1, <2>1
<1> QED
    BY <1>3, <1>7, <1>8, <1>9, <1>10, <1>11, <1>12, <1>13, <1>14, <1>15, <1>16 DEF IInv

-----------------------------------------------------------------------------
(* The theorems *)

\* Every step keeps the strengthened invariant.
LEMMA IInvInductive == IInv /\ [Next]_vars => IInv'
<1>1. ASSUME IInv, UNCHANGED vars PROVE IInv'
    <2>1. /\ UNCHANGED <<store, mapped, dirty, timer, config, read, calls, account, disk,
                         exposed, passed>>
        BY <1>1 DEF vars, storageVars
    <2>2. Typing' /\ Rehydrated' = Rehydrated /\ AllExposed' = AllExposed
        BY <1>1, <2>1 DEF IInv, Typing, Rehydrated, AllExposed
    <2>3. ConfigureOK' /\ OneConfigure' /\ ReadIsDisk'
        BY <1>1, <2>1, <2>2 DEF IInv, ConfigureOK, OneConfigure, ReadIsDisk
    <2>4. "wallets" \in DOMAIN read' => GoodWallets(read.wallets', exposed, passed)
        BY <1>1, <2>1 DEF IInv, GoodParts
    <2> QED
        BY <1>1, <2>1, <2>2, <2>3, <2>4, ConfigureSteps
<1> QED
    BY <1>1, TickIInv, DisconnectIInv, ItemSetIInv, AdapterReadyIInv, ItemReadIInv,
       CallFailsIInv, CreateAccountIInv, RestartIInv, ImportIInv, AdvanceIInv DEF Next

\* The strengthened invariant holds in every state of every behaviour.
LEMMA AlwaysIInv == Spec => []IInv
BY InitIInv, IInvInductive, PTL DEF Spec

\* The storage's state keeps its type, whatever is imported, saved, read, lost
\* or merged.
THEOREM PersistenceTypeCorrect == Spec => []TypeOK
<1>1. IInv => TypeOK
    <2> SUFFICES ASSUME IInv PROVE TypeOK
        OBVIOUS
    <2>1. IsWallets(store.wallets) /\ ("wallets" \in DOMAIN disk => IsWallets(disk.wallets))
             /\ ("wallets" \in DOMAIN read => IsWallets(read.wallets))
        BY GoodWalletsType DEF IInv, GoodParts
    <2>2. Holds(store)
        <3>1. DOMAIN store = {"transactions", "wallets"}
            BY DEF IInv, Typing
        <3> QED
            BY <2>1, <3>1 DEF IInv, Typing, Holds
    <2>3. Holds(disk) /\ Holds(read)
        BY <2>1 DEF IInv, Typing, Holds, Content
    <2>4. \A i \in DOMAIN calls :
            /\ calls[i].frame \in {"configure", "interval", "disconnect"}
            /\ calls[i].step \in 0..Len(Order)
        <3>1. \A i \in DOMAIN calls : calls[i] \in CallRecord
            BY DEF IInv, Typing
        <3> QED
            BY <3>1, OrderFacts DEF CallRecord
    <2> QED
        BY <2>2, <2>3, <2>4 DEF IInv, Typing, TypeOK, Configs
<1> QED
    BY <1>1, AlwaysIInv, PTL

\* The process may end between any two items of any saves, and the wallets on
\* the disk have taken in nothing that is not on the disk with them.
THEOREM PersistenceDiskResumes == Spec => []DiskResumes
<1>1. IInv => DiskResumes
    BY DEF IInv, DiskBacked, Backed, Claims, DiskResumes, TakenIn
<1> QED
    BY <1>1, AlwaysIInv, PTL

\* A credited transaction that is not saved makes the next tick save.
THEOREM PersistenceCreditIsSavedOrPending == Spec => []CreditIsSavedOrPending
<1>1. IInv => CreditIsSavedOrPending
    BY DEF IInv
<1> QED
    BY <1>1, AlwaysIInv, PTL

\* Imports and merges keep the balance of an address the worth of its UTXOs.
THEOREM PersistenceBalanceMatchesUtxos == Spec => []BalanceMatchesUtxos
<1>1. IInv => BalanceMatchesUtxos
    BY DEF IInv, GoodParts, GoodWallets, GoodObjects, GoodObject, BalanceMatchesUtxos
<1> QED
    BY <1>1, AlwaysIInv, PTL

\* What one process has saved, no step of a later one removes from the disk,
\* unless a save overtook the rehydration.
THEOREM PersistenceSavedIsKept == Spec => SavedIsKept
<1>1. ASSUME IInv, [Next]_vars
      PROVE  \A t \in SavedTransactions : t \in SavedTransactions' \/ t \in exposed'
    <2>1. CASE ItemSet
        <3>1. SavedTransactions \ exposed \subseteq SavedTransactions' /\ exposed' = exposed
            BY <1>1, <2>1, WrittenFacts DEF ItemSet
        <3> QED
            BY <3>1
    <2>2. CASE ~ItemSet
        <3>1. disk' = disk
            BY <1>1, <2>2 DEF Next, vars, Tick, Disconnect, AdapterReady, ItemRead, CallFails,
               CreateAccount, Restart, Import, Advance
        <3> QED
            BY <3>1 DEF SavedTransactions
    <2> QED
        BY <2>1, <2>2
<1> QED
    BY <1>1, AlwaysIInv, PTL DEF Spec, SavedIsKept
=============================================================================
