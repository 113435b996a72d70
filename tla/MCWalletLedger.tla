--------------------------- MODULE MCWalletLedger ---------------------------
(***************************************************************************)
(* Instances of WalletLedger and TransactionHistory for TLC.               *)
(*                                                                         *)
(* Two accounts in one store, Gap 1, so that index 0 of each type is       *)
(* derived at first.  "fund" pays index 0 of account 0 twice; "payA" and   *)
(* "payB" both spend the larger of its outputs, the first to pay account   *)
(* 1, the second to pay index 1, which the wallet derives once index 0 is  *)
(* used, and give change; "move" spends change to pay index 1, and "sweep" *)
(* to pay someone else.  A user may ask for index 2 while 1 is missing.    *)
(***************************************************************************)
EXTENDS TransactionHistory

Ext(i) == <<0, "external", i>>
Change == <<0, "internal", 0>>
Other == <<1, "external", 0>>
ForeignAddress == <<0, "foreign", 0>>

\* creator, owner, output index, satoshis
Output == [
    f0 |-> <<"fund", Ext(0), 0, 3000>>,
    f1 |-> <<"fund", Ext(0), 1, 2000>>,
    a0 |-> <<"payA", Other, 0, 1500>>,
    a1 |-> <<"payA", Change, 1, 1100>>,
    b0 |-> <<"payB", Ext(1), 0, 4000>>,
    b1 |-> <<"payB", Change, 1, 500>>,
    m0 |-> <<"move", Ext(1), 0, 895>>,
    s0 |-> <<"sweep", ForeignAddress, 0, 895>>]

Outpoints == {o \in DOMAIN Output : Output[o][1] \in Tx}
CreatorOf == [o \in Outpoints |-> Output[o][1]]
OwnerOf == [o \in Outpoints |-> Output[o][2]]
\* Added up term by term, as TLC evaluates it very often
SatoshisIn == [S \in SUBSET Outpoints |->
    LET Of(o) == IF o \in S THEN Output[o][4] ELSE 0
    IN  Of("f0") + Of("f1") + Of("a0") + Of("a1") + Of("b0") + Of("b1") + Of("m0") + Of("s0")]

\* The transactions in the order of their hashes
Hashed == [payA |-> 1, payB |-> 2, fund |-> 3, move |-> 4, sweep |-> 5]
SortedBefore == [o \in Outpoints |->
    {p \in Outpoints : \/ Hashed[CreatorOf[p]] < Hashed[CreatorOf[o]]
                       \/ CreatorOf[p] = CreatorOf[o] /\ Output[p][3] < Output[o][3]}]
Spending(tx) ==
    CASE tx = "payA" -> {"f0"}
      [] tx = "payB" -> {"f0", "f1"}
      [] tx \in {"move", "sweep"} -> {"a1"}
      [] OTHER -> {}
Asking(tx) ==
    CASE tx = "payA" -> 1500
      [] tx = "payB" -> 4000
      [] tx = "move" -> 1000
      [] tx = "sweep" -> 900
      [] OTHER -> 0
SpendsOf == [tx \in Tx |-> Spending(tx)]
AmountOf == [tx \in Tx |-> Asking(tx)]
FarAddresses == {Ext(2)}
=============================================================================
