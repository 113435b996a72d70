------------------------- MODULE MCStatePersistence -------------------------
(***************************************************************************)
(* Instances of StatePersistence: the first transaction pays an address a  *)
(* new wallet does not watch yet, the second one pays the address it       *)
(* watches and the one derived after that was used.                        *)
(***************************************************************************)
EXTENDS StatePersistence

TwoPayments == <<{2}, {1, 2}>>
=============================================================================
