---------------------------- MODULE MCInstantLocks ----------------------------
(***************************************************************************)
(* Instances of InstantLocks, and WalletAccounts with it, for TLC: a new   *)
(* wallet, and one whose accounts are about to reach the index whose       *)
(* decimal form is longer than those before.                               *)
(***************************************************************************)
EXTENDS InstantLocks
=============================================================================
