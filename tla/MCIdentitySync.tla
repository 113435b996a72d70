---------------------------- MODULE MCIdentitySync ----------------------------
(***************************************************************************)
(* Instances of IdentitySync for TLC: a gap limit of 2 and four indexes    *)
(* leave room for a hole, a gap below an identity and one behind it.       *)
(***************************************************************************)
EXTENDS IdentitySync, TLC

Accounts == Permutations(Workers)
=============================================================================
