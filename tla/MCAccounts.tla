----------------------------- MODULE MCAccounts -----------------------------
(***************************************************************************)
(* Instances of Accounts for TLC.                                          *)
(***************************************************************************)
EXTENDS Accounts, TLC

CONSTANTS s1, s2, l1, l2, l3, i1, h1, h2

Alike == Permutations(Sids) \cup Permutations(Links) \cup Permutations(Handlers)
=============================================================================
