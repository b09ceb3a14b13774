---------------------------- MODULE MCPresence ----------------------------
(***************************************************************************)
(* Instances of Presence for TLC.                                          *)
(***************************************************************************)
EXTENDS Presence, TLC

CONSTANTS me, p1, p2, c1, c2

PeopleSymmetry == Permutations(People)
===========================================================================
