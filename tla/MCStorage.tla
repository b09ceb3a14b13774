----------------------------- MODULE MCStorage -----------------------------
(***************************************************************************)
(* Instances of Storage for TLC: messages of one person, and an event of   *)
(* another.                                                                *)
(***************************************************************************)
EXTENDS Storage, TLC

CONSTANTS c1, c2, hello, hey, joined, ann, bob

Speakers == hello :> ann @@ hey :> ann @@ joined :> bob
============================================================================
