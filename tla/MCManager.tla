----------------------------- MODULE MCManager -----------------------------
(***************************************************************************)
(* Instances of Manager for TLC.  The first network is there, with the     *)
(* channel or without one; the second one has to be added.                 *)
(***************************************************************************)
EXTENDS Manager

CONSTANTS c1, h1, h2

MCInit == Init /\ nets[1].here /\ ~nets[2].here
MCSpec == MCInit /\ [][Next]_vars /\ Fairness
=============================================================================
