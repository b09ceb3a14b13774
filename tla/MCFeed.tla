------------------------------- MODULE MCFeed -------------------------------
(***************************************************************************)
(* Instances of Feed for TLC.                                              *)
(***************************************************************************)
EXTENDS Feed

CONSTANTS c1, c2, r1, r2, p1, p2

(* Bound: while anybody asks for anything but searches there are at most   *)
(* two messages, whose times and channels only searches look at.           *)
Plain == /\ Len(messages) <= 2
         /\ \A i \in DOMAIN messages : messages[i] = [ts |-> 1, chan |-> c1]
Quiet == requests = 0 /\ edits = 0 /\ clock = 0

MCSpec == Init /\ [][Next /\ (Plain \/ Quiet)']_vars /\ StreamFairness
=============================================================================
