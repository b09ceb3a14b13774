---------------------------- MODULE MCDelivery ----------------------------
(***************************************************************************)
(* Instances of Delivery for TLC.                                          *)
(***************************************************************************)
EXTENDS Delivery, TLC

CONSTANTS u1, u2, c1, c2, o1, o2, o3

(* Two networks, one channel on each.                                      *)
TwoNets == c1 :> 1 @@ c2 :> 2
OnSecond == c2 :> 2
OneNet == c1 :> 1

ObjSymmetry == Permutations(Objs)

(* With a single network a row goes there whether it was routed or not, so *)
(* that how long its handler takes does not matter to the promise.  The    *)
(* other runs let the handler be overtaken.                                *)
RoutesAtOnce == routing # {} => routing' # routing
===========================================================================
