---------------------------- MODULE MCOspfAging ----------------------------
(***************************************************************************)
(* Instances of OspfAging.  A second has four parts or ten, and the times  *)
(* are in the proportion they have in utils.h: a refresh at half of        *)
(* MaxAge, a difference of a quarter.                                      *)
(***************************************************************************)
EXTENDS OspfAging

TwoRouters == 1..2
ThreeRouters == 1..3
Pair == {<<1, 2>>, <<2, 1>>}
Line == {<<1, 2>>, <<2, 1>>, <<2, 3>>, <<3, 2>>}
=============================================================================
