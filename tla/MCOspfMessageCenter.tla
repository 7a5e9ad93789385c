------------------------ MODULE MCOspfMessageCenter ------------------------
(***************************************************************************)
(* An instance of OspfMessageCenter: a small storage, two places, most     *)
(* messages of the type that is not always recorded.                       *)
(***************************************************************************)
EXTENDS OspfMessageCenter, TLC

CONSTANTS s1, s2

TwoSlots == {s1, s2}
SlotsAlike == Permutations(TwoSlots)
Making == [t \in Type |-> IF t = "dd" THEN 4 ELSE 1]
=============================================================================
