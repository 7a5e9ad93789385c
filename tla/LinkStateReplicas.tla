------------------------- MODULE LinkStateReplicas -------------------------
(***************************************************************************)
(* What the link state databases of a routing domain promise.  Every       *)
(* router keeps a replica of every originator's advertisement, as the      *)
(* sequence number of the instance it holds.  Only the originator makes a  *)
(* new instance; any other router only ever replaces what it holds by an   *)
(* instance that is newer and that the originator has made.                *)
(*                                                                         *)
(* Nothing is said of how instances travel, nor that they arrive: the      *)
(* detailed specification that implements this one is OspfAdjacency.       *)
(***************************************************************************)
EXTENDS Integers

CONSTANT Router

VARIABLE lsdb  \* lsdb[r][a]: the instance of a's advertisement r holds

None == -1

Init == lsdb = [r \in Router |-> [a \in Router |-> IF a = r THEN 0 ELSE None]]

Originate(r) == lsdb' = [lsdb EXCEPT ![r][r] = @ + 1]

Learn(r, a) ==
  /\ a # r
  /\ \E seq \in lsdb[r][a] + 1 .. lsdb[a][a] :
       lsdb' = [lsdb EXCEPT ![r][a] = seq]

Next ==
  \/ \E r \in Router : Originate(r)
  \/ \E r, a \in Router : Learn(r, a)

Spec == Init /\ [][Next]_lsdb
=============================================================================
