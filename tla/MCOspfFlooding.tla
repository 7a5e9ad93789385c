--------------------------- MODULE MCOspfFlooding ---------------------------
(***************************************************************************)
(* Three routers on a triangle of links, started where bringing up the     *)
(* three links leaves them: every adjacency FULL and every first instance  *)
(* everywhere.  What is explored is the flooding of later instances, which *)
(* reach a router over two paths and overtake one another.                 *)
(***************************************************************************)
EXTENDS OspfAdjacency

ThreeRouters == {1, 2, 3}
Triangle == {{1, 2}, {2, 3}, {1, 3}}

(* The sequence numbers are those of one undisturbed exchange at time 0:   *)
(* the master's first packet has 1, its second 2, and it is incremented    *)
(* once more when the answer arrives.                                      *)
BroughtUp ==
  /\ state = [p \in Pair |-> FULL]
  /\ ms = [p \in Pair |-> IF p[1] > p[2] THEN 1 ELSE 0]
  /\ ddSeq = [p \in Pair |-> IF p[1] > p[2] THEN 3 ELSE 2]
  /\ headers = [p \in Pair |-> Only(p[1], 0)]
  /\ retrans = [p \in Pair |-> NoCopies]
  /\ requests = [p \in Pair |-> {}]
  /\ dd = [p \in Pair |-> NoDD]
  /\ req = [p \in Pair |-> {}]
  /\ upd = [p \in Pair |-> NoUpdates]
  /\ ackTimer = [p \in Pair |-> FALSE]
  /\ updTimer = [p \in Pair |-> FALSE]
  /\ deadTimer = [p \in Pair |-> TRUE]
  /\ nbrList = [r \in Router |-> Neighbours(r)]
  /\ adjList = [r \in Router |-> Neighbours(r)]
  /\ upLinks = [r \in Router |-> Neighbours(r)]
  /\ lsdb = [r \in Router |-> [a \in Router |-> 0]]
  /\ aging = [r \in Router |-> Router]
  /\ chan = [p \in Pair |-> <<>>]
  /\ rx = Resting
  /\ now = 0
  /\ halted = FALSE

FloodSpec == BroughtUp /\ [][Next]_vars /\ Fairness
=============================================================================
