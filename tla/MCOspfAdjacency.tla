-------------------------- MODULE MCOspfAdjacency --------------------------
(* Two routers on one link, from the start of the simulation.              *)
EXTENDS OspfAdjacency

TwoRouters == {1, 2}
OneLink == {{1, 2}}
=============================================================================
