---------------------------- MODULE MCRouteObject ----------------------------
(* An instance of RouteObject: four links, of which l1 ends at the             *)
(* destination.                                                                *)
EXTENDS RouteObject
CONSTANTS l1, l2, l3, l4
=============================================================================
