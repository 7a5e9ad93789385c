----------------------------- MODULE MCLsRouting ----------------------------
(* Instances of LsRouting. *)
EXTENDS LsRouting

ThreeRouters == 1..3
Triangle == {e \in ThreeRouters \X ThreeRouters : e[1] # e[2]}
=============================================================================
