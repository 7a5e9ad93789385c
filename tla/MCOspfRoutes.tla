---------------------------- MODULE MCOspfRoutes ----------------------------
(***************************************************************************)
(* Databases for OspfRoutes.  A cost of -1 stands for a link that is not   *)
(* up; the metric an LSA has for such a link is never used.                *)
(***************************************************************************)
EXTENDS OspfRoutes

FourRouters == 1..4

Metric(c) == IF c = -1 THEN 0 ELSE c

(* The LSA of a router whose link to r has the metrics cost[r], one per    *)
(* topology; -1 in topology 0 for a link that is not up.                   *)
Advertise(cost) ==
  [maxAge |-> FALSE, up |-> {r \in Router : cost[r][0] # -1},
   metric |-> [t \in Topology |-> [r \in Router |-> Metric(cost[r][t])]]]

NoLink == [t \in Topology |-> -1]
Same(c) == [t \in Topology |-> c]

Undirected == {e \in Router \X Router : e[1] < e[2]}
Ends(r, s) == IF r < s THEN <<r, s>> ELSE <<s, r>>

(* The two ends of a link agree on its metrics.                            *)
Symmetric(Costs) ==
  {[r \in Router |-> Advertise([s \in Router |->
      IF r = s THEN NoLink ELSE c[Ends(r, s)]])] : c \in [Undirected -> Costs]}

(* Each end of a link has its own.                                         *)
Directed(Costs) ==
  {[r \in Router |-> Advertise([s \in Router |->
      IF r = s THEN NoLink ELSE c[<<r, s>>]])] :
   c \in [{e \in Router \X Router : e[1] # e[2]} -> Costs]}

(* Databases in which the LSA of some router is missing, has been removed  *)
(* or has reached MaxAge.                                                  *)
Incomplete(D) ==
  UNION {{[d EXCEPT ![r] = Emptied], [d EXCEPT ![r].maxAge = TRUE]} :
          d \in D, r \in Router}
  \cup {[d EXCEPT ![r] = NoLSA] : d \in D, r \in Router \ {Me}}

(* Costs one to three: diamonds with equally long paths over one, two and  *)
(* three links; links that only one end has up; LSAs that are not there.   *)
Diamonds == Symmetric({NoLink, Same(1), Same(2), Same(3)})
Graphs == Diamonds \cup Directed({NoLink, Same(1)})
          \cup Incomplete(Symmetric({NoLink, Same(1)}))

(* Two topologies, whose shortest paths differ.                            *)
TwoCosts == {NoLink, [t \in Topology |-> t + 1], [t \in Topology |-> 2 - t]}
Topologies == Symmetric(TwoCosts)

AllGraphs == Graphs \cup Topologies
=============================================================================
