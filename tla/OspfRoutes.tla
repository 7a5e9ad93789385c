----------------------------- MODULE OspfRoutes -----------------------------
(***************************************************************************)
(* OspfRouting::_computeRoutes: the shortest paths from one router, over   *)
(* the link state database it holds, for every topology in turn.  A path   *)
(* has a cost and the next hops that reach its destination at that cost.   *)
(* Paths found are kept as tentative ones until the shortest of them is    *)
(* installed, one next hop at a time.                                      *)
(*                                                                         *)
(* One action is one turn of a loop: Expand looks at the links of the      *)
(* router just installed, Pop installs a tentative path.  The database     *)
(* does not change while the function runs.                                *)
(*                                                                         *)
(* Lists of next hops are sets, and of equally short paths any may be      *)
(* popped: the order of std::map and of the lists only decides ties.       *)
(* A path that is not there costs LS_MAX_COST + 1, as in lookupCost.       *)
(***************************************************************************)
EXTENDS Integers, FiniteSets

CONSTANTS
  Router,
  Me,           \* the router that computes
  NumMtIds,     \* topologies are numbered 0..NumMtIds
  MaxCost,      \* LS_MAX_COST
  Databases     \* the databases a run starts from

Topology == 0..NumMtIds

(* An advertisement: whether it has reached MaxAge, the neighbours its     *)
(* links in state LS_STATUS_UP lead to, and a metric per topology.         *)
LSA == [maxAge : BOOLEAN, up : SUBSET Router,
        metric : [Topology -> [Router -> Nat]]]
NoLSA == [list |-> "none"]      \* no entry for the router
Emptied == [list |-> "empty"]   \* delLSA took the LSA and left an empty list
Database == [Router -> LSA \cup {NoLSA, Emptied}]

ASSUME RoutesAssumption ==
  /\ IsFiniteSet(Router) /\ Me \in Router
  /\ NumMtIds \in Nat /\ MaxCost \in Nat
  /\ Databases \subseteq {db \in Database : db[Me] # NoLSA}

VARIABLES
  db,     \* the link state database
  mt,     \* the topology being computed
  node,   \* newNodeId, the router whose links come next
  pc,     \* "expand" its links, "pop" a tentative path, "done", "aborted",
          \* "undefined": front() of an empty list, nothing is said after
  paths,  \* paths[t][d], the routing table
  tent    \* tent[t][d], the tentative paths

vars == <<db, mt, node, pc, paths, tent>>

-----------------------------------------------------------------------------
(* Paths.                                                                  *)

Entry == [cost : Nat, hops : SUBSET Router]

(* Mutant of NoPath: a path that is not there costs -1.                    *)
NoPathInvalid == [cost |-> -1, hops |-> {}]

NoPath == [cost |-> MaxCost + 1, hops |-> {}]

(* Mutant of Insert: equally good paths are ignored.                       *)
InsertBetter(e, cost, hops) ==
  IF e.hops = {} \/ cost < e.cost THEN [cost |-> cost, hops |-> hops] ELSE e

(* insertPath and insertNextHopList: a better path replaces the old one,   *)
(* an equally good one adds its next hops, a worse one is ignored.         *)
Insert(e, cost, hops) ==
  IF e.hops = {} \/ cost < e.cost THEN [cost |-> cost, hops |-> hops]
  ELSE IF cost = e.cost THEN [e EXCEPT !.hops = @ \cup hops]
  ELSE e

(* Mutant of Shortest: the search does not remember the minimum.           *)
ShortestAny(t) ==
  {d \in Router : tent[t][d].hops # {} /\ tent[t][d].cost < MaxCost + 1}

(* Mutant of Shortest: paths of LS_MAX_COST are not found.                 *)
ShortestBelowMax(t) ==
  {d \in Router : /\ tent[t][d].hops # {}
                  /\ tent[t][d].cost < MaxCost
                  /\ \A e \in Router :
                       tent[t][e].hops # {} => tent[t][d].cost <= tent[t][e].cost}

(* findMinEqualPaths: a path is only found when it costs less than         *)
(* LS_MAX_COST + 1.                                                        *)
Shortest(t) ==
  {d \in Router : /\ tent[t][d].hops # {}
                  /\ tent[t][d].cost < MaxCost + 1
                  /\ \A e \in Router :
                       tent[t][e].hops # {} => tent[t][d].cost <= tent[t][e].cost}

TentativeEmpty == \A t \in Topology, d \in Router : tent[t][d].hops = {}

(* An LSA is used when it is in the database and not at MaxAge.            *)
Usable(n) == db[n] \notin {NoLSA, Emptied} /\ ~db[n].maxAge

-----------------------------------------------------------------------------
NoPaths == [t \in Topology |-> [d \in Router |-> NoPath]]

(* Step 1: the router itself, at no cost and as its own next hop, in every *)
(* topology.  That its own list is not empty is tested.                    *)
Init ==
  /\ db \in Databases
  /\ mt = 0
  /\ node = Me
  /\ pc = IF Usable(Me) THEN "expand" ELSE "done"
  /\ paths = [t \in Topology |->
       [d \in Router |-> IF d = Me THEN [cost |-> 0, hops |-> {Me}] ELSE NoPath]]
  /\ tent = NoPaths

PathCost(d) == paths[mt][node].cost + db[node].metric[mt][d]

(* Mutant of Considered: a router with a tentative path is skipped.        *)
ConsideredOnce ==
  {d \in db[node].up : paths[mt][d].cost >= PathCost(d) /\ tent[mt][d].hops = {}}

(* Mutant of Considered: paths worse than those in the table as well.      *)
ConsideredAll == db[node].up

(* The links that are up and lead nowhere cheaper than the table does      *)
(* already.                                                                *)
Considered == {d \in db[node].up : paths[mt][d].cost >= PathCost(d)}

(* Step 2, for each link of the router just put into the table.            *)
Expand ==
  /\ pc = "expand"
  /\ tent' = [tent EXCEPT ![mt] = [d \in Router |->
       IF d \in Considered
       THEN Insert(tent[mt][d], PathCost(d),
                   IF node = Me THEN {d} ELSE paths[mt][node].hops)
       ELSE tent[mt][d]]]
  /\ pc' = "pop"
  /\ UNCHANGED <<db, mt, node, paths>>

(* What popShortestPath leaves: the next hop is taken, and with the last   *)
(* one the destination's whole entry is erased, of every topology.         *)
After(d, h) ==
  IF tent[mt][d].hops = {h}
  THEN [t \in Topology |-> [tent[t] EXCEPT ![d] = NoPath]]
  ELSE [tent EXCEPT ![mt][d].hops = @ \ {h}]

(* Where an installed destination leads: to its links when its LSA can be  *)
(* used.  That its list is not empty is not tested.                        *)
PopLeadsTo(d) ==
  IF db[d] = Emptied THEN "undefined" ELSE IF Usable(d) THEN "expand" ELSE "pop"

(* The shortest tentative path is installed.                               *)
Pop ==
  /\ pc = "pop"
  /\ \E d \in Shortest(mt) : \E h \in tent[mt][d].hops :
       /\ paths' = [paths EXCEPT ![mt][d] = Insert(@, tent[mt][d].cost, {h})]
       /\ tent' = After(d, h)
       /\ node' = d
       /\ pc' = PopLeadsTo(d)
  /\ UNCHANGED <<db, mt>>

(* popShortestPath() failed: no path it would return is left.              *)
PopFails ==
  /\ pc = "pop"
  /\ ~TentativeEmpty
  /\ Shortest(mt) = {}
  /\ pc' = "aborted"
  /\ UNCHANGED <<db, mt, node, paths, tent>>

(* No tentative paths are left: on to the next topology, from the router's *)
(* own links again.                                                        *)
NextTopology ==
  /\ pc = "pop"
  /\ TentativeEmpty
  /\ mt < NumMtIds
  /\ mt' = mt + 1
  /\ node' = Me
  /\ pc' = "expand"
  /\ UNCHANGED <<db, paths, tent>>

Finish ==
  /\ pc = "pop"
  /\ TentativeEmpty
  /\ mt = NumMtIds
  /\ pc' = "done"
  /\ UNCHANGED <<db, mt, node, paths, tent>>

Next == Expand \/ Pop \/ PopFails \/ NextTopology \/ Finish

Spec == Init /\ [][Next]_vars

(* The function runs to its end before the scheduler does anything else.   *)
FairSpec == Spec /\ WF_vars(Next)

-----------------------------------------------------------------------------
(* The reference: distances over at most k usable links, between all pairs *)
(* of routers, and the first hops of all shortest paths.                   *)

Infinity == MaxCost + 1

LinkCost(t, u, v) ==
  IF u = v THEN 0
  ELSE IF Usable(u) /\ v \in db[u].up THEN db[u].metric[t][v]
  ELSE Infinity

MinOf(S) == CHOOSE x \in S : \A y \in S : x <= y

(* Distances over one link more.                                           *)
Relaxed(t, dist) ==
  [e \in Router \X Router |->
    MinOf({Infinity} \cup {dist[<<e[1], u>>] + LinkCost(t, u, e[2]) : u \in Router})]

Distances(t) ==
  LET within[k \in 0..Cardinality(Router)] ==
        IF k = 0 THEN [e \in Router \X Router |-> IF e[1] = e[2] THEN 0 ELSE Infinity]
        ELSE Relaxed(t, within[k - 1])
  IN within[Cardinality(Router)]

FirstHops(t, dist, d) ==
  {h \in Router \ {Me} : LinkCost(t, Me, h) + dist[<<h, d>>] = dist[<<Me, d>>]}

-----------------------------------------------------------------------------
TypeOK ==
  /\ db \in Database /\ db[Me] # NoLSA
  /\ mt \in Topology
  /\ node \in Router
  /\ pc \in {"expand", "pop", "done", "aborted", "undefined"}
  /\ paths \in [Topology -> [Router -> Entry]]
  /\ tent \in [Topology -> [Router -> Entry]]

(* When _computeRoutes returns, the table holds every reachable router     *)
(* at the cost of its shortest path, with the first hops of all shortest   *)
(* paths and no others, separately for every topology.  A next hop         *)
(* learnt late has to reach the routers already found behind it.           *)
RoutesAreShortest ==
  pc = "done" /\ Usable(Me) =>
    \A t \in Topology : LET dist == Distances(t) IN
      \A d \in Router :
        IF d = Me THEN paths[t][d] = [cost |-> 0, hops |-> {Me}]
        ELSE IF dist[<<Me, d>>] > MaxCost THEN paths[t][d].hops = {}
        ELSE /\ paths[t][d].cost = dist[<<Me, d>>]
             /\ paths[t][d].hops = FirstHops(t, dist, d)

(* Every link of a router whose links have been looked at leads to a       *)
(* router with a path, in the table or tentative, no longer than over that *)
(* link: nothing that popShortestPath erases is still needed.              *)
LinksFollowed ==
  \A t \in 0..mt, u \in Router :
    /\ paths[t][u].hops # {} /\ Usable(u)
    /\ ~(pc = "expand" /\ u = node /\ t = mt)
    => \A v \in db[u].up :
         LET over == paths[t][u].cost + db[u].metric[t][v] IN
         paths[t][v].cost <= over \/ tent[t][v].cost <= over

(* Every next hop in the table belongs to a path over links that are up:   *)
(* the last link of the path comes from a router in the table, with an LSA *)
(* that may be used, at the cost that link leaves, and that router has the *)
(* same next hop or is the computing router itself.                        *)
PathsAreReal ==
  \A t \in Topology, d \in Router \ {Me} : \A h \in paths[t][d].hops :
    \E u \in Router :
      /\ Usable(u) /\ d \in db[u].up
      /\ paths[t][d].cost = paths[t][u].cost + db[u].metric[t][d]
      /\ IF u = Me THEN h = d ELSE h \in paths[t][u].hops

(* Once a router is in the table its cost is final: popping shortest paths *)
(* first never has to lower it (insertPath's replacement is never used).   *)
InstalledCostsAreFinal ==
  [][\A t \in Topology, d \in Router :
       paths[t][d].hops # {} => /\ paths'[t][d].cost = paths[t][d].cost
                                /\ paths[t][d].hops \subseteq paths'[t][d].hops]_vars

(* The loops end.                                                          *)
ComputationEnds == <>(pc \in {"done", "aborted", "undefined"})

(* popShortestPath() fails, and the simulator aborts, only at the limit of *)
(* the costs: a link from a router that is reached leads to one that is    *)
(* not, because over that link it would be exactly LS_MAX_COST + 1 away.   *)
AbortsAtLimit ==
  pc = "aborted" =>
    LET dist == Distances(mt) IN
    \E u, d \in Router :
      /\ u # d /\ Usable(u) /\ d \in db[u].up
      /\ dist[<<Me, d>>] = MaxCost + 1
      /\ dist[<<Me, u>>] + db[u].metric[mt][d] = MaxCost + 1

-----------------------------------------------------------------------------
(* What a comment of _computeRoutes expects, "if we have the link state    *)
(* for the new node", and the test for an entry does not ensure: it has a  *)
(* counterexample, a list that delLSA has emptied.                         *)
LinkStatesAreHeld == pc # "undefined"
=============================================================================
