-------------------------- MODULE OspfRoutesProofs --------------------------
(***************************************************************************)
(* Theorems about OspfRoutes, for any finite set of routers, any metrics   *)
(* and any database: costs in the table are final, every next hop belongs  *)
(* to a path, every link is taken into account; and, for positive metrics, *)
(* the finished table holds the shortest paths, all of them.               *)
(***************************************************************************)
EXTENDS OspfRoutes, FiniteSetTheorems, TLAPS

-----------------------------------------------------------------------------
(* What is true of a step while the loops run.                             *)

(* The router whose links come next is in the table and no router in the   *)
(* table is farther away.                                                  *)
NodeIsLast ==
  pc = "expand" =>
    /\ Usable(node)
    /\ paths[mt][node].hops # {}
    /\ \A d \in Router :
         paths[mt][d].hops # {} => paths[mt][d].cost <= paths[mt][node].cost

(* One topology at a time: those to come are untouched, and only the       *)
(* present one has tentative paths.                                        *)
OneAtATime ==
  /\ \A t \in Topology, d \in Router : t # mt => tent[t][d].hops = {}
  /\ \A t \in Topology, d \in Router : t > mt /\ d # Me => paths[t][d].hops = {}
  /\ \A t \in Topology : paths[t][Me].hops # {}
  /\ Usable(Me) \/ pc = "done"

(* Tentative paths are no shorter than those in the table, and no longer   *)
(* than one to the same router there.                                      *)
InOrder ==
  /\ \A d, e \in Router :
       paths[mt][d].hops # {} /\ tent[mt][e].hops # {}
         => paths[mt][d].cost <= tent[mt][e].cost
  /\ \A d \in Router :
       paths[mt][d].hops # {} /\ tent[mt][d].hops # {}
         => tent[mt][d].cost <= paths[mt][d].cost

(* No cost exceeds that of a path that is not there.                       *)
Bounded ==
  \A t \in Topology, d \in Router :
    /\ paths[t][d].cost <= MaxCost + 1
    /\ paths[t][d].hops = {} => paths[t][d].cost = MaxCost + 1
    /\ tent[t][d].hops = {} => tent[t][d].cost = MaxCost + 1

Core == TypeOK /\ NodeIsLast /\ OneAtATime /\ InOrder

(* A path of that cost over next hop h reaches d by a last link from u.    *)
LastLink(t, u, d, cost, h) ==
  /\ Usable(u) /\ d \in db[u].up
  /\ paths[t][u].hops # {}
  /\ cost = paths[t][u].cost + db[u].metric[t][d]
  /\ IF u = Me THEN h = d ELSE h \in paths[t][u].hops

(* PathsAreReal, strengthened: tentative paths are real as well.           *)
RealPaths ==
  /\ \A t \in Topology, d \in Router \ {Me} : \A h \in paths[t][d].hops :
       \E u \in Router : LastLink(t, u, d, paths[t][d].cost, h)
  /\ \A t \in Topology, d \in Router : \A h \in tent[t][d].hops :
       \E u \in Router : LastLink(t, u, d, tent[t][d].cost, h)

-----------------------------------------------------------------------------
LEMMA TopologyType ==
  Topology \subseteq Int /\ 0 \in Topology /\ \A t \in Topology : t >= 0 /\ t <= NumMtIds
BY RoutesAssumption, SMT DEF Topology

LEMMA NoPathType == NoPath \in Entry /\ NoPath.hops = {} /\ NoPath.cost = MaxCost + 1
BY RoutesAssumption, SMT DEF NoPath, Entry

LEMMA InsertType ==
  ASSUME NEW e \in Entry, NEW cost \in Nat, NEW hops \in SUBSET Router
  PROVE  Insert(e, cost, hops) \in Entry
BY SMT DEF Entry, Insert

(* Insert, case by case.                                                   *)
LEMMA InsertCases ==
  ASSUME NEW e \in Entry, NEW cost \in Nat, NEW hops \in SUBSET Router, hops # {}
  PROVE  LET i == Insert(e, cost, hops) IN
         \/ /\ e.hops = {} \/ cost < e.cost
            /\ i.cost = cost /\ i.hops = hops
         \/ /\ e.hops # {} /\ cost = e.cost
            /\ i.cost = e.cost /\ i.hops = e.hops \cup hops
         \/ e.hops # {} /\ cost > e.cost /\ i = e
BY SMT DEF Entry, Insert

LEMMA UsableType ==
  ASSUME TypeOK, NEW n \in Router, Usable(n)
  PROVE  db[n].up \subseteq Router /\ db[n].metric \in [Topology -> [Router -> Nat]]
<1>1. db[n] \in LSA
  BY DEF TypeOK, Database, Usable
<1> QED BY <1>1 DEF LSA

(* Only a router whose LSA can be used is expanded.                        *)
LEMMA LeadsTo ==
  ASSUME NEW d
  PROVE  /\ PopLeadsTo(d) \in {"expand", "pop", "undefined"}
         /\ PopLeadsTo(d) = "expand" <=> Usable(d)
BY DEF PopLeadsTo, Usable

LEMMA EntryTypes ==
  ASSUME TypeOK, NEW t \in Topology, NEW d \in Router
  PROVE  /\ paths[t][d] \in Entry /\ paths[t][d].cost \in Nat
         /\ paths[t][d].hops \subseteq Router
         /\ tent[t][d] \in Entry /\ tent[t][d].cost \in Nat
         /\ tent[t][d].hops \subseteq Router
<1>1. paths[t][d] \in Entry /\ tent[t][d] \in Entry
  BY DEF TypeOK
<1> QED BY <1>1 DEF Entry

-----------------------------------------------------------------------------
(* What Expand does, router by router.                                     *)
LEMMA ExpandFacts ==
  ASSUME TypeOK, NodeIsLast, Expand
  PROVE  /\ \A d \in db[node].up : PathCost(d) \in Nat
         /\ \A t \in Topology, d \in Router :
              \/ tent'[t][d] = tent[t][d]
              \/ /\ t = mt /\ d \in Considered
                 /\ \E hops \in SUBSET Router :
                      /\ hops # {}
                      /\ IF node = Me THEN hops = {d} ELSE hops = paths[mt][node].hops
                      /\ tent'[t][d] = Insert(tent[t][d], PathCost(d), hops)
         /\ \A d \in Considered : \E hops \in SUBSET Router :
              hops # {} /\ tent'[mt][d] = Insert(tent[mt][d], PathCost(d), hops)
         /\ tent' \in [Topology -> [Router -> Entry]]
<1>1. /\ node \in Router /\ mt \in Topology /\ Usable(node)
      /\ paths[mt][node].hops # {} /\ Considered \subseteq db[node].up
  BY DEF TypeOK, NodeIsLast, Expand, Considered
<1>2. /\ db[node].up \subseteq Router
      /\ db[node].metric \in [Topology -> [Router -> Nat]]
  BY <1>1, UsableType
<1>3. ASSUME NEW d \in db[node].up
      PROVE  PathCost(d) \in Nat
  <2>1. paths[mt][node].cost \in Nat /\ db[node].metric[mt][d] \in Nat
    BY <1>1, <1>2, <1>3, EntryTypes
  <2> QED BY <2>1 DEF PathCost
<1> DEFINE Hops(d) == IF node = Me THEN {d} ELSE paths[mt][node].hops
<1>4. \A d \in db[node].up : Hops(d) \in SUBSET Router /\ Hops(d) # {}
  BY <1>1, <1>2, EntryTypes
<1>5. /\ tent \in [Topology -> [Router -> Entry]]
      /\ tent' = [tent EXCEPT ![mt] = [d \in Router |->
           IF d \in Considered THEN Insert(tent[mt][d], PathCost(d), Hops(d))
           ELSE tent[mt][d]]]
  BY DEF TypeOK, Expand
<1>6. \A d \in Considered : tent'[mt][d] = Insert(tent[mt][d], PathCost(d), Hops(d))
  BY <1>1, <1>2, <1>5
<1>7. \A t \in Topology, d \in Router :
        t # mt \/ d \notin Considered => tent'[t][d] = tent[t][d]
  BY <1>1, <1>5
<1>8. \A d \in Router : tent'[mt][d] \in Entry
  <2> TAKE d \in Router
  <2>1. CASE d \in Considered
    <3>1. /\ d \in db[node].up /\ PathCost(d) \in Nat
          /\ Hops(d) \in SUBSET Router /\ tent[mt][d] \in Entry
      BY <1>1, <1>3, <1>4, <2>1, EntryTypes
    <3>2. Insert(tent[mt][d], PathCost(d), Hops(d)) \in Entry
      BY <3>1, InsertType
    <3> QED BY <3>2, <1>6, <2>1
  <2> QED BY <1>1, <1>7, <2>1, EntryTypes
<1>9. tent' \in [Topology -> [Router -> Entry]]
  <2>1. \A t \in Topology : tent'[t] \in [Router -> Entry]
    <3> TAKE t \in Topology
    <3>1. CASE t = mt
      <4>1. tent'[t] = [d \in Router |->
           IF d \in Considered THEN Insert(tent[mt][d], PathCost(d), Hops(d))
           ELSE tent[mt][d]]
        BY <3>1, <1>5, <1>1
      <4> QED BY <4>1, <1>8, <3>1
    <3>2. CASE t # mt
      BY <3>2, <1>5
    <3> QED BY <3>1, <3>2
  <2>2. tent' = [t \in Topology |-> tent'[t]]
    BY <1>5
  <2> QED BY <2>1, <2>2
<1> QED BY <1>1, <1>3, <1>4, <1>6, <1>7, <1>9, Zenon

(* What Pop does, router by router, when it pops next hop h to d.          *)
PopFacts(d, h) ==
  /\ d \in Router /\ h \in tent[mt][d].hops
  /\ tent[mt][d].cost < MaxCost + 1
  /\ \A e \in Router : tent[mt][e].hops # {} => tent[mt][d].cost <= tent[mt][e].cost
  /\ \A t \in Topology, e \in Router : t # mt \/ e # d => paths'[t][e] = paths[t][e]
  /\ paths'[mt][d] = Insert(paths[mt][d], tent[mt][d].cost, {h})
  /\ \A t \in Topology, e \in Router :
       \/ tent'[t][e] = tent[t][e] /\ (t # mt \/ e # d)
       \/ e = d /\ tent'[t][e] = NoPath /\ (t = mt => tent[t][e].hops = {h})
       \/ /\ t = mt /\ e = d /\ tent[t][e].hops # {h}
          /\ tent'[t][e].cost = tent[t][e].cost
          /\ tent'[t][e].hops = tent[t][e].hops \ {h}
  /\ tent' \in [Topology -> [Router -> Entry]]
  /\ paths' \in [Topology -> [Router -> Entry]]
  /\ node' = d
  /\ pc' = PopLeadsTo(d)
  /\ pc = "pop" /\ UNCHANGED <<db, mt>>

LEMMA PopDoes ==
  ASSUME TypeOK, Pop
  PROVE  \E d, h \in Router : PopFacts(d, h)
<1>0. mt \in Topology /\ paths \in [Topology -> [Router -> Entry]]
      /\ tent \in [Topology -> [Router -> Entry]]
  BY DEF TypeOK
<1>1. PICK d \in Shortest(mt) : \E h \in tent[mt][d].hops :
        /\ paths' = [paths EXCEPT ![mt][d] = Insert(@, tent[mt][d].cost, {h})]
        /\ tent' = After(d, h)
        /\ node' = d
        /\ pc' = PopLeadsTo(d)
  BY DEF Pop
<1>2. PICK h \in tent[mt][d].hops :
        /\ paths' = [paths EXCEPT ![mt][d] = Insert(@, tent[mt][d].cost, {h})]
        /\ tent' = After(d, h)
        /\ node' = d
        /\ pc' = PopLeadsTo(d)
  BY <1>1
<1>3. /\ d \in Router /\ tent[mt][d].cost < MaxCost + 1
      /\ \A e \in Router : tent[mt][e].hops # {} => tent[mt][d].cost <= tent[mt][e].cost
  BY <1>1 DEF Shortest
<1>4. tent[mt][d] \in Entry /\ tent[mt][d].cost \in Nat /\ tent[mt][d].hops \subseteq Router
      /\ paths[mt][d] \in Entry
  BY <1>0, <1>3, EntryTypes
<1>5. h \in Router /\ Insert(paths[mt][d], tent[mt][d].cost, {h}) \in Entry
  BY <1>2, <1>4, InsertType
<1>6. /\ paths' \in [Topology -> [Router -> Entry]]
      /\ \A t \in Topology, e \in Router : t # mt \/ e # d => paths'[t][e] = paths[t][e]
      /\ paths'[mt][d] = Insert(paths[mt][d], tent[mt][d].cost, {h})
  BY <1>0, <1>2, <1>3, <1>5
<1>7. /\ tent' \in [Topology -> [Router -> Entry]]
      /\ \A t \in Topology, e \in Router :
       \/ tent'[t][e] = tent[t][e] /\ (t # mt \/ e # d)
       \/ e = d /\ tent'[t][e] = NoPath /\ (t = mt => tent[t][e].hops = {h})
       \/ /\ t = mt /\ e = d /\ tent[t][e].hops # {h}
          /\ tent'[t][e].cost = tent[t][e].cost
          /\ tent'[t][e].hops = tent[t][e].hops \ {h}
  <2>1. CASE tent[mt][d].hops = {h}
    <3>1. tent' = [t \in Topology |-> [tent[t] EXCEPT ![d] = NoPath]]
      BY <1>2, <2>1 DEF After
    <3>2. \A t \in Topology, e \in Router :
            tent'[t][e] = IF e = d THEN NoPath ELSE tent[t][e]
      BY <3>1, <1>0, <1>3
    <3>3. tent' \in [Topology -> [Router -> Entry]]
      BY <3>1, <1>0, <1>3, NoPathType
    <3> QED BY <3>2, <3>3, <2>1
  <2>2. CASE tent[mt][d].hops # {h}
    <3>1. tent' = [tent EXCEPT ![mt][d].hops = @ \ {h}]
      BY <1>2, <2>2 DEF After
    <3>2. [tent[mt][d] EXCEPT !.hops = @ \ {h}] \in Entry
      BY <1>4 DEF Entry
    <3>3. /\ tent'[mt][d] = [tent[mt][d] EXCEPT !.hops = @ \ {h}]
          /\ tent' \in [Topology -> [Router -> Entry]]
          /\ \A t \in Topology, e \in Router :
               t # mt \/ e # d => tent'[t][e] = tent[t][e]
      BY <3>1, <3>2, <1>0, <1>3
    <3>4. /\ tent'[mt][d].cost = tent[mt][d].cost
          /\ tent'[mt][d].hops = tent[mt][d].hops \ {h}
      BY <3>3, <1>4 DEF Entry
    <3> QED BY <2>2, <3>3, <3>4
  <2> QED BY <2>1, <2>2
<1>8. pc = "pop" /\ UNCHANGED <<db, mt>>
  BY DEF Pop
<1> QED BY <1>2, <1>3, <1>5, <1>6, <1>7, <1>8 DEF PopFacts

-----------------------------------------------------------------------------
(* Types and order.                                                        *)

LEMMA CoreInit == Init => Core
<1> SUFFICES ASSUME Init PROVE Core
  OBVIOUS
<1>1. /\ db \in Databases /\ mt = 0 /\ node = Me /\ tent = NoPaths
      /\ pc = IF Usable(Me) THEN "expand" ELSE "done"
      /\ paths = [t \in Topology |->
           [d \in Router |-> IF d = Me THEN [cost |-> 0, hops |-> {Me}] ELSE NoPath]]
  BY DEF Init
<1>2. Me \in Router /\ [cost |-> 0, hops |-> {Me}] \in Entry
  BY RoutesAssumption DEF Entry
<1>3. TypeOK
  BY <1>1, <1>2, NoPathType, TopologyType, RoutesAssumption DEF TypeOK, NoPaths
<1>4. /\ \A t \in Topology : paths[t][Me].hops = {Me} /\ paths[t][Me].cost = 0
      /\ \A t \in Topology, d \in Router \ {Me} : paths[t][d].hops = {}
      /\ \A t \in Topology, d \in Router : tent[t][d].hops = {}
  BY <1>1, <1>2, NoPathType DEF NoPaths
<1>5. NodeIsLast /\ OneAtATime /\ InOrder
  BY <1>1, <1>2, <1>4, TopologyType DEF NodeIsLast, OneAtATime, InOrder
<1> QED BY <1>3, <1>5 DEF Core

LEMMA CoreExpand ==
  ASSUME Core, Expand
  PROVE  Core'
<1>1. TypeOK /\ NodeIsLast /\ OneAtATime /\ InOrder
  BY DEF Core
<1>2. /\ mt \in Topology /\ node \in Router /\ pc = "expand" /\ pc' = "pop"
      /\ UNCHANGED <<db, mt, node, paths>>
  BY <1>1 DEF TypeOK, Expand
<1>3. TypeOK'
  BY <1>1, <1>2, ExpandFacts DEF TypeOK
<1>4. NodeIsLast'
  BY <1>2 DEF NodeIsLast
<1>5. OneAtATime'
  <2>1. \A t \in Topology, d \in Router : t # mt => tent'[t][d] = tent[t][d]
    BY <1>1, ExpandFacts
  <2> QED BY <1>1, <1>2, <2>1 DEF OneAtATime, Usable
<1>6. InOrder'
  <2> SUFFICES ASSUME NEW e \in Router, tent'[mt][e].hops # {}
               PROVE  /\ \A d \in Router : paths[mt][d].hops # {}
                                => paths[mt][d].cost <= tent'[mt][e].cost
                      /\ paths[mt][e].hops # {} => tent'[mt][e].cost <= paths[mt][e].cost
    BY <1>2 DEF InOrder
  <2>1. CASE tent'[mt][e] = tent[mt][e]
    BY <1>1, <1>2, <2>1 DEF InOrder
  <2>2. CASE e \in Considered
    <3>1. PICK hops \in SUBSET Router :
            hops # {} /\ tent'[mt][e] = Insert(tent[mt][e], PathCost(e), hops)
      BY <1>1, <2>2, ExpandFacts
    <3>2. e \in db[node].up /\ paths[mt][e].cost >= PathCost(e) /\ PathCost(e) \in Nat
      BY <1>1, <2>2, ExpandFacts DEF Considered
    <3>3. PathCost(e) >= paths[mt][node].cost
      <4>1. db[node].metric[mt][e] \in Nat /\ paths[mt][node].cost \in Nat
        BY <1>1, <1>2, UsableType, EntryTypes DEF NodeIsLast
      <4> QED BY <4>1 DEF PathCost
    <3>4. \A d \in Router : paths[mt][d].cost \in Nat /\ tent[mt][d].cost \in Nat
      BY <1>1, <1>2, EntryTypes
    <3>5. tent[mt][e] \in Entry
      BY <1>1, <1>2, EntryTypes
    <3>6. \/ tent'[mt][e].cost = PathCost(e)
             /\ (tent[mt][e].hops = {} \/ PathCost(e) < tent[mt][e].cost)
          \/ tent[mt][e].hops # {} /\ tent'[mt][e].cost = tent[mt][e].cost
      BY <3>1, <3>2, <3>5, InsertCases
    <3>7. \A d \in Router : paths[mt][d].hops # {}
            => paths[mt][d].cost <= paths[mt][node].cost
      BY <1>1, <1>2 DEF NodeIsLast
    <3> QED BY <3>2, <3>3, <3>4, <3>6, <3>7, <1>1, <1>2 DEF InOrder
  <2> QED BY <1>1, <1>2, <2>1, <2>2, ExpandFacts
<1> QED BY <1>3, <1>4, <1>5, <1>6 DEF Core

(* A popped path is new to the table, or as long as the one already there. *)
LEMMA PopInstalls ==
  ASSUME Core, NEW d, NEW h, PopFacts(d, h)
  PROVE  /\ paths'[mt][d].cost = tent[mt][d].cost
         /\ \/ paths[mt][d].hops = {} /\ paths'[mt][d].hops = {h}
            \/ /\ paths[mt][d].hops # {} /\ paths[mt][d].cost = tent[mt][d].cost
               /\ paths'[mt][d].hops = paths[mt][d].hops \cup {h}
<1>1. TypeOK /\ InOrder
  BY DEF Core
<1>2. /\ d \in Router /\ mt \in Topology /\ h \in tent[mt][d].hops
      /\ paths'[mt][d] = Insert(paths[mt][d], tent[mt][d].cost, {h})
  BY <1>1 DEF PopFacts, TypeOK
<1>3. /\ paths[mt][d] \in Entry /\ tent[mt][d].cost \in Nat /\ {h} \in SUBSET Router
      /\ paths[mt][d].cost \in Nat
  BY <1>1, <1>2, EntryTypes
<1>4. paths[mt][d].hops # {} => paths[mt][d].cost = tent[mt][d].cost
  BY <1>1, <1>2, <1>3 DEF InOrder
<1> QED BY <1>2, <1>3, <1>4, InsertCases

LEMMA CorePop ==
  ASSUME Core, Pop
  PROVE  Core'
<1>1. TypeOK /\ OneAtATime /\ InOrder
  BY DEF Core
<1>2. PICK d, h \in Router : PopFacts(d, h)
  BY <1>1, PopDoes
<1>3. /\ mt \in Topology /\ UNCHANGED <<db, mt>> /\ node' = d /\ pc = "pop"
      /\ pc' = PopLeadsTo(d)
      /\ \A t \in Topology, e \in Router : t # mt \/ e # d => paths'[t][e] = paths[t][e]
      /\ \A t \in Topology, e \in Router :
            t # mt \/ e # d => tent'[t][e] = tent[t][e] \/ tent'[t][e] = NoPath
      /\ \/ tent'[mt][d] = NoPath
         \/ /\ tent'[mt][d].cost = tent[mt][d].cost
            /\ tent'[mt][d].hops = tent[mt][d].hops \ {h}
  BY <1>1, <1>2 DEF PopFacts, TypeOK
<1>4. /\ paths'[mt][d].cost = tent[mt][d].cost /\ h \in paths'[mt][d].hops
      /\ paths[mt][d].hops # {} => paths[mt][d].cost = tent[mt][d].cost
      /\ tent[mt][d].hops # {}
      /\ \A e \in Router : tent[mt][e].hops # {} => tent[mt][d].cost <= tent[mt][e].cost
  <2>1. /\ paths'[mt][d].cost = tent[mt][d].cost
        /\ \/ paths[mt][d].hops = {} /\ paths'[mt][d].hops = {h}
           \/ /\ paths[mt][d].hops # {} /\ paths[mt][d].cost = tent[mt][d].cost
              /\ paths'[mt][d].hops = paths[mt][d].hops \cup {h}
    BY <1>2, PopInstalls
  <2>2. /\ h \in tent[mt][d].hops
        /\ \A e \in Router : tent[mt][e].hops # {} => tent[mt][d].cost <= tent[mt][e].cost
    BY <1>2 DEF PopFacts
  <2> QED BY <2>1, <2>2
<1>5. TypeOK'
  BY <1>1, <1>2, <1>3, LeadsTo DEF TypeOK, PopFacts
<1>6. \A t \in Topology, e \in Router : /\ paths[t][e].cost \in Nat /\ tent[t][e].cost \in Nat
  BY <1>1, EntryTypes
<1>7. NodeIsLast'
  <2>1. pc' = "expand" => Usable(d)
    BY <1>3, LeadsTo
  <2> QED BY <1>1, <1>3, <1>4, <1>6, <2>1 DEF NodeIsLast, InOrder, Usable
<1>8. OneAtATime'
  <2>1. \A t \in Topology, e \in Router : t # mt => tent'[t][e].hops = {}
    BY <1>1, <1>3, NoPathType DEF OneAtATime
  <2>2. \A t \in Topology, e \in Router : paths[t][e].hops # {} => paths'[t][e].hops # {}
    BY <1>3, <1>4
  <2>3. \A t \in Topology : t > mt => t # mt
    BY TopologyType
  <2>4. Me \in Router
    BY RoutesAssumption
  <2> QED BY <1>1, <1>3, <2>1, <2>2, <2>3, <2>4 DEF OneAtATime, Usable
<1>9. InOrder'
  <2>1. \A e \in Router : tent'[mt][e].hops # {} =>
          tent[mt][e].hops # {} /\ tent'[mt][e].cost = tent[mt][e].cost
    BY <1>3, NoPathType
  <2> QED BY <1>1, <1>3, <1>4, <1>6, <2>1 DEF InOrder
<1> QED BY <1>5, <1>7, <1>8, <1>9 DEF Core

LEMMA CoreRest ==
  ASSUME Core, PopFails \/ NextTopology \/ Finish \/ UNCHANGED vars
  PROVE  Core'
<1>1. TypeOK /\ NodeIsLast /\ OneAtATime /\ InOrder
  BY DEF Core
<1>2. CASE NextTopology
  <2>1. /\ mt' = mt + 1 /\ node' = Me /\ pc' = "expand" /\ pc = "pop" /\ mt < NumMtIds
        /\ UNCHANGED <<db, paths, tent>>
        /\ \A t \in Topology, d \in Router : tent[t][d].hops = {}
    BY <1>2 DEF NextTopology, TentativeEmpty
  <2>2. mt \in Topology /\ mt' \in Topology /\ mt' > mt /\ Me \in Router
    BY <2>1, <1>1, RoutesAssumption DEF TypeOK, Topology
  <2>3. TypeOK'
    BY <2>1, <2>2, <1>1 DEF TypeOK
  <2>4. /\ \A d \in Router : d # Me => paths[mt'][d].hops = {}
        /\ paths[mt'][Me].hops # {} /\ Usable(Me)
    BY <2>1, <2>2, <1>1 DEF OneAtATime
  <2>5. NodeIsLast'
    <3>1. paths[mt'][Me].cost <= paths[mt'][Me].cost
      BY <2>2, <1>1, EntryTypes
    <3> QED BY <2>1, <2>4, <3>1 DEF NodeIsLast, Usable
  <2>6. OneAtATime'
    <3>1. \A t \in Topology : t > mt' => t > mt
      BY <2>1, <2>2, TopologyType
    <3> QED BY <2>1, <2>4, <3>1, <1>1 DEF OneAtATime, Usable
  <2>7. InOrder'
    BY <2>1, <2>2 DEF InOrder
  <2> QED BY <2>3, <2>5, <2>6, <2>7 DEF Core
<1>3. CASE PopFails \/ Finish \/ UNCHANGED vars
  <2>1. /\ UNCHANGED <<db, mt, node, paths, tent>>
        /\ pc' = pc \/ (pc = "pop" /\ pc' \in {"done", "aborted"})
    BY <1>3 DEF PopFails, Finish, vars
  <2>2. TypeOK'
    BY <2>1, <1>1 DEF TypeOK
  <2> QED BY <2>1, <2>2, <1>1 DEF Core, NodeIsLast, OneAtATime, InOrder, Usable
<1> QED BY <1>2, <1>3

LEMMA CoreStep == Core /\ [Next]_vars => Core'
BY CoreExpand, CorePop, CoreRest DEF Next

LEMMA CoreHolds == Spec => []Core
BY CoreInit, CoreStep, PTL DEF Spec

(* TypeOK: the table and the tentative paths stay well formed whatever the *)
(* database holds.                                                         *)
THEOREM TypeCorrect == Spec => []TypeOK
<1>1. Core => TypeOK
  BY DEF Core
<1> QED BY <1>1, CoreHolds, PTL

(* InstalledCostsAreFinal: a router's cost in the table is the first one   *)
(* popped for it, and its next hops only grow.                             *)
THEOREM CostsAreFinal == Spec => InstalledCostsAreFinal
<1> DEFINE Final == \A t \in Topology, d \in Router :
       paths[t][d].hops # {} => /\ paths'[t][d].cost = paths[t][d].cost
                                /\ paths[t][d].hops \subseteq paths'[t][d].hops
<1>1. Core /\ [Next]_vars => [Final]_vars
  <2> SUFFICES ASSUME Core, [Next]_vars PROVE Final
    OBVIOUS
  <2>1. CASE Pop
    <3>1. TypeOK /\ mt \in Topology
      BY DEF Core, TypeOK
    <3>2. PICK d, h \in Router : PopFacts(d, h)
      BY <2>1, <3>1, PopDoes
    <3>3. \A t \in Topology, e \in Router : t # mt \/ e # d => paths'[t][e] = paths[t][e]
      BY <3>2 DEF PopFacts
    <3> QED BY <3>2, <3>3, PopInstalls
  <2>2. CASE UNCHANGED paths
    BY <2>2
  <2> QED BY <2>1, <2>2 DEF Next, Expand, PopFails, NextTopology, Finish, vars
<1>2. Spec => [][Final]_vars
  BY CoreHolds, <1>1, PTL DEF Spec
<1> QED BY <1>2 DEF InstalledCostsAreFinal

-----------------------------------------------------------------------------
(* Links.                                                                  *)

LEMMA BoundedHolds == Spec => []Bounded
<1>1. Init => Bounded
  <2> SUFFICES ASSUME Init PROVE Bounded
    OBVIOUS
  <2>1. /\ tent = [t \in Topology |-> [d \in Router |-> NoPath]]
        /\ paths = [t \in Topology |->
             [d \in Router |-> IF d = Me THEN [cost |-> 0, hops |-> {Me}] ELSE NoPath]]
    BY DEF Init, NoPaths
  <2>2. \A t \in Topology, d \in Router :
          /\ tent[t][d].cost = MaxCost + 1
          /\ \/ paths[t][d].cost = 0 /\ paths[t][d].hops = {Me}
             \/ paths[t][d].cost = MaxCost + 1
    BY <2>1, NoPathType
  <2> QED BY <2>2, RoutesAssumption DEF Bounded
<1>2. Core /\ Bounded /\ [Next]_vars => Bounded'
  <2> SUFFICES ASSUME Core, Bounded, [Next]_vars PROVE Bounded'
    OBVIOUS
  <2>1. CASE Expand
    <3>1. TypeOK /\ NodeIsLast /\ paths' = paths
      BY <2>1 DEF Core, Expand
    <3> SUFFICES ASSUME NEW t \in Topology, NEW d \in Router, tent'[t][d].hops = {}
                 PROVE  tent'[t][d].cost = MaxCost + 1
      BY <3>1 DEF Bounded
    <3>2. CASE t = mt /\ d \in Considered
      <4>1. PICK hops \in SUBSET Router :
              hops # {} /\ tent'[mt][d] = Insert(tent[mt][d], PathCost(d), hops)
        BY <2>1, <3>1, <3>2, ExpandFacts
      <4>2. PathCost(d) \in Nat /\ tent[mt][d] \in Entry
        BY <2>1, <3>1, <3>2, ExpandFacts, EntryTypes DEF Considered
      <4>3. tent'[mt][d].hops # {}
        BY <4>1, <4>2, InsertCases
      <4> QED BY <3>2, <4>3
    <3>3. CASE tent'[t][d] = tent[t][d]
      BY <3>3 DEF Bounded
    <3> QED BY <2>1, <3>1, <3>2, <3>3, ExpandFacts
  <2>2. CASE Pop
    <3>1. TypeOK /\ mt \in Topology
      BY DEF Core, TypeOK
    <3>2. PICK d, h \in Router : PopFacts(d, h)
      BY <2>2, <3>1, PopDoes
    <3>3. paths'[mt][d].cost = tent[mt][d].cost /\ paths'[mt][d].hops # {}
      BY <3>2, PopInstalls
    <3>4. tent[mt][d].cost <= MaxCost + 1
      BY <3>1, <3>2, EntryTypes, RoutesAssumption DEF PopFacts
    <3>5. \A t \in Topology, e \in Router :
            paths'[t][e] = paths[t][e] \/ (t = mt /\ e = d)
      BY <3>2 DEF PopFacts
    <3>6. \A t \in Topology, e \in Router :
            \/ tent'[t][e] = tent[t][e]
            \/ tent'[t][e] = NoPath
            \/ t = mt /\ e = d /\ tent'[t][e].cost = tent[t][e].cost
                 /\ tent'[t][e].hops = tent[t][e].hops \ {h}
      BY <3>2 DEF PopFacts
    <3>7. tent'[mt][d].hops # {} \/ tent'[mt][d] = NoPath
      <4>1. d \in Router /\ h \in tent[mt][d].hops
        BY <3>2 DEF PopFacts
      <4>2. \/ tent'[mt][d] = NoPath
            \/ tent[mt][d].hops # {h} /\ tent'[mt][d].hops = tent[mt][d].hops \ {h}
        BY <3>1, <3>2, <4>1 DEF PopFacts
      <4> QED BY <4>1, <4>2
    <3> QED BY <3>3, <3>4, <3>5, <3>6, <3>7, NoPathType DEF Bounded
  <2>3. CASE UNCHANGED <<paths, tent>>
    BY <2>3 DEF Bounded
  <2> QED BY <2>1, <2>2, <2>3 DEF Next, PopFails, NextTopology, Finish, vars
<1> QED BY <1>1, <1>2, CoreHolds, PTL DEF Spec

LEMMA LinksInit == Init => LinksFollowed
<1> SUFFICES ASSUME Init PROVE LinksFollowed
  OBVIOUS
<1>1. /\ mt = 0 /\ node = Me
      /\ pc = IF Usable(Me) THEN "expand" ELSE "done"
      /\ paths = [t \in Topology |->
           [d \in Router |-> IF d = Me THEN [cost |-> 0, hops |-> {Me}] ELSE NoPath]]
  BY DEF Init
<1>2. \A u \in Router : paths[0][u].hops # {} => u = Me
  BY <1>1, NoPathType, TopologyType
<1>3. \A t \in 0..mt : t = 0
  BY <1>1
<1> QED BY <1>1, <1>2, <1>3 DEF LinksFollowed

LEMMA LinksExpand ==
  ASSUME Core, Bounded, LinksFollowed, Expand
  PROVE  LinksFollowed'
<1>1. TypeOK /\ NodeIsLast /\ mt \in Topology /\ node \in Router /\ pc = "expand"
      /\ UNCHANGED <<db, mt, node, paths>>
  BY DEF Core, TypeOK, Expand
<1>2. 0..mt \subseteq Topology
  BY <1>1, RoutesAssumption DEF Topology
<1> SUFFICES ASSUME NEW t \in 0..mt, NEW u \in Router, paths[t][u].hops # {}, Usable(u),
                    NEW v \in db[u].up
             PROVE  LET over == paths[t][u].cost + db[u].metric[t][v] IN
                    paths[t][v].cost <= over \/ tent'[t][v].cost <= over
  BY <1>1 DEF LinksFollowed, Usable
<1> DEFINE over == paths[t][u].cost + db[u].metric[t][v]
<1>3. /\ v \in Router /\ t \in Topology /\ over \in Nat
      /\ paths[t][v].cost \in Nat /\ tent[t][v].cost \in Nat /\ tent[t][v] \in Entry
  <2>1. v \in Router /\ t \in Topology /\ db[u].metric[t][v] \in Nat
    BY <1>1, <1>2, UsableType
  <2> QED BY <2>1, <1>1, EntryTypes
<1>4. tent'[t][v].cost <= tent[t][v].cost
  <2>1. CASE t = mt /\ v \in Considered
    <3>1. PICK hops \in SUBSET Router :
            hops # {} /\ tent'[mt][v] = Insert(tent[mt][v], PathCost(v), hops)
      BY <1>1, <2>1, ExpandFacts
    <3>2. PathCost(v) \in Nat /\ PathCost(v) <= paths[mt][v].cost
      BY <1>1, <2>1, ExpandFacts DEF Considered
    <3>3. PathCost(v) <= MaxCost + 1
      BY <3>2, <1>1, <1>3, <2>1, RoutesAssumption DEF Bounded
    <3>4. tent[mt][v].hops = {} => PathCost(v) <= tent[mt][v].cost
      BY <3>3, <2>1, <1>3 DEF Bounded
    <3>5. \/ /\ tent[mt][v].hops = {} \/ PathCost(v) < tent[mt][v].cost
             /\ tent'[mt][v].cost = PathCost(v)
          \/ tent'[mt][v].cost = tent[mt][v].cost
      BY <3>1, <3>2, <2>1, <1>3, InsertCases
    <3> QED BY <2>1, <3>2, <3>4, <3>5, <1>3
  <2> QED BY <2>1, <1>1, <1>3, ExpandFacts
<1>5. CASE u = node /\ t = mt
  <2>1. PathCost(v) = over /\ (v \notin Considered => paths[t][v].cost < over)
    BY <1>3, <1>5 DEF PathCost, Considered
  <2>2. CASE v \in Considered
    <3>1. PICK hops \in SUBSET Router :
            hops # {} /\ tent'[mt][v] = Insert(tent[mt][v], PathCost(v), hops)
      BY <1>1, <2>2, ExpandFacts
    <3> QED BY <1>3, <1>5, <2>1, <3>1, InsertCases
  <2> QED BY <1>3, <2>1, <2>2
<1>6. CASE u # node \/ t # mt
  <2>1. paths[t][v].cost <= over \/ tent[t][v].cost <= over
    BY <1>1, <1>6 DEF LinksFollowed
  <2>2. tent'[t][v].cost \in Nat
    <3>1. tent'[t][v] \in Entry
      BY <1>1, <1>3, ExpandFacts
    <3> QED BY <3>1 DEF Entry
  <2> QED BY <1>3, <1>4, <2>1, <2>2
<1> QED BY <1>5, <1>6

LEMMA LinksPop ==
  ASSUME Core, Bounded, LinksFollowed, Pop
  PROVE  LinksFollowed'
<1>1. TypeOK /\ OneAtATime /\ mt \in Topology
  BY DEF Core, TypeOK
<1>2. PICK d, h \in Router : PopFacts(d, h)
  BY <1>1, PopDoes
<1>3. /\ UNCHANGED <<db, mt>> /\ node' = d /\ pc = "pop"
      /\ pc' = PopLeadsTo(d)
      /\ \A t \in Topology, e \in Router : t # mt \/ e # d => paths'[t][e] = paths[t][e]
      /\ \A t \in Topology, e \in Router : t # mt \/ e # d =>
            tent'[t][e] = tent[t][e] \/ (e = d /\ tent'[t][e] = NoPath)
  BY <1>2 DEF PopFacts
<1>4. /\ paths'[mt][d].cost = tent[mt][d].cost
      /\ paths[mt][d].hops # {} => paths'[mt][d].cost = paths[mt][d].cost
  BY <1>2, PopInstalls
<1>5. 0..mt \subseteq Topology
  BY <1>1, RoutesAssumption DEF Topology
<1> SUFFICES ASSUME NEW t \in 0..mt, NEW u \in Router, paths'[t][u].hops # {}, Usable(u),
                    ~(pc' = "expand" /\ u = d /\ t = mt), NEW v \in db[u].up
             PROVE  LET over == paths'[t][u].cost + db[u].metric[t][v] IN
                    paths'[t][v].cost <= over \/ tent'[t][v].cost <= over
  BY <1>3 DEF LinksFollowed, Usable
<1>6. t # mt \/ u # d
  BY <1>3, LeadsTo
<1>7. t \in Topology /\ v \in Router /\ paths'[t][u] = paths[t][u]
  BY <1>1, <1>3, <1>5, <1>6, UsableType
<1> DEFINE over == paths[t][u].cost + db[u].metric[t][v]
<1>8. paths[t][v].cost <= over \/ tent[t][v].cost <= over
  BY <1>3, <1>7 DEF LinksFollowed
<1>9. /\ over \in Nat /\ paths[t][v].cost \in Nat /\ tent[t][v].cost \in Nat
  <2>1. db[u].metric[t][v] \in Nat
    BY <1>1, <1>7, UsableType
  <2> QED BY <2>1, <1>1, <1>7, EntryTypes
<1>10. CASE t = mt /\ v = d
  <2>1. paths[mt][d].hops = {} /\ paths[mt][d].cost <= over => tent[mt][d].cost <= over
    <3>1. tent[mt][d].cost < MaxCost + 1
      BY <1>2 DEF PopFacts
    <3>2. ASSUME paths[mt][d].hops = {}
          PROVE  paths[mt][d].cost = MaxCost + 1
      BY <3>2, <1>7, <1>10 DEF Bounded
    <3> QED BY <3>1, <3>2, <1>9, <1>10, RoutesAssumption
  <2> QED BY <1>4, <1>7, <1>8, <1>9, <1>10, <2>1
<1>11. CASE t # mt \/ v # d
  <2>1. paths'[t][v] = paths[t][v]
    BY <1>3, <1>7, <1>11
  <2>2. tent'[t][v].cost = tent[t][v].cost
    <3>1. CASE tent'[t][v] = tent[t][v]
      BY <3>1
    <3>2. CASE v = d /\ tent'[t][v] = NoPath
      <4>1. tent[t][v].hops = {}
        BY <1>1, <1>7, <1>11, <3>2 DEF OneAtATime
      <4> QED BY <4>1, <3>2, <1>7, NoPathType DEF Bounded
    <3> QED BY <1>3, <1>7, <1>11, <3>1, <3>2
  <2> QED BY <1>7, <1>8, <2>1, <2>2
<1> QED BY <1>10, <1>11

(* LinksFollowed: nothing popShortestPath erases is still needed, so the   *)
(* finished table respects every link of every router in it.               *)
THEOREM LinksAreFollowed == Spec => []LinksFollowed
<1>1. Core /\ Bounded /\ LinksFollowed /\ [Next]_vars => LinksFollowed'
  <2> SUFFICES ASSUME Core, Bounded, LinksFollowed, [Next]_vars PROVE LinksFollowed'
    OBVIOUS
  <2>1. CASE NextTopology
    <3>1. /\ mt' = mt + 1 /\ node' = Me /\ pc' = "expand" /\ pc = "pop" /\ mt < NumMtIds
          /\ UNCHANGED <<db, paths, tent>> /\ mt \in Topology /\ OneAtATime
      BY <2>1 DEF NextTopology, Core, TypeOK
    <3>2. /\ mt' \in Topology /\ mt' > mt
          /\ \A t \in 0..mt' : t \in 0..mt \/ t = mt'
      BY <3>1, RoutesAssumption DEF Topology
    <3>3. \A u \in Router : paths[mt'][u].hops # {} => u = Me
      BY <3>1, <3>2 DEF OneAtATime
    <3> QED BY <3>1, <3>2, <3>3 DEF LinksFollowed, Usable
  <2>2. CASE PopFails \/ Finish \/ UNCHANGED vars
    <3>1. /\ UNCHANGED <<db, mt, node, paths, tent>>
          /\ pc' = pc \/ pc = "pop"
      BY <2>2 DEF PopFails, Finish, vars
    <3> QED BY <3>1 DEF LinksFollowed, Usable
  <2> QED BY <2>1, <2>2, LinksExpand, LinksPop DEF Next
<1> QED BY <1>1, LinksInit, CoreHolds, BoundedHolds, PTL DEF Spec

-----------------------------------------------------------------------------
(* Paths.                                                                  *)

LEMMA RealInit == Init => RealPaths
<1> SUFFICES ASSUME Init PROVE RealPaths
  OBVIOUS
<1>1. /\ tent = [t \in Topology |-> [d \in Router |-> NoPath]]
      /\ paths = [t \in Topology |->
           [d \in Router |-> IF d = Me THEN [cost |-> 0, hops |-> {Me}] ELSE NoPath]]
  BY DEF Init, NoPaths
<1>2. /\ \A t \in Topology, d \in Router : tent[t][d].hops = {}
      /\ \A t \in Topology, d \in Router \ {Me} : paths[t][d].hops = {}
  BY <1>1, NoPathType
<1> QED BY <1>2 DEF RealPaths

LEMMA RealExpand ==
  ASSUME Core, RealPaths, Expand
  PROVE  RealPaths'
<1>1. /\ TypeOK /\ NodeIsLast /\ mt \in Topology /\ node \in Router /\ pc = "expand"
      /\ UNCHANGED <<db, mt, node, paths>>
      /\ Usable(node) /\ paths[mt][node].hops # {}
  BY DEF Core, TypeOK, Expand, NodeIsLast
<1>2. \A t, u, d, cost, h : LastLink(t, u, d, cost, h) => LastLink(t, u, d, cost, h)'
  BY <1>1 DEF LastLink, Usable
<1>3. ASSUME NEW t \in Topology, NEW d \in Router, NEW h \in tent'[t][d].hops
      PROVE  \E u \in Router : LastLink(t, u, d, tent'[t][d].cost, h)
  <2>1. CASE tent'[t][d] = tent[t][d]
    BY <1>3, <2>1 DEF RealPaths
  <2>2. CASE t = mt /\ d \in Considered /\ \E hops \in SUBSET Router :
               /\ hops # {}
               /\ IF node = Me THEN hops = {d} ELSE hops = paths[mt][node].hops
               /\ tent'[t][d] = Insert(tent[t][d], PathCost(d), hops)
    <3>1. PICK hops \in SUBSET Router :
               /\ hops # {}
               /\ IF node = Me THEN hops = {d} ELSE hops = paths[mt][node].hops
               /\ tent'[t][d] = Insert(tent[t][d], PathCost(d), hops)
      BY <2>2
    <3>2. d \in db[node].up /\ PathCost(d) \in Nat /\ tent[t][d] \in Entry
      BY <1>1, <2>2, ExpandFacts, EntryTypes DEF Considered
    <3>3. ASSUME h \in hops PROVE LastLink(t, node, d, PathCost(d), h)
      BY <1>1, <2>2, <3>1, <3>2, <3>3 DEF LastLink, PathCost
    <3>4. CASE tent'[t][d].cost = PathCost(d) /\ tent'[t][d].hops = hops
      BY <1>1, <1>3, <3>3, <3>4
    <3>5. CASE /\ tent'[t][d].cost = tent[t][d].cost /\ PathCost(d) = tent[t][d].cost
               /\ tent'[t][d].hops = tent[t][d].hops \cup hops
      <4>1. CASE h \in hops
        BY <1>1, <3>3, <3>5, <4>1
      <4>2. CASE h \in tent[t][d].hops
        <5>1. \E u \in Router : LastLink(t, u, d, tent[t][d].cost, h)
          BY <4>2 DEF RealPaths
        <5> QED BY <5>1, <3>5
      <4> QED BY <1>3, <3>5, <4>1, <4>2
    <3>6. CASE tent'[t][d] = tent[t][d]
      BY <2>1, <3>6
    <3> QED BY <3>1, <3>2, <3>4, <3>5, <3>6, InsertCases
  <2> QED BY <1>1, <2>1, <2>2, ExpandFacts
<1>4. ASSUME NEW t \in Topology, NEW d \in Router, NEW h \in tent'[t][d].hops
      PROVE  \E u \in Router : LastLink(t, u, d, tent[t][d].cost, h)'
  <2>1. PICK u \in Router : LastLink(t, u, d, tent'[t][d].cost, h)
    BY <1>3, <1>4
  <2>2. LastLink(t, u, d, tent[t][d].cost, h)'
    BY <1>1, <2>1 DEF LastLink, Usable
  <2> QED BY <2>2
<1>5. ASSUME NEW t \in Topology, NEW d \in Router \ {Me}, NEW h \in paths'[t][d].hops
      PROVE  \E u \in Router : LastLink(t, u, d, paths[t][d].cost, h)'
  <2>1. PICK u \in Router : LastLink(t, u, d, paths[t][d].cost, h)
    BY <1>1, <1>5 DEF RealPaths
  <2>2. LastLink(t, u, d, paths[t][d].cost, h)'
    BY <1>1, <2>1 DEF LastLink, Usable
  <2> QED BY <2>2
<1> QED BY <1>4, <1>5 DEF RealPaths

LEMMA RealPop ==
  ASSUME Core, RealPaths, Pop
  PROVE  RealPaths'
<1>1. TypeOK /\ mt \in Topology
  BY DEF Core, TypeOK
<1>2. PICK p, q \in Router : PopFacts(p, q)
  BY <1>1, PopDoes
<1>3. /\ UNCHANGED <<db, mt>> /\ q \in tent[mt][p].hops
      /\ \A t \in Topology, e \in Router : t # mt \/ e # p => paths'[t][e] = paths[t][e]
      /\ \A t \in Topology, e \in Router :
           \/ tent'[t][e] = tent[t][e]
           \/ tent'[t][e] = NoPath
           \/ /\ tent'[t][e].cost = tent[t][e].cost
              /\ tent'[t][e].hops = tent[t][e].hops \ {q}
  BY <1>2 DEF PopFacts
<1>4. /\ paths'[mt][p].cost = tent[mt][p].cost
      /\ \/ paths[mt][p].hops = {} /\ paths'[mt][p].hops = {q}
         \/ /\ paths[mt][p].hops # {} /\ paths[mt][p].cost = tent[mt][p].cost
            /\ paths'[mt][p].hops = paths[mt][p].hops \cup {q}
  BY <1>2, PopInstalls
<1>5. ASSUME NEW t \in Topology, NEW u \in Router, NEW d, NEW cost, NEW h,
             LastLink(t, u, d, cost, h)
      PROVE  LastLink(t, u, d, cost, h)'
  <2>1. /\ paths[t][u].hops # {} => paths'[t][u].cost = paths[t][u].cost
        /\ paths[t][u].hops \subseteq paths'[t][u].hops
    BY <1>3, <1>4
  <2> QED BY <1>3, <1>5, <2>1 DEF LastLink, Usable
<1>6. ASSUME NEW t \in Topology, NEW d \in Router, NEW h \in tent'[t][d].hops
      PROVE  \E u \in Router : LastLink(t, u, d, tent[t][d].cost, h)'
  <2>1. h \in tent[t][d].hops /\ tent'[t][d].cost = tent[t][d].cost
    BY <1>3, <1>6, NoPathType
  <2>2. PICK u \in Router : LastLink(t, u, d, tent[t][d].cost, h)
    BY <2>1 DEF RealPaths
  <2>3. LastLink(t, u, d, tent'[t][d].cost, h)
    BY <2>1, <2>2
  <2>4. LastLink(t, u, d, tent[t][d].cost, h)'
    <3>1. \A cost : cost = tent[t][d].cost => LastLink(t, u, d, cost, h)'
      BY <1>5, <2>2
    <3> QED BY <3>1, <2>1 DEF LastLink, Usable
  <2> QED BY <2>4
<1>7. ASSUME NEW t \in Topology, NEW d \in Router \ {Me}, NEW h \in paths'[t][d].hops
      PROVE  \E u \in Router : LastLink(t, u, d, paths[t][d].cost, h)'
  <2>1. \/ h \in paths[t][d].hops /\ paths'[t][d].cost = paths[t][d].cost
        \/ t = mt /\ d = p /\ h = q /\ paths'[t][d].cost = tent[t][d].cost
    BY <1>3, <1>4, <1>7
  <2>2. PICK u \in Router : LastLink(t, u, d, paths'[t][d].cost, h)
    <3>1. CASE h \in paths[t][d].hops /\ paths'[t][d].cost = paths[t][d].cost
      <4>1. \E u \in Router : LastLink(t, u, d, paths[t][d].cost, h)
        BY <3>1 DEF RealPaths
      <4> QED BY <4>1, <3>1
    <3>2. CASE t = mt /\ d = p /\ h = q /\ paths'[t][d].cost = tent[t][d].cost
      <4>1. \E u \in Router : LastLink(t, u, d, tent[t][d].cost, h)
        BY <3>2, <1>3 DEF RealPaths
      <4> QED BY <4>1, <3>2
    <3> QED BY <2>1, <3>1, <3>2
  <2>3. /\ paths[t][u].hops # {} => paths'[t][u].cost = paths[t][u].cost
        /\ paths[t][u].hops \subseteq paths'[t][u].hops
    BY <1>3, <1>4
  <2>4. LastLink(t, u, d, paths[t][d].cost, h)'
    BY <1>3, <2>2, <2>3 DEF LastLink, Usable
  <2> QED BY <2>4
<1> QED BY <1>6, <1>7 DEF RealPaths

LEMMA RealHolds == Spec => []RealPaths
<1>1. Core /\ RealPaths /\ [Next]_vars => RealPaths'
  <2> SUFFICES ASSUME Core, RealPaths, [Next]_vars PROVE RealPaths'
    OBVIOUS
  <2>1. CASE UNCHANGED <<db, paths, tent>>
    BY <2>1 DEF RealPaths, LastLink, Usable
  <2> QED BY <2>1, RealExpand, RealPop DEF Next, PopFails, NextTopology, Finish, vars
<1> QED BY <1>1, RealInit, CoreHolds, PTL DEF Spec

(* PathsAreReal: no next hop in the table without a path behind it, over   *)
(* links that are up, at the cost the table gives.                         *)
THEOREM PathsExist == Spec => []PathsAreReal
<1>1. RealPaths => PathsAreReal
  BY DEF RealPaths, PathsAreReal, LastLink
<1> QED BY <1>1, RealHolds, PTL

-----------------------------------------------------------------------------
(* Induction over sets of naturals, which needs no operator parameter.     *)

(* A set of naturals has a smallest element.  The finite subsets of Nat    *)
(* are well founded by inclusion: the intervals from 0 to the elements.    *)
LEMMA SmallestOf ==
  ASSUME NEW S, S \subseteq Nat, S # {}
  PROVE  \E n \in S : \A m \in S : n <= m
<1> DEFINE T == {0..n : n \in S}
<1>1. IsWellFoundedOn(StrictSubsetOrdering(Nat), FiniteSubsetsOf(Nat))
  BY FS_StrictSubsetOrderingWellFounded
<1>2. T \subseteq FiniteSubsetsOf(Nat) /\ T # {}
  <2>1. \A n \in S : 0..n \in SUBSET Nat /\ IsFiniteSet(0..n)
    BY FS_Interval
  <2> QED BY <2>1 DEF FiniteSubsetsOf
<1> HIDE DEF T
<1>3. PICK A \in T : \A B \in T : <<B, A>> \notin StrictSubsetOrdering(Nat)
  BY <1>1, <1>2, WFMin
<1>4. PICK n \in S : A = 0..n
  BY <1>3 DEF T
<1>5. ASSUME NEW m \in S, m < n PROVE FALSE
  <2>1. 0..m \in T
    BY DEF T
  <2>2. n \in 0..n /\ n \notin 0..m /\ 0..m \subseteq 0..n /\ 0..n \in SUBSET Nat
    BY <1>5
  <2>3. <<0..m, 0..n>> \in StrictSubsetOrdering(Nat)
    BY <2>2 DEF StrictSubsetOrdering
  <2> QED BY <1>3, <1>4, <2>1, <2>3
<1> QED BY <1>5

(* Induction, over a set instead of a predicate.                           *)
LEMMA NaturalsIn ==
  ASSUME NEW S, 0 \in S, \A n \in Nat : n \in S => n + 1 \in S
  PROVE  \A n \in Nat : n \in S
<1> SUFFICES ASSUME Nat \ S # {} PROVE FALSE
  OBVIOUS
<1>1. PICK n \in Nat \ S : \A m \in Nat \ S : n <= m
  BY SmallestOf
<1>2. n # 0 /\ n - 1 \in Nat /\ n - 1 \in S
  BY <1>1
<1> QED BY <1>1, <1>2

(* A function may be iterated.                                             *)
LEMMA Iterates ==
  ASSUME NEW A, NEW a \in A, NEW G \in [A -> A], NEW n \in Nat
  PROVE  \E f \in [0..n -> A] : f[0] = a /\ \A k \in 1..n : f[k] = G[f[k - 1]]
<1> DEFINE Iterated(m) == \E f \in [0..m -> A] : f[0] = a /\ \A k \in 1..m : f[k] = G[f[k - 1]]
           S == {m \in Nat : Iterated(m)}
<1>1. 0 \in S
  <2> DEFINE f == [i \in 0..0 |-> a]
  <2>1. f \in [0..0 -> A] /\ f[0] = a /\ \A k \in 1..0 : f[k] = G[f[k - 1]]
    OBVIOUS
  <2> QED BY <2>1
<1>2. ASSUME NEW m \in Nat, m \in S PROVE m + 1 \in S
  <2>1. PICK f \in [0..m -> A] : f[0] = a /\ \A k \in 1..m : f[k] = G[f[k - 1]]
    BY <1>2
  <2> DEFINE g == [i \in 0..(m + 1) |-> IF i = m + 1 THEN G[f[m]] ELSE f[i]]
  <2>2. g \in [0..(m + 1) -> A] /\ g[0] = a
    BY <2>1
  <2>3. \A k \in 1..(m + 1) : g[k] = G[g[k - 1]]
    <3> TAKE k \in 1..(m + 1)
    <3>1. CASE k = m + 1
      BY <3>1
    <3>2. CASE k # m + 1
      <4>1. k \in 1..m /\ k \in 0..m /\ k - 1 \in 0..m /\ k - 1 # m + 1
        BY <3>2
      <4> QED BY <2>1, <3>2, <4>1
    <3> QED BY <3>1, <3>2
  <2> HIDE DEF g
  <2> QED BY <2>2, <2>3
<1> HIDE DEF S
<1>3. n \in S
  BY <1>1, <1>2, NaturalsIn
<1> QED BY <1>3 DEF S

-----------------------------------------------------------------------------
(* The reference definition.                                               *)

Pairs == Router \X Router

(* What the operators of the reference definition return.                  *)

LEMMA MinOfIs ==
  ASSUME NEW S, S \subseteq Nat, S # {}
  PROVE  MinOf(S) \in S /\ \A x \in S : MinOf(S) <= x
BY SmallestOf, Zenon DEF MinOf

LEMMA LinkCostIs ==
  ASSUME TypeOK, NEW t \in Topology, NEW u \in Router, NEW v \in Router
  PROVE  LinkCost(t, u, v) \in Nat
<1>1. MaxCost + 1 \in Nat
  BY RoutesAssumption
<1>2. Usable(u) => db[u].metric[t][v] \in Nat
  BY UsableType
<1> QED BY <1>1, <1>2 DEF LinkCost, Infinity

(* What Relaxed finds: a path that is one link longer, or none.            *)
LEMMA RelaxedIs ==
  ASSUME TypeOK, NEW t \in Topology, NEW dist \in [Pairs -> Nat]
  PROVE  /\ Relaxed(t, dist) \in [Pairs -> Nat]
         /\ \A v, w \in Router :
              /\ Relaxed(t, dist)[<<v, w>>] <= Infinity
              /\ \A u \in Router :
                   Relaxed(t, dist)[<<v, w>>] <= dist[<<v, u>>] + LinkCost(t, u, w)
              /\ \/ Relaxed(t, dist)[<<v, w>>] = Infinity
                 \/ \E u \in Router :
                      Relaxed(t, dist)[<<v, w>>] = dist[<<v, u>>] + LinkCost(t, u, w)
<1> DEFINE S(e) == {Infinity} \cup {dist[<<e[1], u>>] + LinkCost(t, u, e[2]) : u \in Router}
<1>1. Infinity \in Nat
  BY RoutesAssumption DEF Infinity
<1>2. ASSUME NEW e \in Pairs
      PROVE  S(e) \subseteq Nat /\ S(e) # {}
  <2>1. \A u \in Router : dist[<<e[1], u>>] \in Nat /\ LinkCost(t, u, e[2]) \in Nat
    BY <1>2, LinkCostIs DEF Pairs
  <2>2. \A u \in Router : dist[<<e[1], u>>] + LinkCost(t, u, e[2]) \in Nat
    BY <2>1
  <2> QED BY <1>1, <2>2
<1>3. ASSUME NEW e \in Pairs
      PROVE  MinOf(S(e)) \in S(e) /\ MinOf(S(e)) \in Nat /\ \A x \in S(e) : MinOf(S(e)) <= x
  <2> HIDE DEF S
  <2> QED BY <1>2, MinOfIs
<1>4. Relaxed(t, dist) = [e \in Pairs |-> MinOf(S(e))]
  BY DEF Relaxed, Pairs
<1>5. ASSUME NEW v \in Router, NEW w \in Router
      PROVE  /\ Relaxed(t, dist)[<<v, w>>] \in S(<<v, w>>)
             /\ \A x \in S(<<v, w>>) : Relaxed(t, dist)[<<v, w>>] <= x
  <2>1. <<v, w>> \in Pairs
    BY DEF Pairs
  <2>2. Relaxed(t, dist)[<<v, w>>] = MinOf(S(<<v, w>>))
    <3> HIDE DEF S
    <3> QED BY <1>4, <2>1
  <2> HIDE DEF S
  <2> QED BY <1>3, <2>1, <2>2
<1>6. Relaxed(t, dist) \in [Pairs -> Nat]
  <2> HIDE DEF S
  <2> QED BY <1>3, <1>4
<1>7. ASSUME NEW v \in Router, NEW w \in Router
      PROVE  S(<<v, w>>) = {Infinity} \cup {dist[<<v, u>>] + LinkCost(t, u, w) : u \in Router}
  OBVIOUS
<1> HIDE DEF S
<1> QED BY <1>5, <1>6, <1>7

(* The distances by number of links, whatever was to be computed.          *)
LEMMA DistancesAre ==
  ASSUME TypeOK, NEW t \in Topology
  PROVE  LET N == Cardinality(Router) IN
         \E within \in [0..N -> [Pairs -> Nat]] :
           /\ Distances(t) = within[N]
           /\ within[0] = [e \in Pairs |-> IF e[1] = e[2] THEN 0 ELSE Infinity]
           /\ \A k \in 1..N : within[k] = Relaxed(t, within[k - 1])
<1> DEFINE N == Cardinality(Router)
           A == [Pairs -> Nat]
           first == [e \in Pairs |-> IF e[1] = e[2] THEN 0 ELSE Infinity]
           step == [dist \in A |-> Relaxed(t, dist)]
           Def(f) == f = [k \in 0..N |-> IF k = 0 THEN first ELSE Relaxed(t, f[k - 1])]
           within == CHOOSE f : Def(f)
<1>1. N \in Nat
  BY RoutesAssumption, FS_CardinalityType
<1>2. first \in A
  BY RoutesAssumption DEF Infinity
<1>3. step \in [A -> A]
  BY RelaxedIs
<1>4. Distances(t) = within[N]
  BY DEF Distances, Pairs
<1> HIDE DEF N, A, first
<1>5. PICK f \in [0..N -> A] : f[0] = first /\ \A k \in 1..N : f[k] = step[f[k - 1]]
  <2> HIDE DEF step
  <2> QED BY <1>1, <1>2, <1>3, Iterates, SMTT(30)
<1>6. \A k \in 0..N : f[k] = IF k = 0 THEN first ELSE Relaxed(t, f[k - 1])
  <2> TAKE k \in 0..N
  <2>1. CASE k = 0
    BY <1>5, <2>1
  <2>2. CASE k # 0
    <3>1. k \in 1..N /\ k - 1 \in 0..N
      BY <1>1, <2>2
    <3> QED BY <1>5, <2>2, <3>1
  <2> QED BY <2>1, <2>2
<1>7. Def(f)
  BY <1>5, <1>6
<1>8. Def(within)
  <2> HIDE DEF Def
  <2> QED BY <1>7
<1>9. /\ within = [k \in 0..N |-> IF k = 0 THEN first ELSE Relaxed(t, within[k - 1])]
  BY <1>8
<1> HIDE DEF within
<1>10. /\ DOMAIN within = 0..N /\ within[0] = first
       /\ \A k \in 1..N : within[k] = Relaxed(t, within[k - 1])
  BY <1>1, <1>9
<1>11. \A k \in Nat : k <= N => within[k] \in A
  <2> DEFINE S == {i \in Nat : i <= N => within[i] \in A}
  <2>1. 0 \in S
    BY <1>2, <1>10
  <2>2. ASSUME NEW k \in Nat, k \in S PROVE k + 1 \in S
    <3> SUFFICES ASSUME k + 1 <= N PROVE within[k + 1] \in A
      OBVIOUS
    <3>1. within[k] \in A /\ k + 1 \in 1..N
      BY <1>1, <2>2
    <3>2. within[k + 1] = Relaxed(t, within[k])
      BY <1>10, <3>1
    <3> QED BY <3>1, <3>2, RelaxedIs DEF A
  <2>3. \A k \in Nat : k \in S
    <3> HIDE DEF S
    <3> QED BY <2>1, <2>2, NaturalsIn
  <2> QED BY <2>3
<1>12. within \in [0..N -> A]
  BY <1>1, <1>9, <1>11
<1> QED BY <1>4, <1>10, <1>12 DEF N, A, first

(* The distances over at most k links, for every k.                        *)
Within(t, within) ==
  LET N == Cardinality(Router) IN
  /\ within \in [0..N -> [Pairs -> Nat]]
  /\ Distances(t) = within[N]
  /\ within[0] = [e \in Pairs |-> IF e[1] = e[2] THEN 0 ELSE Infinity]
  /\ \A k \in 1..N : within[k] = Relaxed(t, within[k - 1])

LEMMA WithinExists ==
  ASSUME TypeOK, NEW t \in Topology
  PROVE  \E within : Within(t, within)
BY DistancesAre, Zenon DEF Within

LEMMA NumberOfRouters == Cardinality(Router) \in Nat
BY RoutesAssumption, FS_CardinalityType

LEMMA WithinSteps ==
  ASSUME TypeOK, NEW t \in Topology, NEW within, Within(t, within),
         NEW k \in Nat, k + 1 <= Cardinality(Router), NEW v \in Router, NEW w \in Router
  PROVE  /\ within[k][<<v, w>>] \in Nat /\ within[k + 1][<<v, w>>] \in Nat
         /\ within[k + 1][<<v, w>>] <= Infinity
         /\ \A u \in Router : within[k + 1][<<v, w>>] <= within[k][<<v, u>>] + LinkCost(t, u, w)
         /\ \/ within[k + 1][<<v, w>>] = Infinity
            \/ \E u \in Router :
                 within[k + 1][<<v, w>>] = within[k][<<v, u>>] + LinkCost(t, u, w)
         /\ within[k + 1][<<v, w>>] <= within[k][<<v, w>>]
<1> DEFINE N == Cardinality(Router)
<1>1. N \in Nat /\ k \in 0..N /\ k + 1 \in 1..N /\ k + 1 \in 0..N
  BY NumberOfRouters
<1>2. /\ within[k] \in [Pairs -> Nat] /\ within[k + 1] \in [Pairs -> Nat]
      /\ within[k + 1] = Relaxed(t, within[k])
  BY <1>1 DEF Within
<1>3. <<v, w>> \in Pairs
  BY DEF Pairs
<1>4. LinkCost(t, w, w) = 0
  BY DEF LinkCost
<1>5. within[k][<<v, w>>] \in Nat /\ within[k + 1][<<v, w>>] \in Nat
  BY <1>2, <1>3
<1>6. \A u \in Router : within[k + 1][<<v, w>>] <= within[k][<<v, u>>] + LinkCost(t, u, w)
  BY <1>2, RelaxedIs
<1>7. within[k + 1][<<v, w>>] <= within[k][<<v, w>>]
  BY <1>4, <1>5, <1>6
<1> QED BY <1>2, <1>5, <1>6, <1>7, RelaxedIs

LEMMA WithinShrinks ==
  ASSUME TypeOK, NEW t \in Topology, NEW within, Within(t, within),
         NEW v \in Router, NEW w \in Router
  PROVE  \A k \in 0..Cardinality(Router) :
           /\ within[k][<<v, v>>] = 0
           /\ \A j \in 0..k : within[k][<<v, w>>] <= within[j][<<v, w>>]
<1> DEFINE N == Cardinality(Router)
           S == {k \in Nat : k <= N =>
                   /\ within[k][<<v, v>>] = 0
                   /\ within[k][<<v, w>>] \in Nat
                   /\ \A j \in 0..k : within[k][<<v, w>>] <= within[j][<<v, w>>]}
<1>1. N \in Nat
  BY NumberOfRouters
<1>2. 0 \in S
  <2>1. within[0] \in [Pairs -> Nat] /\ <<v, v>> \in Pairs /\ <<v, w>> \in Pairs
    BY <1>1 DEF Within, Pairs
  <2>2. within[0][<<v, v>>] = 0 /\ within[0][<<v, w>>] \in Nat
    BY <2>1 DEF Within
  <2> QED BY <2>2
<1>3. ASSUME NEW k \in Nat, k \in S PROVE k + 1 \in S
  <2> SUFFICES ASSUME k + 1 <= N
               PROVE  /\ within[k + 1][<<v, v>>] = 0
                      /\ within[k + 1][<<v, w>>] \in Nat
                      /\ \A j \in 0..(k + 1) : within[k + 1][<<v, w>>] <= within[j][<<v, w>>]
    OBVIOUS
  <2>1. /\ within[k][<<v, v>>] = 0
        /\ within[k][<<v, w>>] \in Nat
        /\ \A j \in 0..k : within[k][<<v, w>>] <= within[j][<<v, w>>]
    BY <1>1, <1>3
  <2>2. /\ within[k + 1][<<v, v>>] \in Nat /\ within[k + 1][<<v, v>>] <= within[k][<<v, v>>]
        /\ within[k + 1][<<v, w>>] \in Nat
        /\ within[k + 1][<<v, w>>] <= within[k][<<v, w>>]
    BY WithinSteps
  <2>3. ASSUME NEW j \in 0..(k + 1)
        PROVE  within[k + 1][<<v, w>>] <= within[j][<<v, w>>]
    <3>1. CASE j = k + 1
      BY <2>2, <3>1
    <3>2. CASE j \in 0..k
      <4>1. within[j][<<v, w>>] \in Nat
        <5>1. j \in 0..N /\ <<v, w>> \in Pairs
          BY <1>1, <3>2 DEF Pairs
        <5> QED BY <5>1 DEF Within
      <4> QED BY <2>1, <2>2, <3>2, <4>1
    <3> QED BY <3>1, <3>2
  <2> QED BY <2>1, <2>2, <2>3
<1>4. \A k \in Nat : k \in S
  <2> HIDE DEF S
  <2> QED BY <1>2, <1>3, NaturalsIn
<1> QED BY <1>1, <1>4

-----------------------------------------------------------------------------
(* Settled tables.                                                         *)

(* What the shortest paths need of the databases: no link that is up costs *)
(* nothing.  LS_MIN_COST is 0; but with two routers linked at that cost    *)
(* _computeRoutes does not end.                                            *)
PositiveMetrics ==
  \A data \in Databases, n \in Router : data[n] \notin {NoLSA, Emptied} =>
    \A v \in data[n].up, t \in Topology : data[n].metric[t][v] > 0

(* The path that goes on over the link from u to v: its cost and hops.     *)
Over(t, u, v) == paths[t][u].cost + db[u].metric[t][v]
NextHops(t, u, v) == IF u = Me THEN {v} ELSE paths[t][u].hops

(* The router's own entry stays as it is.                                  *)
MeStays ==
  \A t \in Topology :
    paths[t][Me].cost = 0 /\ paths[t][Me].hops = {Me} /\ tent[t][Me].hops = {}

(* The table of a topology, when no path at most MaxCost long is left to   *)
(* pop: it takes all links into account, and nothing else.                 *)
Settled(t) ==
  /\ paths[t][Me].cost = 0 /\ paths[t][Me].hops = {Me}
  /\ \A d \in Router : IF paths[t][d].hops = {} THEN paths[t][d].cost = MaxCost + 1
                       ELSE paths[t][d].cost <= MaxCost
  /\ \A u \in Router : paths[t][u].hops # {} /\ Usable(u) =>
       \A v \in db[u].up :
         /\ db[u].metric[t][v] > 0
         /\ Over(t, u, v) <= MaxCost =>
              /\ paths[t][v].cost <= Over(t, u, v)
              /\ paths[t][v].cost = Over(t, u, v) => NextHops(t, u, v) \subseteq paths[t][v].hops
  /\ \A d \in Router \ {Me} : \A h \in paths[t][d].hops :
       \E u \in Router : LastLink(t, u, d, paths[t][d].cost, h)

(* No link leads to a lower cost than the table has ...                    *)
LEMMA LinksAreNoShorter ==
  ASSUME TypeOK, NEW t \in Topology, Settled(t), NEW u \in Router, NEW v \in Router
  PROVE  /\ paths[t][v].cost \in Nat /\ paths[t][u].cost \in Nat
         /\ paths[t][v].cost <= MaxCost + 1
         /\ paths[t][v].cost <= paths[t][u].cost + LinkCost(t, u, v)
<1>1. /\ paths[t][v].cost \in Nat /\ paths[t][u].cost \in Nat /\ LinkCost(t, u, v) \in Nat
      /\ MaxCost \in Nat
  BY EntryTypes, LinkCostIs, RoutesAssumption
<1>2. paths[t][v].cost <= MaxCost + 1 /\ paths[t][u].cost <= MaxCost + 1
  BY <1>1 DEF Settled
<1>3. CASE u = v
  BY <1>1, <1>2, <1>3
<1>4. CASE u # v /\ Usable(u) /\ v \in db[u].up
  <2>1. LinkCost(t, u, v) = db[u].metric[t][v]
    BY <1>4 DEF LinkCost
  <2>2. CASE paths[t][u].hops = {}
    BY <1>1, <1>2, <2>2 DEF Settled
  <2>3. CASE paths[t][u].hops # {}
    <3>1. Over(t, u, v) <= MaxCost => paths[t][v].cost <= Over(t, u, v)
      BY <1>4, <2>3 DEF Settled
    <3> QED BY <1>1, <1>2, <2>1, <3>1 DEF Over
  <2> QED BY <2>2, <2>3
<1>5. CASE u # v /\ ~(Usable(u) /\ v \in db[u].up)
  <2>1. LinkCost(t, u, v) = MaxCost + 1
    BY <1>5 DEF LinkCost, Infinity
  <2> QED BY <1>1, <1>2, <2>1
<1> QED BY <1>1, <1>2, <1>3, <1>4, <1>5

(* ... and so no path does.                                                *)
LEMMA PathsAreNoShorter ==
  ASSUME TypeOK, NEW t \in Topology, Settled(t), NEW within, Within(t, within),
         NEW h \in Router
  PROVE  \A k \in 0..Cardinality(Router) : \A d \in Router :
           paths[t][d].cost <= paths[t][h].cost + within[k][<<h, d>>]
<1> DEFINE N == Cardinality(Router)
           S == {k \in Nat : k <= N => \A d \in Router :
                   paths[t][d].cost <= paths[t][h].cost + within[k][<<h, d>>]}
<1>1. N \in Nat /\ MaxCost \in Nat
  BY NumberOfRouters, RoutesAssumption
<1>2. \A d \in Router : paths[t][d].cost \in Nat /\ paths[t][d].cost <= MaxCost + 1
  BY LinksAreNoShorter
<1>3. 0 \in S
  <2>1. ASSUME NEW d \in Router
        PROVE  within[0][<<h, d>>] = IF h = d THEN 0 ELSE MaxCost + 1
    <3>1. <<h, d>> \in Pairs
      BY DEF Pairs
    <3> QED BY <3>1 DEF Within, Infinity
  <2> QED BY <1>1, <1>2, <2>1
<1>4. ASSUME NEW k \in Nat, k \in S PROVE k + 1 \in S
  <2> SUFFICES ASSUME k + 1 <= N, NEW d \in Router
               PROVE  paths[t][d].cost <= paths[t][h].cost + within[k + 1][<<h, d>>]
    OBVIOUS
  <2>1. CASE within[k + 1][<<h, d>>] = Infinity
    BY <1>1, <1>2, <2>1 DEF Infinity
  <2>2. CASE within[k + 1][<<h, d>>] # Infinity
    <3>1. PICK u \in Router : within[k + 1][<<h, d>>] = within[k][<<h, u>>] + LinkCost(t, u, d)
      BY <2>2, WithinSteps
    <3>2. within[k][<<h, u>>] \in Nat /\ LinkCost(t, u, d) \in Nat
      BY WithinSteps, LinkCostIs
    <3>3. paths[t][u].cost <= paths[t][h].cost + within[k][<<h, u>>]
      BY <1>1, <1>4
    <3>4. paths[t][d].cost <= paths[t][u].cost + LinkCost(t, u, d)
      BY LinksAreNoShorter
    <3> QED BY <1>2, <3>1, <3>2, <3>3, <3>4
  <2> QED BY <2>1, <2>2
<1>5. \A k \in Nat : k \in S
  <2> HIDE DEF S
  <2> QED BY <1>3, <1>4, NaturalsIn
<1> QED BY <1>1, <1>5

(* The routers in the table at a lower cost: a path needs no more links.   *)
Nearer(t, d) ==
  {v \in Router : paths[t][v].hops # {} /\ paths[t][v].cost < paths[t][d].cost}
Far(t, d) == Cardinality(Nearer(t, d))

LEMMA FarIs ==
  ASSUME TypeOK, NEW t \in Topology, NEW d \in Router
  PROVE  /\ IsFiniteSet(Nearer(t, d))
         /\ Far(t, d) \in Nat /\ Far(t, d) <= Cardinality(Router)
<1>1. Nearer(t, d) \in SUBSET Router /\ IsFiniteSet(Router)
  BY RoutesAssumption DEF Nearer
<1>2. IsFiniteSet(Nearer(t, d)) /\ Cardinality(Nearer(t, d)) <= Cardinality(Router)
  BY <1>1, FS_Subset
<1> QED BY <1>2, FS_CardinalityType DEF Far

LEMMA LastLinkIsNearer ==
  ASSUME TypeOK, NEW t \in Topology, Settled(t), NEW d \in Router, NEW h, NEW u \in Router,
         LastLink(t, u, d, paths[t][d].cost, h)
  PROVE  /\ paths[t][u].hops # {} /\ u # d
         /\ paths[t][d].cost = paths[t][u].cost + LinkCost(t, u, d)
         /\ Far(t, u) + 1 <= Far(t, d)
<1>1. /\ Usable(u) /\ d \in db[u].up /\ paths[t][u].hops # {}
      /\ paths[t][d].cost = paths[t][u].cost + db[u].metric[t][d]
  BY DEF LastLink
<1>2. db[u].metric[t][d] > 0 /\ db[u].metric[t][d] \in Nat
  BY <1>1, UsableType DEF Settled
<1>3. \A v \in Router : paths[t][v].cost \in Nat
  BY EntryTypes
<1>4. paths[t][u].cost < paths[t][d].cost /\ u # d
  BY <1>1, <1>2, <1>3
<1>5. Nearer(t, u) \cup {u} \in SUBSET Nearer(t, d) /\ u \notin Nearer(t, u)
  BY <1>1, <1>3, <1>4 DEF Nearer
<1>6. Cardinality(Nearer(t, u) \cup {u}) = Far(t, u) + 1
  BY <1>5, FarIs, FS_AddElement DEF Far
<1>7. Cardinality(Nearer(t, u) \cup {u}) <= Far(t, d)
  BY <1>5, FarIs, FS_Subset DEF Far
<1>8. LinkCost(t, u, d) = db[u].metric[t][d]
  BY <1>1, <1>4 DEF LinkCost
<1> QED BY <1>1, <1>4, <1>6, <1>7, <1>8

(* The path a table entry stands for.                                      *)
OverPath(t, within, d) ==
  /\ within[Far(t, d)][<<Me, d>>] <= paths[t][d].cost
  /\ \A h \in paths[t][d].hops : d # Me =>
       /\ h \in Router \ {Me}
       /\ LinkCost(t, Me, h) + within[Far(t, d)][<<h, d>>] <= paths[t][d].cost

LEMMA StepOnPath ==
  ASSUME TypeOK, NEW t \in Topology, Settled(t), NEW within, Within(t, within),
         NEW d \in Router \ {Me}, NEW h \in paths[t][d].hops, NEW u \in Router,
         LastLink(t, u, d, paths[t][d].cost, h), OverPath(t, within, u)
  PROVE  /\ within[Far(t, d)][<<Me, d>>] <= paths[t][d].cost
         /\ h \in Router \ {Me}
         /\ LinkCost(t, Me, h) + within[Far(t, d)][<<h, d>>] <= paths[t][d].cost
<1>1. /\ paths[t][u].hops # {} /\ u # d
      /\ paths[t][d].cost = paths[t][u].cost + LinkCost(t, u, d)
      /\ Far(t, u) + 1 <= Far(t, d)
  BY LastLinkIsNearer
<1>2. /\ Far(t, u) \in Nat /\ Far(t, d) \in 0..Cardinality(Router)
      /\ Far(t, u) + 1 \in 0..Far(t, d) /\ Far(t, u) + 1 <= Cardinality(Router)
  BY <1>1, FarIs, NumberOfRouters
<1>3. Me \in Router /\ h \in Router /\ LinkCost(t, u, d) \in Nat /\ paths[t][u].cost \in Nat
  BY EntryTypes, LinkCostIs, RoutesAssumption
<1>4. ASSUME NEW v \in Router
      PROVE  /\ within[Far(t, d)][<<v, d>>] <= within[Far(t, u)][<<v, u>>] + LinkCost(t, u, d)
             /\ within[Far(t, d)][<<v, d>>] \in Nat /\ within[Far(t, u)][<<v, u>>] \in Nat
  <2>1. within[Far(t, d)][<<v, d>>] <= within[Far(t, u) + 1][<<v, d>>]
    BY <1>2, WithinShrinks
  <2>2. /\ within[Far(t, u) + 1][<<v, d>>] <= within[Far(t, u)][<<v, u>>] + LinkCost(t, u, d)
        /\ within[Far(t, u) + 1][<<v, d>>] \in Nat
    BY <1>2, WithinSteps
  <2>3. within[Far(t, u)][<<v, u>>] \in Nat
    BY <1>2, WithinSteps
  <2>4. within[Far(t, d)][<<v, d>>] \in Nat
    <3>1. <<v, d>> \in Pairs
      BY DEF Pairs
    <3> QED BY <1>2, <3>1 DEF Within
  <2> QED BY <1>3, <2>1, <2>2, <2>3, <2>4
<1>5. within[Far(t, d)][<<Me, d>>] <= paths[t][d].cost
  <2>1. within[Far(t, u)][<<Me, u>>] <= paths[t][u].cost
    BY DEF OverPath
  <2> QED BY <1>1, <1>3, <1>4, <2>1
<1>6. CASE u = Me
  <2>1. h = d /\ within[Far(t, d)][<<d, d>>] = 0
    BY <1>2, <1>6, WithinShrinks DEF LastLink
  <2>2. paths[t][Me].cost = 0
    BY DEF Settled
  <2> QED BY <1>1, <1>3, <1>5, <1>6, <2>1, <2>2
<1>7. CASE u # Me
  <2>1. h \in paths[t][u].hops
    BY <1>7 DEF LastLink
  <2>2. h \in Router \ {Me} /\ LinkCost(t, Me, h) + within[Far(t, u)][<<h, u>>] <= paths[t][u].cost
    BY <1>7, <2>1 DEF OverPath
  <2>3. LinkCost(t, Me, h) \in Nat
    BY <1>3, LinkCostIs
  <2> QED BY <1>1, <1>3, <1>4, <1>5, <2>2, <2>3
<1> QED BY <1>6, <1>7

LEMMA EntriesArePaths ==
  ASSUME TypeOK, NEW t \in Topology, Settled(t), NEW within, Within(t, within)
  PROVE  \A d \in Router : paths[t][d].hops # {} => OverPath(t, within, d)
<1> DEFINE Wrong == {d \in Router : paths[t][d].hops # {} /\ ~OverPath(t, within, d)}
           S == {Far(t, d) : d \in Wrong}
<1> SUFFICES ASSUME Wrong # {} PROVE FALSE
  OBVIOUS
<1>1. S \subseteq Nat /\ S # {}
  BY FarIs
<1>2. PICK n \in S : \A m \in S : n <= m
  <2> HIDE DEF S
  <2> QED BY <1>1, SmallestOf
<1>3. PICK d \in Wrong : \A e \in Wrong : Far(t, d) <= Far(t, e)
  BY <1>2
<1>4. Far(t, d) \in 0..Cardinality(Router) /\ Me \in Router /\ Far(t, d) \in Nat
  BY FarIs, NumberOfRouters, RoutesAssumption
<1>5. CASE d = Me
  <2>1. within[Far(t, d)][<<Me, Me>>] = 0 /\ paths[t][Me].cost = 0
    BY <1>4, WithinShrinks DEF Settled
  <2> QED BY <1>5, <2>1 DEF OverPath
<1>6. CASE d # Me
  <2>1. ASSUME NEW h \in paths[t][d].hops
        PROVE  \E u \in Router : LastLink(t, u, d, paths[t][d].cost, h) /\ OverPath(t, within, u)
    <3>1. PICK u \in Router : LastLink(t, u, d, paths[t][d].cost, h)
      BY <1>6 DEF Settled
    <3>2. paths[t][u].hops # {} /\ Far(t, u) + 1 <= Far(t, d) /\ Far(t, u) \in Nat
      BY <3>1, LastLinkIsNearer, FarIs
    <3>3. u \notin Wrong
      <4> HIDE DEF Wrong
      <4> QED BY <1>3, <1>4, <3>2
    <3> QED BY <3>1, <3>2, <3>3
  <2>2. OverPath(t, within, d)
    BY <1>6, <2>1, StepOnPath DEF OverPath
  <2> QED BY <2>2
<1> QED BY <1>5, <1>6

(* So the costs are the distances.                                         *)
LEMMA CostsAreDistances ==
  ASSUME TypeOK, NEW t \in Topology, Settled(t), NEW d \in Router
  PROVE  Distances(t)[<<Me, d>>] = paths[t][d].cost
<1> DEFINE N == Cardinality(Router)
<1>1. PICK within : Within(t, within)
  BY WithinExists
<1>2. N \in Nat /\ N \in 0..N /\ Me \in Router /\ <<Me, d>> \in Pairs
  BY NumberOfRouters, RoutesAssumption DEF Pairs
<1>3. Distances(t) = within[N] /\ within[N][<<Me, d>>] \in Nat
  BY <1>1, <1>2 DEF Within
<1>4. paths[t][d].cost <= within[N][<<Me, d>>]
  <2>1. paths[t][d].cost <= paths[t][Me].cost + within[N][<<Me, d>>]
    BY <1>1, <1>2, PathsAreNoShorter
  <2> QED BY <1>3, <2>1 DEF Settled
<1>5. within[N][<<Me, d>>] <= paths[t][d].cost
  <2>1. CASE paths[t][d].hops # {}
    <3>1. within[Far(t, d)][<<Me, d>>] <= paths[t][d].cost
      BY <1>1, <2>1, EntriesArePaths DEF OverPath
    <3>2. Far(t, d) \in 0..N
      BY FarIs, <1>2
    <3>3. within[N][<<Me, d>>] <= within[Far(t, d)][<<Me, d>>]
      BY <1>1, <1>2, <3>2, WithinShrinks
    <3>4. within[Far(t, d)][<<Me, d>>] \in Nat
      BY <1>1, <1>2, <3>2 DEF Within
    <3> QED BY <1>3, <3>1, <3>3, <3>4, EntryTypes
  <2>2. CASE paths[t][d].hops = {}
    <3>1. paths[t][d].cost = Infinity
      BY <2>2 DEF Settled, Infinity
    <3>2. N # 0
      BY <1>2, RoutesAssumption, FS_EmptySet
    <3>3. N - 1 \in Nat /\ N = (N - 1) + 1
      BY <1>2, <3>2
    <3>4. within[(N - 1) + 1][<<Me, d>>] <= Infinity
      BY <1>1, <1>2, <3>3, WithinSteps
    <3> QED BY <3>1, <3>3, <3>4
  <2> QED BY <2>1, <2>2
<1> QED BY <1>3, <1>4, <1>5, EntryTypes

(* A next hop in the table begins a shortest path.                         *)
LEMMA HopsAreFirst ==
  ASSUME TypeOK, NEW t \in Topology, Settled(t), NEW d \in Router \ {Me}
  PROVE  paths[t][d].hops \subseteq FirstHops(t, Distances(t), d)
<1> DEFINE N == Cardinality(Router)
<1>1. PICK within : Within(t, within)
  BY WithinExists
<1> SUFFICES ASSUME NEW h \in paths[t][d].hops
             PROVE  h \in Router \ {Me} /\ LinkCost(t, Me, h) + within[N][<<h, d>>]
                                              = Distances(t)[<<Me, d>>]
  BY <1>1 DEF FirstHops, Within
<1>2. /\ h \in Router \ {Me}
      /\ LinkCost(t, Me, h) + within[Far(t, d)][<<h, d>>] <= paths[t][d].cost
  BY <1>1, EntriesArePaths DEF OverPath
<1>3. /\ N \in Nat /\ N \in 0..N /\ Far(t, d) \in 0..N /\ Me \in Router /\ <<h, d>> \in Pairs
  BY <1>2, NumberOfRouters, FarIs, RoutesAssumption DEF Pairs
<1>4. within[N][<<h, d>>] \in Nat /\ within[Far(t, d)][<<h, d>>] \in Nat
  BY <1>1, <1>3 DEF Within
<1>5. within[N][<<h, d>>] <= within[Far(t, d)][<<h, d>>]
  BY <1>1, <1>2, <1>3, WithinShrinks
<1>6. paths[t][d].cost <= paths[t][h].cost + within[N][<<h, d>>]
  BY <1>1, <1>2, <1>3, PathsAreNoShorter
<1>7. /\ paths[t][h].cost <= LinkCost(t, Me, h)
      /\ paths[t][h].cost \in Nat /\ LinkCost(t, Me, h) \in Nat /\ paths[t][d].cost \in Nat
  <2>1. paths[t][h].cost <= paths[t][Me].cost + LinkCost(t, Me, h)
    BY <1>2, <1>3, LinksAreNoShorter
  <2>2. paths[t][h].cost \in Nat /\ LinkCost(t, Me, h) \in Nat /\ paths[t][d].cost \in Nat
    BY <1>2, <1>3, EntryTypes, LinkCostIs
  <2> QED BY <2>1, <2>2 DEF Settled
<1>8. LinkCost(t, Me, h) + within[N][<<h, d>>] = paths[t][d].cost
  BY <1>2, <1>4, <1>5, <1>6, <1>7
<1> QED BY <1>2, <1>8, CostsAreDistances

(* A router on the shortest path behind a next hop has it, too.            *)
LEMMA HopSpreads ==
  ASSUME TypeOK, NEW t \in Topology, Settled(t), NEW h \in Router \ {Me},
         NEW u \in Router, NEW v \in Router, paths[t][v].cost <= MaxCost,
         paths[t][v].cost = paths[t][u].cost + LinkCost(t, u, v),
         u # v => h \in NextHops(t, u, v),
         u = v \/ paths[t][u].hops # {}, u = v => h \in paths[t][v].hops
  PROVE  h \in paths[t][v].hops
<1>1. CASE u # v
  <2>1. paths[t][u].cost \in Nat /\ paths[t][v].cost \in Nat /\ MaxCost \in Nat
    BY EntryTypes, RoutesAssumption
  <2>2. Usable(u) /\ v \in db[u].up
    BY <1>1, <2>1 DEF LinkCost, Infinity
  <2>3. paths[t][v].cost = Over(t, u, v)
    BY <1>1, <2>2 DEF LinkCost, Over
  <2> QED BY <1>1, <2>2, <2>3 DEF Settled
<1> QED BY <1>1

LEMMA FirstAreHops ==
  ASSUME TypeOK, NEW t \in Topology, Settled(t), NEW within, Within(t, within),
         NEW h \in Router \ {Me}
  PROVE  \A k \in 0..Cardinality(Router) : \A d \in Router :
           /\ LinkCost(t, Me, h) + within[k][<<h, d>>] = paths[t][d].cost
           /\ paths[t][d].cost <= MaxCost
           => h \in paths[t][d].hops
<1> DEFINE N == Cardinality(Router)
           S == {k \in Nat : k <= N => \A d \in Router :
                   /\ LinkCost(t, Me, h) + within[k][<<h, d>>] = paths[t][d].cost
                   /\ paths[t][d].cost <= MaxCost
                   => h \in paths[t][d].hops}
<1>1. /\ N \in Nat /\ MaxCost \in Nat /\ Me \in Router /\ LinkCost(t, Me, h) \in Nat
      /\ \A d \in Router : paths[t][d].cost \in Nat
  BY NumberOfRouters, RoutesAssumption, LinkCostIs, EntryTypes
<1>2. /\ paths[t][Me].cost = 0 /\ paths[t][Me].hops = {Me}
      /\ paths[t][h].cost <= LinkCost(t, Me, h)
  <2>1. paths[t][h].cost <= paths[t][Me].cost + LinkCost(t, Me, h)
    BY <1>1, LinksAreNoShorter
  <2> QED BY <1>1, <2>1 DEF Settled
<1>3. 0 \in S
  <2> SUFFICES ASSUME NEW d \in Router,
                      LinkCost(t, Me, h) + within[0][<<h, d>>] = paths[t][d].cost,
                      paths[t][d].cost <= MaxCost
               PROVE  h \in paths[t][d].hops
    OBVIOUS
  <2>1. within[0][<<h, d>>] = IF h = d THEN 0 ELSE MaxCost + 1
    <3>1. <<h, d>> \in Pairs
      BY DEF Pairs
    <3> QED BY <3>1 DEF Within, Infinity
  <2>2. d = h /\ paths[t][h].cost = paths[t][Me].cost + LinkCost(t, Me, h)
    BY <1>1, <1>2, <2>1
  <2>3. h \in NextHops(t, Me, h)
    BY DEF NextHops
  <2> QED BY <1>1, <1>2, <2>2, <2>3, HopSpreads
<1>4. ASSUME NEW k \in Nat, k \in S PROVE k + 1 \in S
  <2> SUFFICES ASSUME k + 1 <= N, NEW d \in Router,
                      LinkCost(t, Me, h) + within[k + 1][<<h, d>>] = paths[t][d].cost,
                      paths[t][d].cost <= MaxCost
               PROVE  h \in paths[t][d].hops
    OBVIOUS
  <2>1. within[k + 1][<<h, d>>] # Infinity /\ within[k + 1][<<h, d>>] \in Nat
    <3>1. within[k + 1][<<h, d>>] \in Nat
      BY WithinSteps
    <3> QED BY <1>1, <3>1 DEF Infinity
  <2>2. PICK u \in Router : within[k + 1][<<h, d>>] = within[k][<<h, u>>] + LinkCost(t, u, d)
    BY <2>1, WithinSteps
  <2>3. within[k][<<h, u>>] \in Nat /\ LinkCost(t, u, d) \in Nat
    BY WithinSteps, LinkCostIs
  <2>4. paths[t][u].cost <= paths[t][h].cost + within[k][<<h, u>>]
    <3>1. k \in 0..N
      BY <1>1
    <3> QED BY <3>1, PathsAreNoShorter
  <2>5. paths[t][d].cost <= paths[t][u].cost + LinkCost(t, u, d)
    BY LinksAreNoShorter
  <2>6. /\ paths[t][u].cost = LinkCost(t, Me, h) + within[k][<<h, u>>]
        /\ paths[t][d].cost = paths[t][u].cost + LinkCost(t, u, d)
        /\ paths[t][u].cost <= MaxCost
    BY <1>1, <1>2, <2>2, <2>3, <2>4, <2>5
  <2>7. h \in paths[t][u].hops
    BY <1>1, <1>4, <2>6
  <2>8. u # Me
    BY <1>2, <2>7
  <2>9. h \in NextHops(t, u, d)
    BY <2>7, <2>8 DEF NextHops
  <2> QED BY <2>6, <2>7, <2>9, HopSpreads
<1>5. \A k \in Nat : k \in S
  <2> HIDE DEF S
  <2> QED BY <1>3, <1>4, NaturalsIn
<1> QED BY <1>1, <1>5

(* Costs and next hops of a settled table are those of the reference.      *)
LEMMA SettledIsShortest ==
  ASSUME TypeOK, NEW t \in Topology, Settled(t), NEW d \in Router
  PROVE  LET dist == Distances(t) IN
         IF d = Me THEN paths[t][d] = [cost |-> 0, hops |-> {Me}]
         ELSE IF dist[<<Me, d>>] > MaxCost THEN paths[t][d].hops = {}
         ELSE /\ paths[t][d].cost = dist[<<Me, d>>]
              /\ paths[t][d].hops = FirstHops(t, dist, d)
<1>1. Distances(t)[<<Me, d>>] = paths[t][d].cost /\ paths[t][d].cost \in Nat /\ MaxCost \in Nat
  BY CostsAreDistances, EntryTypes, RoutesAssumption
<1>2. CASE d = Me
  <2>1. paths[t][d] \in Entry
    BY EntryTypes
  <2> QED BY <1>2, <2>1 DEF Settled, Entry
<1>3. CASE d # Me /\ Distances(t)[<<Me, d>>] > MaxCost
  <2>1. paths[t][d].hops = {}
    BY <1>1, <1>3 DEF Settled
  <2> QED BY <1>3, <2>1
<1>4. CASE d # Me /\ ~(Distances(t)[<<Me, d>>] > MaxCost)
  <2>1. paths[t][d].hops \subseteq FirstHops(t, Distances(t), d)
    BY <1>4, HopsAreFirst
  <2>2. PICK within : Within(t, within)
    BY WithinExists
  <2>3. Distances(t) = within[Cardinality(Router)]
        /\ Cardinality(Router) \in 0..Cardinality(Router)
    BY <2>2, NumberOfRouters DEF Within
  <2>4. paths[t][d].cost <= MaxCost
    BY <1>1, <1>4
  <2>5. FirstHops(t, Distances(t), d) \subseteq paths[t][d].hops
    BY <1>1, <2>2, <2>3, <2>4, FirstAreHops DEF FirstHops
  <2>6. paths[t][d].hops = FirstHops(t, Distances(t), d)
    BY <2>1, <2>5, Zenon
  <2> QED BY <1>1, <1>4, <2>6, Zenon
<1> QED BY <1>2, <1>3, <1>4, Zenon

-----------------------------------------------------------------------------
(* The table when there is nothing left to pop.                            *)

(* Links that are up cost something: the database does not change.         *)
Positive ==
  \A n \in Router : Usable(n) =>
    \A v \in db[n].up, t \in Topology : db[n].metric[t][v] > 0

(* No path in the table costs more than LS_MAX_COST.                       *)
WithinLimit ==
  \A t \in Topology, d \in Router :
    /\ paths[t][d].hops # {} => paths[t][d].cost <= MaxCost
    /\ tent[t][d].cost <= MaxCost + 1

(* A path to v over next hop h at the given cost.                          *)
Has(e, cost, h) == e.cost = cost /\ h \in e.hops

(* LinksFollowed, strengthened: every next hop of a router whose links     *)
(* have been looked at is one of each router behind it on a shortest path, *)
(* in the table or tentatively.                                            *)
HopsFollowed ==
  \A t \in 0..mt, u \in Router :
    /\ paths[t][u].hops # {} /\ Usable(u)
    /\ ~(pc = "expand" /\ u = node /\ t = mt)
    => \A v \in db[u].up : Over(t, u, v) <= MaxCost =>
         \/ paths[t][v].cost < Over(t, u, v)
         \/ tent[t][v].cost < Over(t, u, v)
         \/ \A h \in NextHops(t, u, v) :
              Has(paths[t][v], Over(t, u, v), h) \/ Has(tent[t][v], Over(t, u, v), h)

(* Why the loops have ended.                                               *)
Stopped ==
  /\ pc = "aborted" => Shortest(mt) = {} /\ ~TentativeEmpty
  /\ pc = "done" /\ Usable(Me) => TentativeEmpty /\ mt = NumMtIds

LEMMA PositiveHolds == PositiveMetrics /\ Spec => []Positive
<1>1. PositiveMetrics /\ Init => Positive
  BY DEF PositiveMetrics, Init, Positive, Usable
<1>2. Positive /\ [Next]_vars => Positive'
  BY DEF Positive, Usable, Next, Expand, Pop, PopFails, NextTopology, Finish, vars
<1> QED BY <1>1, <1>2, PTL DEF Spec

(* At a positive cost there is no shorter way back to the router itself.   *)
LEMMA MeHolds == PositiveMetrics /\ Spec => []MeStays
<1>1. Init => MeStays
  <2> SUFFICES ASSUME Init PROVE MeStays
    OBVIOUS
  <2>1. /\ tent = [t \in Topology |-> [d \in Router |-> NoPath]]
        /\ paths = [t \in Topology |->
             [d \in Router |-> IF d = Me THEN [cost |-> 0, hops |-> {Me}] ELSE NoPath]]
    BY DEF Init, NoPaths
  <2> QED BY <2>1, NoPathType, RoutesAssumption DEF MeStays
<1>2. Core /\ Positive /\ MeStays /\ [Next]_vars => MeStays'
  <2> SUFFICES ASSUME Core, Positive, MeStays, [Next]_vars PROVE MeStays'
    OBVIOUS
  <2>1. CASE Expand
    <3>1. TypeOK /\ NodeIsLast /\ UNCHANGED paths /\ Me \in Router
          /\ mt \in Topology /\ node \in Router /\ Usable(node)
      BY <2>1, RoutesAssumption DEF Core, Expand, TypeOK, NodeIsLast
    <3>2. Me \notin Considered
      <4> SUFFICES ASSUME Me \in db[node].up, paths[mt][Me].cost >= PathCost(Me) PROVE FALSE
        BY DEF Considered
      <4>1. paths[mt][node].cost \in Nat /\ db[node].metric[mt][Me] \in Nat
        BY <3>1, EntryTypes, UsableType
      <4>2. db[node].metric[mt][Me] > 0 /\ paths[mt][Me].cost = 0
        BY <3>1 DEF Positive, MeStays
      <4> QED BY <4>1, <4>2 DEF PathCost
    <3>3. \A t \in Topology : tent'[t][Me] = tent[t][Me]
      BY <2>1, <3>1, <3>2, ExpandFacts
    <3> QED BY <3>1, <3>3 DEF MeStays
  <2>2. CASE Pop
    <3>1. TypeOK /\ mt \in Topology /\ Me \in Router
      BY RoutesAssumption DEF Core, TypeOK
    <3>2. PICK d, h \in Router : PopFacts(d, h)
      BY <2>2, <3>1, PopDoes
    <3>3. d # Me
      BY <3>1, <3>2 DEF MeStays, PopFacts
    <3>4. \A t \in Topology : paths'[t][Me] = paths[t][Me] /\ tent'[t][Me] = tent[t][Me]
      BY <3>1, <3>2, <3>3 DEF PopFacts
    <3> QED BY <3>4 DEF MeStays
  <2>3. CASE UNCHANGED <<paths, tent>>
    BY <2>3 DEF MeStays
  <2> QED BY <2>1, <2>2, <2>3 DEF Next, PopFails, NextTopology, Finish, vars
<1> QED BY <1>1, <1>2, CoreHolds, PositiveHolds, PTL DEF Spec

LEMMA LimitHolds == Spec => []WithinLimit
<1>1. Init => WithinLimit
  <2> SUFFICES ASSUME Init PROVE WithinLimit
    OBVIOUS
  <2>1. /\ tent = [t \in Topology |-> [d \in Router |-> NoPath]]
        /\ paths = [t \in Topology |->
             [d \in Router |-> IF d = Me THEN [cost |-> 0, hops |-> {Me}] ELSE NoPath]]
    BY DEF Init, NoPaths
  <2>2. \A t \in Topology, d \in Router :
          /\ tent[t][d].cost = MaxCost + 1
          /\ paths[t][d].cost = 0 \/ paths[t][d].hops = {}
    BY <2>1, NoPathType
  <2> QED BY <2>2, RoutesAssumption DEF WithinLimit
<1>2. Core /\ Bounded /\ WithinLimit /\ [Next]_vars => WithinLimit'
  <2> SUFFICES ASSUME Core, Bounded, WithinLimit, [Next]_vars PROVE WithinLimit'
    OBVIOUS
  <2>1. CASE Expand
    <3>1. TypeOK /\ NodeIsLast /\ UNCHANGED paths /\ mt \in Topology
      BY <2>1 DEF Core, Expand, TypeOK
    <3> SUFFICES ASSUME NEW t \in Topology, NEW d \in Router
                 PROVE  tent'[t][d].cost <= MaxCost + 1
      BY <3>1 DEF WithinLimit
    <3>2. CASE tent'[t][d] = tent[t][d]
      BY <3>2 DEF WithinLimit
    <3>3. CASE t = mt /\ d \in Considered
      <4>1. PICK hops \in SUBSET Router :
              hops # {} /\ tent'[mt][d] = Insert(tent[mt][d], PathCost(d), hops)
        BY <2>1, <3>1, <3>3, ExpandFacts
      <4>2. /\ PathCost(d) \in Nat /\ tent[mt][d] \in Entry
            /\ PathCost(d) <= paths[mt][d].cost
        BY <2>1, <3>1, <3>3, ExpandFacts, EntryTypes DEF Considered
      <4>3. paths[mt][d].cost <= MaxCost + 1 /\ paths[mt][d].cost \in Nat
            /\ tent[mt][d].cost <= MaxCost + 1
        BY <3>1, EntryTypes DEF Bounded, WithinLimit
      <4> QED BY <3>3, <4>1, <4>2, <4>3, InsertCases, RoutesAssumption
    <3> QED BY <2>1, <3>1, <3>2, <3>3, ExpandFacts
  <2>2. CASE Pop
    <3>1. TypeOK /\ mt \in Topology
      BY DEF Core, TypeOK
    <3>2. PICK d, h \in Router : PopFacts(d, h)
      BY <2>2, <3>1, PopDoes
    <3>3. paths'[mt][d].cost = tent[mt][d].cost
      BY <3>2, PopInstalls
    <3>4. tent[mt][d].cost <= MaxCost
      BY <3>1, <3>2, EntryTypes, RoutesAssumption DEF PopFacts
    <3>5. \A t \in Topology, e \in Router :
            paths'[t][e] = paths[t][e] \/ (t = mt /\ e = d)
      BY <3>2 DEF PopFacts
    <3>6. \A t \in Topology, e \in Router :
            \/ tent'[t][e].cost = tent[t][e].cost
            \/ tent'[t][e] = NoPath
      BY <3>2 DEF PopFacts
    <3> QED BY <3>3, <3>4, <3>5, <3>6, NoPathType, RoutesAssumption DEF WithinLimit
  <2>3. CASE UNCHANGED <<paths, tent>>
    BY <2>3 DEF WithinLimit
  <2> QED BY <2>1, <2>2, <2>3 DEF Next, PopFails, NextTopology, Finish, vars
<1> QED BY <1>1, <1>2, CoreHolds, BoundedHolds, PTL DEF Spec

LEMMA StoppedHolds == Spec => []Stopped
<1>1. Init => Stopped
  BY DEF Init, Stopped
<1>2. Stopped /\ [Next]_vars => Stopped'
  <2> SUFFICES ASSUME Stopped, [Next]_vars PROVE Stopped'
    OBVIOUS
  <2>1. CASE Expand \/ Pop \/ NextTopology
    BY <2>1, LeadsTo DEF Expand, Pop, NextTopology, Stopped
  <2>2. CASE PopFails
    BY <2>2 DEF PopFails, Stopped, Shortest, TentativeEmpty
  <2>3. CASE Finish
    BY <2>3 DEF Finish, Stopped, TentativeEmpty
  <2>4. CASE UNCHANGED vars
    BY <2>4 DEF vars, Stopped, Shortest, TentativeEmpty, Usable
  <2> QED BY <2>1, <2>2, <2>3, <2>4 DEF Next
<1> QED BY <1>1, <1>2, PTL DEF Spec

(* A link of a router in the table, and what both sides of it cost.        *)
LEMMA OverType ==
  ASSUME TypeOK, NEW t \in Topology, NEW u \in Router, Usable(u), NEW v \in db[u].up
  PROVE  /\ v \in Router /\ Over(t, u, v) \in Nat
         /\ paths[t][v].cost \in Nat /\ tent[t][v].cost \in Nat /\ tent[t][v] \in Entry
<1>1. v \in Router /\ db[u].metric[t][v] \in Nat
  BY UsableType
<1> QED BY <1>1, EntryTypes DEF Over

LEMMA HopsInit == Init => HopsFollowed
<1> SUFFICES ASSUME Init PROVE HopsFollowed
  OBVIOUS
<1>1. /\ mt = 0 /\ node = Me
      /\ pc = IF Usable(Me) THEN "expand" ELSE "done"
      /\ paths = [t \in Topology |->
           [d \in Router |-> IF d = Me THEN [cost |-> 0, hops |-> {Me}] ELSE NoPath]]
  BY DEF Init
<1>2. \A u \in Router : paths[0][u].hops # {} => u = Me
  BY <1>1, NoPathType, TopologyType
<1>3. \A t \in 0..mt : t = 0
  BY <1>1
<1> QED BY <1>1, <1>2, <1>3 DEF HopsFollowed

LEMMA HopsExpand ==
  ASSUME Core, Bounded, HopsFollowed, Expand
  PROVE  HopsFollowed'
<1>1. TypeOK /\ NodeIsLast /\ mt \in Topology /\ node \in Router /\ pc = "expand"
      /\ UNCHANGED <<db, mt, node, paths>>
  BY DEF Core, TypeOK, Expand
<1>2. 0..mt \subseteq Topology
  BY <1>1, RoutesAssumption DEF Topology
<1> SUFFICES ASSUME NEW t \in 0..mt, NEW u \in Router, paths[t][u].hops # {}, Usable(u),
                    NEW v \in db[u].up, Over(t, u, v) <= MaxCost
             PROVE  \/ paths[t][v].cost < Over(t, u, v)
                    \/ tent'[t][v].cost < Over(t, u, v)
                    \/ \A h \in NextHops(t, u, v) :
                         \/ Has(paths[t][v], Over(t, u, v), h)
                         \/ Has(tent'[t][v], Over(t, u, v), h)
  BY <1>1 DEF HopsFollowed, Usable, Over, NextHops, Has
<1> DEFINE over == Over(t, u, v)
<1>3. /\ v \in Router /\ t \in Topology /\ over \in Nat
      /\ paths[t][v].cost \in Nat /\ tent[t][v].cost \in Nat /\ tent[t][v] \in Entry
  BY <1>1, <1>2, OverType
<1>4. CASE u = node /\ t = mt
  <2>1. PathCost(v) = over /\ (v \notin Considered => paths[t][v].cost < over)
    BY <1>3, <1>4 DEF PathCost, Considered, Over
  <2>2. CASE v \in Considered
    <3>1. PICK hops \in SUBSET Router :
            /\ hops # {} /\ tent'[mt][v] = Insert(tent[mt][v], over, hops)
            /\ hops = NextHops(t, u, v)
      <4>1. tent'[mt][v] = Insert(tent[mt][v], over, NextHops(t, u, v))
        <5>1. /\ tent \in [Topology -> [Router -> Entry]]
              /\ tent' = [tent EXCEPT ![mt] = [e \in Router |->
                   IF e \in Considered
                   THEN Insert(tent[mt][e], PathCost(e),
                               IF node = Me THEN {e} ELSE paths[mt][node].hops)
                   ELSE tent[mt][e]]]
          BY <1>1 DEF TypeOK, Expand
        <5>2. tent'[mt][v] = Insert(tent[mt][v], PathCost(v),
                                    IF node = Me THEN {v} ELSE paths[mt][node].hops)
          BY <1>1, <1>3, <2>2, <5>1
        <5> QED BY <1>4, <2>1, <5>2 DEF NextHops
      <4>2. NextHops(t, u, v) \in SUBSET Router /\ NextHops(t, u, v) # {}
        BY <1>1, <1>3, <1>4, EntryTypes DEF NextHops
      <4> QED BY <4>1, <4>2
    <3>2. \/ tent'[t][v].cost = over /\ hops \subseteq tent'[t][v].hops
          \/ tent'[t][v].cost < over
      BY <1>3, <1>4, <3>1, InsertCases
    <3> QED BY <3>1, <3>2 DEF Has
  <2> QED BY <2>1, <2>2
<1>5. CASE u # node \/ t # mt
  <2>1. \/ paths[t][v].cost < over
        \/ tent[t][v].cost < over
        \/ \A h \in NextHops(t, u, v) : Has(paths[t][v], over, h) \/ Has(tent[t][v], over, h)
    BY <1>1, <1>5 DEF HopsFollowed
  <2>2. CASE tent'[t][v] = tent[t][v]
    BY <2>1, <2>2
  <2>3. CASE t = mt /\ v \in Considered
    <3>1. PICK hops \in SUBSET Router :
            hops # {} /\ tent'[mt][v] = Insert(tent[mt][v], PathCost(v), hops)
      BY <1>1, <2>3, ExpandFacts
    <3>2. PathCost(v) \in Nat /\ PathCost(v) <= paths[mt][v].cost
      BY <1>1, <2>3, ExpandFacts DEF Considered
    <3>3. tent[mt][v].hops = {} => tent[mt][v].cost = MaxCost + 1
      BY <1>3, <2>3 DEF Bounded
    <3>4. \/ /\ tent[mt][v].hops = {} \/ PathCost(v) < tent[mt][v].cost
             /\ tent'[mt][v].cost = PathCost(v)
          \/ /\ tent'[mt][v].cost = tent[mt][v].cost
             /\ tent[mt][v].hops \subseteq tent'[mt][v].hops
      BY <1>3, <2>3, <3>1, <3>2, InsertCases
    <3>5. CASE /\ tent'[mt][v].cost = tent[mt][v].cost
               /\ tent[mt][v].hops \subseteq tent'[mt][v].hops
      BY <2>1, <2>3, <3>5 DEF Has
    <3>6. CASE tent[mt][v].hops = {}
      <4>1. ~(tent[mt][v].cost < over)
        BY <1>3, <2>3, <3>3, <3>6, RoutesAssumption
      <4> QED BY <2>1, <2>3, <3>6, <4>1 DEF Has
    <3>7. CASE PathCost(v) < tent[mt][v].cost /\ tent'[mt][v].cost = PathCost(v)
      <4>1. CASE tent[mt][v].cost <= over
        BY <1>3, <2>3, <3>2, <3>7, <4>1
      <4>2. CASE tent[mt][v].cost > over
        BY <1>3, <2>1, <2>3, <4>2 DEF Has
      <4> QED BY <1>3, <2>3, <4>1, <4>2
    <3> QED BY <3>4, <3>5, <3>6, <3>7
  <2> QED BY <1>1, <1>3, <2>2, <2>3, ExpandFacts
<1> QED BY <1>4, <1>5

(* Of the popped destination the other next hops stay.                     *)
LEMMA PopErases ==
  ASSUME TypeOK, NEW d, NEW q, PopFacts(d, q)
  PROVE  \/ tent'[mt][d] = NoPath /\ tent[mt][d].hops = {q}
         \/ /\ tent'[mt][d].cost = tent[mt][d].cost
            /\ tent'[mt][d].hops = tent[mt][d].hops \ {q}
<1>1. mt \in Topology /\ d \in Router
  BY DEF TypeOK, PopFacts
<1> QED BY <1>1 DEF PopFacts

LEMMA HopsPop ==
  ASSUME Core, Bounded, HopsFollowed, Pop
  PROVE  HopsFollowed'
<1>1. TypeOK /\ OneAtATime /\ mt \in Topology
  BY DEF Core, TypeOK
<1>2. PICK d, q \in Router : PopFacts(d, q)
  BY <1>1, PopDoes
<1>3. /\ UNCHANGED <<db, mt>> /\ node' = d /\ pc = "pop"
      /\ pc' = PopLeadsTo(d)
      /\ \A t \in Topology, e \in Router : t # mt \/ e # d => paths'[t][e] = paths[t][e]
      /\ \A t \in Topology, e \in Router : t # mt \/ e # d =>
            tent'[t][e] = tent[t][e] \/ (e = d /\ tent'[t][e] = NoPath)
  BY <1>2 DEF PopFacts
<1>4. /\ paths'[mt][d].cost = tent[mt][d].cost
      /\ paths[mt][d].hops # {} => paths'[mt][d].cost = paths[mt][d].cost
      /\ paths[mt][d].hops \cup {q} \subseteq paths'[mt][d].hops
  BY <1>2, PopInstalls
<1>5. 0..mt \subseteq Topology
  BY <1>1, RoutesAssumption DEF Topology
<1> SUFFICES ASSUME NEW t \in 0..mt, NEW u \in Router, paths'[t][u].hops # {}, Usable(u),
                    ~(pc' = "expand" /\ u = d /\ t = mt), NEW v \in db[u].up,
                    Over(t, u, v)' <= MaxCost
             PROVE  \/ paths'[t][v].cost < Over(t, u, v)'
                    \/ tent'[t][v].cost < Over(t, u, v)'
                    \/ \A h \in NextHops(t, u, v)' :
                         \/ Has(paths'[t][v], Over(t, u, v)', h)
                         \/ Has(tent'[t][v], Over(t, u, v)', h)
  BY <1>3 DEF HopsFollowed, Usable, Has
<1> DEFINE over == Over(t, u, v)
<1>6. t # mt \/ u # d
  BY <1>3, LeadsTo
<1>7. /\ t \in Topology /\ v \in Router /\ paths'[t][u] = paths[t][u]
      /\ over \in Nat /\ paths[t][v].cost \in Nat /\ tent[t][v].cost \in Nat
  BY <1>1, <1>3, <1>5, <1>6, OverType
<1>8. Over(t, u, v)' = over /\ NextHops(t, u, v)' = NextHops(t, u, v)
  BY <1>3, <1>7 DEF Over, NextHops
<1>9. \/ paths[t][v].cost < over
      \/ tent[t][v].cost < over
      \/ \A h \in NextHops(t, u, v) : Has(paths[t][v], over, h) \/ Has(tent[t][v], over, h)
  BY <1>3, <1>7, <1>8 DEF HopsFollowed
<1>10. CASE t = mt /\ v = d
  <2>1. paths[mt][d].hops = {} => ~(paths[mt][d].cost < over)
    <3>1. paths[mt][d].hops = {} => paths[mt][d].cost = MaxCost + 1
      BY <1>7, <1>10 DEF Bounded
    <3> QED BY <1>7, <1>8, <1>10, <3>1, RoutesAssumption
  <2>2. paths[mt][d].cost < over => paths'[mt][d].cost < over
    BY <1>4, <2>1
  <2>3. ASSUME NEW h, Has(paths[mt][d], over, h) PROVE Has(paths'[mt][d], over, h)
    BY <1>4, <2>3 DEF Has
  <2>4. ASSUME NEW h, Has(tent[mt][d], over, h)
        PROVE  Has(paths'[mt][d], over, h) \/ Has(tent'[mt][d], over, h)
    <3>1. CASE h = q
      BY <1>4, <2>4, <3>1 DEF Has
    <3>2. CASE h # q
      <4>1. \/ tent[mt][d].hops = {q} /\ tent'[mt][d] = NoPath
            \/ /\ tent'[mt][d].cost = tent[mt][d].cost
               /\ tent'[mt][d].hops = tent[mt][d].hops \ {q}
        BY <1>1, <1>2, PopErases
      <4> QED BY <2>4, <3>2, <4>1 DEF Has
    <3> QED BY <3>1, <3>2
  <2> QED BY <1>4, <1>8, <1>9, <1>10, <2>2, <2>3, <2>4
<1>11. CASE t # mt \/ v # d
  <2>1. paths'[t][v] = paths[t][v]
    BY <1>3, <1>7, <1>11
  <2>2. tent'[t][v].cost = tent[t][v].cost /\ tent'[t][v].hops = tent[t][v].hops
    <3>1. CASE tent'[t][v] = tent[t][v]
      BY <3>1
    <3>2. CASE v = d /\ tent'[t][v] = NoPath
      <4>1. tent[t][v].hops = {}
        BY <1>1, <1>7, <1>11, <3>2 DEF OneAtATime
      <4> QED BY <4>1, <3>2, <1>7, NoPathType DEF Bounded
    <3> QED BY <1>3, <1>7, <1>11, <3>1, <3>2
  <2> QED BY <1>8, <1>9, <2>1, <2>2 DEF Has
<1> QED BY <1>10, <1>11

LEMMA HopsHold == Spec => []HopsFollowed
<1>1. Core /\ Bounded /\ HopsFollowed /\ [Next]_vars => HopsFollowed'
  <2> SUFFICES ASSUME Core, Bounded, HopsFollowed, [Next]_vars PROVE HopsFollowed'
    OBVIOUS
  <2>1. CASE NextTopology
    <3>1. /\ mt' = mt + 1 /\ node' = Me /\ pc' = "expand" /\ pc = "pop" /\ mt < NumMtIds
          /\ UNCHANGED <<db, paths, tent>> /\ mt \in Topology /\ OneAtATime
      BY <2>1 DEF NextTopology, Core, TypeOK
    <3>2. /\ mt' \in Topology /\ mt' > mt
          /\ \A t \in 0..mt' : t \in 0..mt \/ t = mt'
      BY <3>1, RoutesAssumption DEF Topology
    <3>3. \A u \in Router : paths[mt'][u].hops # {} => u = Me
      BY <3>1, <3>2 DEF OneAtATime
    <3> QED BY <3>1, <3>2, <3>3 DEF HopsFollowed, Usable, Over, NextHops, Has
  <2>2. CASE PopFails \/ Finish \/ UNCHANGED vars
    <3>1. /\ UNCHANGED <<db, mt, node, paths, tent>>
          /\ pc' = pc \/ pc = "pop"
      BY <2>2 DEF PopFails, Finish, vars
    <3> QED BY <3>1 DEF HopsFollowed, Usable, Over, NextHops, Has
  <2> QED BY <2>1, <2>2, HopsExpand, HopsPop DEF Next
<1> QED BY <1>1, HopsInit, CoreHolds, BoundedHolds, PTL DEF Spec

(* The inductive invariant behind both theorems.                           *)
Invariant ==
  /\ Core /\ Bounded /\ RealPaths /\ Positive /\ MeStays /\ WithinLimit
  /\ HopsFollowed /\ Stopped

LEMMA InvariantHolds == PositiveMetrics /\ Spec => []Invariant
<1>1. /\ Core /\ Bounded /\ RealPaths /\ Positive /\ MeStays /\ WithinLimit
      /\ HopsFollowed /\ Stopped
      => Invariant
  BY DEF Invariant
<1> QED BY <1>1, CoreHolds, BoundedHolds, RealHolds, PositiveHolds, MeHolds, LimitHolds,
           HopsHold, StoppedHolds, PTL

(* With no path left to pop the table of the topology is settled: what     *)
(* tentative paths remain cost more than LS_MAX_COST.                      *)
LEMMA NothingLeftToPop ==
  ASSUME Invariant, NEW t \in 0..mt, pc # "expand",
         \A d \in Router : tent[t][d].hops # {} => tent[t][d].cost >= MaxCost + 1
  PROVE  Settled(t)
<1>1. /\ TypeOK /\ Bounded /\ RealPaths /\ Positive /\ MeStays /\ WithinLimit
      /\ HopsFollowed /\ MaxCost \in Nat /\ mt \in Topology
  BY RoutesAssumption DEF Invariant, Core, TypeOK
<1>2. t \in Topology
  BY <1>1, RoutesAssumption DEF Topology
<1>3. ASSUME NEW d \in Router PROVE tent[t][d].cost = MaxCost + 1
  <2>1. tent[t][d].cost \in Nat /\ tent[t][d].cost <= MaxCost + 1
    BY <1>1, <1>2, EntryTypes DEF WithinLimit
  <2>2. tent[t][d].hops = {} => tent[t][d].cost = MaxCost + 1
    BY <1>1, <1>2 DEF Bounded
  <2> QED BY <1>1, <2>1, <2>2
<1>4. \A d \in Router : IF paths[t][d].hops = {} THEN paths[t][d].cost = MaxCost + 1
                        ELSE paths[t][d].cost <= MaxCost
  BY <1>1, <1>2 DEF Bounded, WithinLimit
<1>5. ASSUME NEW u \in Router, paths[t][u].hops # {}, Usable(u), NEW v \in db[u].up
      PROVE  /\ db[u].metric[t][v] > 0
             /\ Over(t, u, v) <= MaxCost =>
                  /\ paths[t][v].cost <= Over(t, u, v)
                  /\ paths[t][v].cost = Over(t, u, v) =>
                       NextHops(t, u, v) \subseteq paths[t][v].hops
  <2>1. /\ v \in Router /\ Over(t, u, v) \in Nat /\ paths[t][v].cost \in Nat
    BY <1>1, <1>2, <1>5, OverType
  <2>2. db[u].metric[t][v] > 0
    BY <1>1, <1>2, <1>5 DEF Positive
  <2> SUFFICES ASSUME Over(t, u, v) <= MaxCost
               PROVE  /\ paths[t][v].cost <= Over(t, u, v)
                      /\ paths[t][v].cost = Over(t, u, v) =>
                           NextHops(t, u, v) \subseteq paths[t][v].hops
    BY <2>2
  <2>3. \/ paths[t][v].cost < Over(t, u, v)
        \/ tent[t][v].cost < Over(t, u, v)
        \/ \A h \in NextHops(t, u, v) :
             Has(paths[t][v], Over(t, u, v), h) \/ Has(tent[t][v], Over(t, u, v), h)
    BY <1>1, <1>5 DEF HopsFollowed
  <2>4. tent[t][v].cost > Over(t, u, v)
    BY <1>1, <1>3, <2>1
  <2>5. \/ paths[t][v].cost < Over(t, u, v)
        \/ \A h \in NextHops(t, u, v) : Has(paths[t][v], Over(t, u, v), h)
    BY <1>3, <2>1, <2>3, <2>4, <1>1 DEF Has
  <2>6. NextHops(t, u, v) # {}
    BY <1>5 DEF NextHops
  <2> QED BY <2>1, <2>5, <2>6 DEF Has
<1>6. \A d \in Router \ {Me} : \A h \in paths[t][d].hops :
        \E u \in Router : LastLink(t, u, d, paths[t][d].cost, h)
  BY <1>1, <1>2 DEF RealPaths
<1>7. paths[t][Me].cost = 0 /\ paths[t][Me].hops = {Me}
  BY <1>1, <1>2 DEF MeStays
<1> QED BY <1>4, <1>5, <1>6, <1>7 DEF Settled

(* RoutesAreShortest: what _computeRoutes leaves in the routing table are  *)
(* the distances over the usable links of the database, with the first     *)
(* hops of all shortest paths and no others, in every topology, whatever   *)
(* the order in which equally short paths were popped.                     *)
THEOREM ShortestRoutes == PositiveMetrics /\ Spec => []RoutesAreShortest
<1>1. Invariant => RoutesAreShortest
  <2> SUFFICES ASSUME Invariant, pc = "done", Usable(Me),
                      NEW t \in Topology, NEW d \in Router
               PROVE  LET dist == Distances(t) IN
                      IF d = Me THEN paths[t][d] = [cost |-> 0, hops |-> {Me}]
                      ELSE IF dist[<<Me, d>>] > MaxCost THEN paths[t][d].hops = {}
                      ELSE /\ paths[t][d].cost = dist[<<Me, d>>]
                           /\ paths[t][d].hops = FirstHops(t, dist, d)
    BY DEF RoutesAreShortest
  <2>1. TypeOK /\ TentativeEmpty /\ mt = NumMtIds
    BY DEF Invariant, Core, Stopped
  <2>2. Settled(t)
    BY <2>1, NothingLeftToPop DEF TentativeEmpty, Topology
  <2> QED BY <2>1, <2>2, SettledIsShortest, Zenon
<1> QED BY <1>1, InvariantHolds, PTL

(* AbortsAtLimit: popShortestPath fails only with a tentative path of      *)
(* LS_MAX_COST + 1 left, over a last link from a router that is reached.   *)
THEOREM AbortsOnlyAtLimit == PositiveMetrics /\ Spec => []AbortsAtLimit
<1>1. Invariant => AbortsAtLimit
  <2> SUFFICES ASSUME Invariant, pc = "aborted"
               PROVE  \E u, d \in Router :
                        /\ u # d /\ Usable(u) /\ d \in db[u].up
                        /\ Distances(mt)[<<Me, d>>] = MaxCost + 1
                        /\ Distances(mt)[<<Me, u>>] + db[u].metric[mt][d] = MaxCost + 1
    BY DEF AbortsAtLimit
  <2>1. /\ TypeOK /\ OneAtATime /\ InOrder /\ Bounded /\ RealPaths /\ Positive /\ WithinLimit
        /\ MaxCost \in Nat /\ mt \in Topology /\ mt \in 0..mt
        /\ Shortest(mt) = {} /\ ~TentativeEmpty
    BY RoutesAssumption DEF Invariant, Core, Stopped, TypeOK, Topology
  <2>2. \A d \in Router : /\ tent[mt][d].cost \in Nat /\ paths[mt][d].cost \in Nat
                          /\ tent[mt][d].cost <= MaxCost + 1
    BY <2>1, EntryTypes DEF WithinLimit
  <2>3. \A d \in Router : tent[mt][d].hops # {} => tent[mt][d].cost = MaxCost + 1
    <3> DEFINE S == {tent[mt][d].cost : d \in {e \in Router : tent[mt][e].hops # {}}}
    <3> SUFFICES ASSUME NEW e \in Router, tent[mt][e].hops # {}, tent[mt][e].cost # MaxCost + 1
                 PROVE  FALSE
      OBVIOUS
    <3>1. S \subseteq Nat /\ tent[mt][e].cost \in S
      BY <2>2
    <3>2. PICK n \in S : \A m \in S : n <= m
      <4> HIDE DEF S
      <4> QED BY <3>1, SmallestOf
    <3>3. PICK d \in Router : tent[mt][d].hops # {} /\ tent[mt][d].cost = n
      BY <3>2
    <3>4. \A f \in Router : tent[mt][f].hops # {} => tent[mt][d].cost <= tent[mt][f].cost
      BY <3>2, <3>3
    <3>5. tent[mt][d].cost < MaxCost + 1
      BY <2>1, <2>2, <3>4
    <3> QED BY <2>1, <3>3, <3>4, <3>5 DEF Shortest
  <2>4. Settled(mt)
    BY <2>1, <2>2, <2>3, NothingLeftToPop
  <2>5. PICK d \in Router : \E h : h \in tent[mt][d].hops
    BY <2>1 DEF TentativeEmpty, OneAtATime
  <2>6. PICK h, u \in Router : LastLink(mt, u, d, tent[mt][d].cost, h)
    BY <2>1, <2>5, EntryTypes DEF RealPaths
  <2>7. paths[mt][d].cost = MaxCost + 1
    <3>1. paths[mt][d].hops # {} => paths[mt][d].cost >= tent[mt][d].cost
      BY <2>1, <2>2, <2>5 DEF InOrder
    <3> QED BY <2>1, <2>2, <2>3, <2>5, <3>1 DEF Bounded, WithinLimit
  <2>8. /\ Usable(u) /\ d \in db[u].up
        /\ paths[mt][u].cost + db[u].metric[mt][d] = MaxCost + 1
        /\ db[u].metric[mt][d] > 0 /\ db[u].metric[mt][d] \in Nat
    BY <2>1, <2>3, <2>5, <2>6, UsableType DEF LastLink, Positive
  <2>9. u # d
    BY <2>2, <2>7, <2>8
  <2> QED BY <2>1, <2>4, <2>7, <2>8, <2>9, CostsAreDistances
<1> QED BY <1>1, InvariantHolds, PTL
=============================================================================
