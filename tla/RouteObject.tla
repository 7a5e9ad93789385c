----------------------------- MODULE RouteObject -----------------------------
(* The route object of one node (tcl/rtglib/route-proto.tcl), for one          *)
(* destination: it chooses between the route of the Direct protocol, which     *)
(* knows the links to the neighbours, and that of a link state protocol (LS    *)
(* or OSPF), and installs the links of the best one in the node's classifier   *)
(* (Node add-routes and delete-routes in tcl/lib/ns-node.tcl), where a         *)
(* multipath classifier is put in between once there are several.              *)
(* The link state protocol is known by the routes it offers; LsRouting and     *)
(* OspfRoutes are about how it computes them.  The Tcl handlers are not        *)
(* interrupted, but one of them computes the routes several times: a step is   *)
(* a handler.                                                                  *)
EXTENDS Integers, FiniteSets

CONSTANTS
    Link,           \* the outgoing links of the node
    ToDestination,  \* the links that end at the destination: at most one
    DirectCost,     \* what that link costs
    DirectPref,     \* Agent/rtProto/Direct preference_: 100, 200 in some tests
    Cost,           \* the costs of the paths the link state protocol finds
    AtOnce,         \* LS computes its routes in intf-changed, OSPF only after
                    \* its dead interval
    MaxSlots        \* bound: how often a multipath classifier holds a link

ASSUME Preferences == DirectPref \in 0 .. 254 \ {120}
ASSUME Costs == Cost \subseteq Nat /\ DirectCost \in Nat
ASSUME OneLink == \A k, l \in ToDestination : k = l
ASSUME Links == ToDestination \subseteq Link

VARIABLES
    multiPath, \* Node multiPath_, set before there are nodes
    up,        \* the links that are up
    offer,     \* by protocol: the nextHop_, rtpref_ and metric_ it offers
    route,     \* the rtObject's nextHop_, rtpref_, metric_ and rtVia_
    table,     \* what the classifier forwards to, and the count in routes_
    exited     \* a Tcl error ended the simulation

vars == <<multiPath, up, offer, route, table, exited>>

Direct == "Direct"
Learned == "LinkState"
Nobody == "none"
Protocol == {Direct, Learned}
Preference == 120    \* of Agent/rtProto/LS and Agent/rtProto/OSPF
MaxPref == 255
Unreach == -1

Offers(hops, prefs, costs) == [hops : hops, pref : prefs, metric : costs]

(* Mutant of DirectRoute: the preference and the metric of no route mixed up.  *)
DirectRouteUnreach(links) ==
    [hops |-> ToDestination \cap links,
     pref |-> IF ToDestination \cap links = {} THEN Unreach ELSE DirectPref,
     metric |-> IF ToDestination \cap links = {} THEN MaxPref ELSE DirectCost]

(* Direct has a route while its link is up; it leaves its preference as it is. *)
DirectRoute(links) ==
    [hops |-> ToDestination \cap links,
     pref |-> IF ToDestination = {} THEN MaxPref ELSE DirectPref,
     metric |-> IF ToDestination \cap links = {} THEN Unreach ELSE DirectCost]

Unknown == [hops |-> {}, pref |-> MaxPref, metric |-> Unreach]

(* What install-routes can offer: the first hops of the shortest paths, one    *)
(* of them without multipath routing.  LS has just looked at its interfaces.   *)
Found(links) ==
    {Unknown} \cup
    Offers({h \in SUBSET (IF AtOnce THEN links ELSE Link) :
               h # {} /\ (multiPath \/ Cardinality(h) = 1)}, {Preference}, Cost)

(* add-routes and delete-routes.  The classifier forwards to slots, a bag of   *)
(* links; the count matters until there is a multipath classifier.             *)
Slots(links) == [l \in Link |-> IF l \in links THEN 1 ELSE 0]

AddRoutes(t, links) ==
    IF ~multiPath \/ (t.count <= 0 /\ Cardinality(links) = 1 /\ ~t.multi)
    THEN [multi |-> t.multi, slots |-> Slots(links), count |-> 1]
    ELSE [multi |-> TRUE, count |-> 0,
          slots |-> [l \in Link |->
              Slots(links)[l] + IF t.multi \/ t.count > 0 THEN t.slots[l] ELSE 0]]

(* Mutant of DeleteRoutes: the count is left alone.                            *)
DeleteRoutesUncounted(t, links) ==
    IF t.multi
    THEN [t EXCEPT !.slots = [l \in Link |-> IF l \in links THEN 0 ELSE @[l]]]
    ELSE [multi |-> t.multi, slots |-> Slots({}), count |-> t.count]

DeleteRoutes(t, links) ==
    IF t.multi
    THEN [t EXCEPT !.slots = [l \in Link |-> IF l \in links THEN 0 ELSE @[l]]]
    ELSE [multi |-> t.multi, slots |-> Slots({}), count |-> t.count - 1]

(* rtObject compute-routes, on the routes r and the table t.  With no route    *)
(* left the handler reads an array element named by an empty string, which     *)
(* ends the simulation.                                                        *)
Better(a, b) == a.pref < b.pref \/ (a.pref = b.pref /\ a.metric < b.metric)
Offering(o) == {p \in Protocol : o[p].hops # {}}
Chosen(o) == CHOOSE p \in Offering(o) :
                 \A q \in Offering(o) \ {p} : ~Better(o[q], o[p])

Via(p, o) == [hops |-> o[p].hops, pref |-> o[p].pref, metric |-> o[p].metric,
              via |-> p]

Reinstalled(t, old, new) == AddRoutes(DeleteRoutes(t, old), new)

(* Mutant of SameProtocol: only a new metric changes what is installed.        *)
SameProtocolMetric(s, b) ==
    [s EXCEPT !.route = b,
              !.table = IF b.metric = s.route.metric THEN @
                        ELSE Reinstalled(@, s.route.hops, b.hops)]

SameProtocol(s, b) ==
    [s EXCEPT !.route = b,
              !.table = IF b.hops = s.route.hops THEN @
                        ELSE Reinstalled(@, s.route.hops, b.hops)]

(* What is removed is what the protocol of the old route offers now.           *)
OtherProtocol(s, b, o) ==
    LET old == IF s.route.via = Nobody THEN s.route ELSE Via(s.route.via, o)
    IN IF old.pref # b.pref \/ old.metric # b.metric
       THEN [s EXCEPT !.route = b, !.table = Reinstalled(@, old.hops, b.hops)]
       ELSE [s EXCEPT !.route = old]

Computed(s, o) ==
    IF s.exited THEN s
    ELSE IF Offering(o) = {} THEN [s EXCEPT !.exited = s.route.hops # {}]
    ELSE IF s.route.via = Chosen(o) THEN SameProtocol(s, Via(Chosen(o), o))
    ELSE OtherProtocol(s, Via(Chosen(o), o), o)

Now == [route |-> route, table |-> table, exited |-> exited]
Becomes(s) == route' = s.route /\ table' = s.table /\ exited' = s.exited

(* The node has computed the direct routes; the link state protocol has none.  *)
Start == [Direct |-> DirectRoute(Link),
          LinkState |-> [hops |-> {}, pref |-> Preference, metric |-> Unreach]]

NoRoutes ==
    [route |-> [hops |-> {}, pref |-> MaxPref, metric |-> Unreach, via |-> Nobody],
     table |-> [slots |-> Slots({}), multi |-> FALSE, count |-> 0],
     exited |-> FALSE]

Init ==
    /\ multiPath \in BOOLEAN
    /\ up = Link
    /\ offer = Start
    /\ LET s == Computed(NoRoutes, Start)
       IN route = s.route /\ table = s.table /\ exited = s.exited

(* A link that stays in a multipath classifier when its route is gone is       *)
(* added once more each time that route comes back.                            *)
Bounded == \A l \in Link : table.slots[l] <= MaxSlots

(* The link state protocol has new routes: route-changed.                      *)
RouteChanged ==
    /\ ~exited /\ Bounded
    /\ \E found \in Found(up) :
           /\ offer' = [offer EXCEPT ![Learned] = found]
           /\ Becomes(Computed(Now, offer'))
    /\ UNCHANGED <<multiPath, up>>

(* Mutant of IntfChanged: the routes are not computed once more.               *)
IntfChangedOnce(l) ==
    /\ ~exited /\ Bounded
    /\ up' = IF l \in up THEN up \ {l} ELSE up \cup {l}
    /\ UNCHANGED multiPath
    /\ \E found \in IF AtOnce THEN Found(up') ELSE {offer[Learned]} :
           LET between == [offer EXCEPT ![Learned] = found]
           IN /\ offer' = [between EXCEPT ![Direct] = DirectRoute(up')]
              /\ Becomes(IF AtOnce THEN Computed(Now, between) ELSE Now)

(* intf-changed: the link state protocol is asked first (the order of the      *)
(* array of protocols) and LS has the route object compute at once, while      *)
(* Direct still offers what it did; then Direct, then the routes once more.    *)
IntfChanged(l) ==
    /\ ~exited /\ Bounded
    /\ up' = IF l \in up THEN up \ {l} ELSE up \cup {l}
    /\ UNCHANGED multiPath
    /\ \E found \in IF AtOnce THEN Found(up') ELSE {offer[Learned]} :
           LET between == [offer EXCEPT ![Learned] = found]
           IN /\ offer' = [between EXCEPT ![Direct] = DirectRoute(up')]
              /\ Becomes(Computed(IF AtOnce THEN Computed(Now, between) ELSE Now,
                                  offer'))

Next == RouteChanged \/ \E l \in Link : IntfChanged(l)

Spec == Init /\ [][Next]_vars
-----------------------------------------------------------------------------
TypeOK ==
    /\ multiPath \in BOOLEAN
    /\ up \subseteq Link
    /\ offer \in [Protocol -> Offers(SUBSET Link, Nat, Int)]
    /\ route \in [hops : SUBSET Link, pref : Nat, metric : Int,
                  via : Protocol \cup {Nobody}]
    /\ table \in [slots : [Link -> Nat], multi : BOOLEAN, count : Int]
    /\ exited \in BOOLEAN

(* After every handler the route written down is the best any protocol offers, *)
(* and the classifier forwards to each of its links; without multipath routing *)
(* once, and to nothing else (compute-routes removes what one protocol offers  *)
(* now, not what it installed, and with several computations in one handler    *)
(* the two can differ).                                                        *)
BestIsInstalled ==
    (~exited /\ Offering(offer) # {}) =>
        /\ route = Via(Chosen(offer), offer)
        /\ \A l \in route.hops : table.slots[l] > 0
        /\ ~multiPath => table.slots = Slots(route.hops)

(* Without multipath routing no traffic is sent over a link that is down: both *)
(* protocols have heard of it when the handler ends.  A multipath classifier   *)
(* may keep such a link: a direct one that goes down, up and down again is     *)
(* withdrawn before it is removed.                                             *)
DownLinksAreUnused ==
    ~exited /\ ~multiPath => \A l \in Link : table.slots[l] > 0 => l \in up

(* A multipath classifier is only put in between when a protocol offers        *)
(* several links: add-routes goes by routes_, which delete-routes may leave at *)
(* any number ("may not necessarily be 0"), and never takes the classifier out *)
(* again.                                                                      *)
MultipathForSeveral ==
    [][~table.multi /\ table'.multi => Cardinality(offer'[Learned].hops) > 1]_vars
=============================================================================
