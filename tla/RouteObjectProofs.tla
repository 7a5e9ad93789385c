-------------------------- MODULE RouteObjectProofs --------------------------
(* Proofs about RouteObject for any node: any links, costs and preference of   *)
(* the Direct protocol.                                                        *)
EXTENDS RouteObject, TLAPS, FiniteSetTheorems

OffersOK == [Protocol -> Offers(SUBSET Link, Nat, Int)]
RouteOK == [hops : SUBSET Link, pref : Nat, metric : Int, via : Protocol \cup {Nobody}]
TableOK == [slots : [Link -> Nat], multi : BOOLEAN, count : Int]
StateOK == [route : RouteOK, table : TableOK, exited : BOOLEAN]

(* The two protocols never offer routes of the same preference, and an offer   *)
(* of the maximal preference is an offer of nothing.                           *)
Apart(o) ==
    /\ o[Direct].pref \in {DirectPref, MaxPref}
    /\ o[Learned].pref \in {Preference, MaxPref}
    /\ \A p \in Offering(o) : o[p].pref # MaxPref

(* The classifier holds the route written down, without multipath routing      *)
(* nothing else; that route is the best if there is one.                       *)
Held(s) ==
    ~s.exited => /\ \A l \in s.route.hops : s.table.slots[l] > 0
                 /\ ~multiPath => /\ ~s.table.multi
                                  /\ s.table.slots = Slots(s.route.hops)
                 /\ s.route.via = Nobody => s.route.pref = MaxPref

Best(s, o) ==
    (~s.exited /\ Offering(o) # {}) => s.route = Via(Chosen(o), o)

None(s, o) ==
    (~s.exited /\ Offering(o) = {}) => s.route.hops = {}

-----------------------------------------------------------------------------
(* One of the protocols that offer a route is chosen, as the code's loop does. *)
LEMMA ChosenOffers ==
    ASSUME NEW o \in OffersOK, Offering(o) # {}
    PROVE  Chosen(o) \in Offering(o)
<1> DEFINE First(p) == p \in Offering(o)
                       /\ \A q \in Offering(o) \ {p} : ~Better(o[q], o[p])
<1>1. /\ o[Direct].pref \in Nat /\ o[Direct].metric \in Int
      /\ o[Learned].pref \in Nat /\ o[Learned].metric \in Int
  BY DEF OffersOK, Offers, Protocol
<1>2. ~Better(o[Direct], o[Learned]) \/ ~Better(o[Learned], o[Direct])
  BY <1>1 DEF Better
<1>3. \E p \in Offering(o) : \A q \in Offering(o) \ {p} : ~Better(o[q], o[p])
  <2>1. Offering(o) \subseteq {Direct, Learned}
    BY DEF Offering, Protocol
  <2>2. CASE Direct \notin Offering(o) \/ Learned \notin Offering(o)
    BY <2>1, <2>2
  <2>3. CASE Direct \in Offering(o) /\ Learned \in Offering(o)
    BY <1>2, <2>1, <2>3
  <2>4. QED  BY <2>2, <2>3
<1>4. QED  BY <1>3 DEF Chosen

LEMMA ViaOK ==
    ASSUME NEW o \in OffersOK, NEW p \in Protocol
    PROVE  Via(p, o) \in RouteOK /\ Via(p, o).via = p
BY DEF OffersOK, Offers, Via, RouteOK

Table(slots, multi, count) == [slots |-> slots, multi |-> multi, count |-> count]

LEMMA TableTypes ==
    ASSUME NEW slots \in [Link -> Nat], NEW multi \in BOOLEAN, NEW count \in Int
    PROVE  Table(slots, multi, count) \in TableOK
<1> DEFINE Map == [Link -> Nat]
<1>1. TableOK = [slots : Map, multi : BOOLEAN, count : Int] /\ slots \in Map
  BY DEF TableOK
<1> HIDE DEF Map
<1>2. QED  BY <1>1 DEF Table

LEMMA TableParts ==
    ASSUME NEW t \in TableOK
    PROVE  /\ t = Table(t.slots, t.multi, t.count)
           /\ t.slots \in [Link -> Nat] /\ t.multi \in BOOLEAN /\ t.count \in Int
<1> DEFINE Map == [Link -> Nat]
<1>1. TableOK = [slots : Map, multi : BOOLEAN, count : Int]
  BY DEF TableOK
<1> HIDE DEF Map
<1>2. /\ t = Table(t.slots, t.multi, t.count)
      /\ t.slots \in Map /\ t.multi \in BOOLEAN /\ t.count \in Int
  BY <1>1 DEF Table
<1>3. QED  BY <1>2 DEF Map

LEMMA SlotsOK == \A links \in SUBSET Link : Slots(links) \in [Link -> Nat]
BY DEF Slots

LEMMA DeleteOK ==
    ASSUME NEW t \in TableOK, NEW links \in SUBSET Link
    PROVE  DeleteRoutes(t, links) \in TableOK /\ DeleteRoutes(t, links).multi = t.multi
<1> DEFINE left == [l \in Link |-> IF l \in links THEN 0 ELSE t.slots[l]]
<1>1. /\ t.slots \in [Link -> Nat] /\ t.multi \in BOOLEAN
      /\ t.count \in Int /\ t.count - 1 \in Int
  BY TableParts
<1>2. left \in [Link -> Nat] /\ Slots({}) \in [Link -> Nat]
  BY <1>1, SlotsOK
<1>3. CASE t.multi
  <2>1. DeleteRoutes(t, links) = [t EXCEPT !.slots = left]
    BY <1>3 DEF DeleteRoutes
  <2>2. t = Table(t.slots, t.multi, t.count)
    BY TableParts
  <2> HIDE DEF left
  <2>3. [t EXCEPT !.slots = left] = Table(left, t.multi, t.count)
    BY <2>2 DEF Table
  <2>4. Table(left, t.multi, t.count) \in TableOK
    BY <1>1, <1>2, TableTypes
  <2>5. QED  BY <2>1, <2>3, <2>4 DEF Table
<1>4. CASE ~t.multi
  <2>1. DeleteRoutes(t, links) = Table(Slots({}), t.multi, t.count - 1)
    BY <1>4 DEF DeleteRoutes, Table
  <2>2. Table(Slots({}), t.multi, t.count - 1) \in TableOK
    BY <1>1, <1>2, TableTypes
  <2>3. QED  BY <1>4, <2>1, <2>2 DEF Table
<1>5. QED  BY <1>1, <1>3, <1>4

LEMMA AddOK ==
    ASSUME NEW t \in TableOK, NEW links \in SUBSET Link
    PROVE  /\ AddRoutes(t, links) \in TableOK
           /\ \A l \in links : AddRoutes(t, links).slots[l] > 0
           /\ ~multiPath => /\ AddRoutes(t, links).slots = Slots(links)
                            /\ AddRoutes(t, links).multi = t.multi
<1> DEFINE added == [l \in Link |->
        Slots(links)[l] + IF t.multi \/ t.count > 0 THEN t.slots[l] ELSE 0]
           single == ~multiPath \/ (t.count <= 0 /\ Cardinality(links) = 1 /\ ~t.multi)
<1>1. /\ t.slots \in [Link -> Nat] /\ t.multi \in BOOLEAN
      /\ Slots(links) \in [Link -> Nat]
  BY TableParts, SlotsOK
<1>2. /\ added \in [Link -> Nat]
      /\ \A l \in links : added[l] > 0 /\ Slots(links)[l] > 0
  BY <1>1 DEF Slots
<1>3. CASE single
  <2>1. AddRoutes(t, links) = Table(Slots(links), t.multi, 1)
    BY <1>3 DEF AddRoutes, Table
  <2>2. Table(Slots(links), t.multi, 1) \in TableOK
    BY <1>1, TableTypes
  <2>3. /\ Table(Slots(links), t.multi, 1).slots = Slots(links)
        /\ Table(Slots(links), t.multi, 1).multi = t.multi
    BY DEF Table
  <2>4. QED  BY <1>2, <2>1, <2>2, <2>3
<1>4. CASE ~single
  <2>1. AddRoutes(t, links) = Table(added, TRUE, 0)
    BY <1>4 DEF AddRoutes, Table
  <2> HIDE DEF added
  <2>2. Table(added, TRUE, 0) \in TableOK
    <3>1. TRUE \in BOOLEAN /\ 0 \in Int
      OBVIOUS
    <3>2. QED  BY <1>2, <3>1, TableTypes, Zenon
  <2>3. Table(added, TRUE, 0).slots = added
    BY DEF Table
  <2>4. QED  BY <1>2, <1>4, <2>1, <2>2, <2>3
<1>5. QED  BY <1>3, <1>4

LEMMA ReinstalledOK ==
    ASSUME NEW t \in TableOK, NEW old \in SUBSET Link, NEW new \in SUBSET Link
    PROVE  /\ Reinstalled(t, old, new) \in TableOK
           /\ \A l \in new : Reinstalled(t, old, new).slots[l] > 0
           /\ ~multiPath => Reinstalled(t, old, new).slots = Slots(new)
           /\ (~multiPath /\ ~t.multi) => ~Reinstalled(t, old, new).multi
BY DeleteOK, AddOK DEF Reinstalled

-----------------------------------------------------------------------------
LEMMA ComputedOK ==
    ASSUME NEW s \in StateOK, NEW o \in OffersOK
    PROVE  Computed(s, o) \in StateOK
<1>1. CASE s.exited \/ Offering(o) = {}
  BY <1>1 DEF Computed, StateOK
<1>2. CASE ~s.exited /\ Offering(o) # {}
  <2> DEFINE b == Via(Chosen(o), o)
             old == IF s.route.via = Nobody THEN s.route ELSE Via(s.route.via, o)
  <2>1. Chosen(o) \in Protocol
    BY <1>2, ChosenOffers DEF Offering
  <2>2. b \in RouteOK /\ s.route \in RouteOK /\ s.table \in TableOK
    BY <2>1, ViaOK DEF StateOK
  <2>3. old \in RouteOK
    BY <2>2, ViaOK DEF RouteOK
  <2>4. /\ b.hops \in SUBSET Link /\ s.route.hops \in SUBSET Link
        /\ old.hops \in SUBSET Link
    BY <2>2, <2>3 DEF RouteOK
  <2>5. /\ Reinstalled(s.table, s.route.hops, b.hops) \in TableOK
        /\ Reinstalled(s.table, old.hops, b.hops) \in TableOK
    BY <2>2, <2>4, ReinstalledOK
  <2> HIDE DEF b, old
  <2>6. SameProtocol(s, b) \in StateOK
    BY <2>2, <2>5 DEF SameProtocol, StateOK
  <2>7. OtherProtocol(s, b, o) =
          IF old.pref # b.pref \/ old.metric # b.metric
          THEN [s EXCEPT !.route = b, !.table = Reinstalled(@, old.hops, b.hops)]
          ELSE [s EXCEPT !.route = old]
    BY DEF OtherProtocol, old
  <2>8. OtherProtocol(s, b, o) \in StateOK
    BY <2>2, <2>3, <2>5, <2>7 DEF StateOK
  <2>9. QED  BY <1>2, <2>6, <2>8 DEF Computed, b
<1>3. QED  BY <1>1, <1>2

(* One computation installs the best of the offers it is given, whatever the   *)
(* protocols offered before.                                                   *)
LEMMA ComputedInstalls ==
    ASSUME NEW s \in StateOK, NEW o \in OffersOK, Apart(o), Held(s)
    PROVE  /\ Held(Computed(s, o))
           /\ Best(Computed(s, o), o)
           /\ None(Computed(s, o), o)
<1>1. CASE s.exited
  BY <1>1 DEF Computed, Held, Best, None
<1>2. CASE ~s.exited /\ Offering(o) = {}
  BY <1>2 DEF Computed, Held, Best, None, StateOK
<1>3. CASE ~s.exited /\ Offering(o) # {}
  <2> DEFINE b == Via(Chosen(o), o)
             old == IF s.route.via = Nobody THEN s.route ELSE Via(s.route.via, o)
  <2>1. Chosen(o) \in Offering(o) /\ Chosen(o) \in Protocol
    BY <1>3, ChosenOffers DEF Offering
  <2>2. /\ b \in RouteOK /\ b.via = Chosen(o)
        /\ s.route \in RouteOK /\ s.table \in TableOK
    BY <2>1, ViaOK DEF StateOK
  <2>3. old \in RouteOK
    BY <2>2, ViaOK DEF RouteOK
  <2>4. /\ b.hops \in SUBSET Link /\ s.route.hops \in SUBSET Link
        /\ old.hops \in SUBSET Link
    BY <2>2, <2>3 DEF RouteOK
  <2> DEFINE Holds(t) == /\ \A l \in b.hops : t.slots[l] > 0
                         /\ ~multiPath => ~t.multi /\ t.slots = Slots(b.hops)
  <2>5. /\ Holds(Reinstalled(s.table, s.route.hops, b.hops))
        /\ Holds(Reinstalled(s.table, old.hops, b.hops))
    BY <1>3, <2>2, <2>4, ReinstalledOK, ZenonT(60) DEF Held
  <2>6. b.via # Nobody
    BY <2>1, <2>2 DEF Protocol, Nobody, Direct, Learned
  <2>7. CASE s.route.via = Chosen(o)
    <3> HIDE DEF b
    <3>1. Computed(s, o) = SameProtocol(s, b)
      BY <1>3, <2>7 DEF Computed, b
    <3>2. /\ SameProtocol(s, b).route = b
          /\ SameProtocol(s, b).exited = s.exited
          /\ Holds(SameProtocol(s, b).table)
      BY <1>3, <2>5 DEF SameProtocol, StateOK, Held
    <3>3. QED  BY <1>3, <2>6, <3>1, <3>2 DEF Held, Best, None, b
  <2>8. CASE s.route.via # Chosen(o)
    <3>1. b.pref = o[Chosen(o)].pref /\ b.pref # MaxPref
      BY <2>1 DEF Via, Apart
    <3>2. old.pref # b.pref
      <4>1. CASE s.route.via = Nobody
        BY <1>3, <3>1, <4>1 DEF Held
      <4>2. CASE s.route.via # Nobody
        <5>1. s.route.via \in Protocol /\ old.pref = o[s.route.via].pref
          BY <2>2, <4>2 DEF RouteOK, Via
        <5>2. DirectPref # Preference
          BY Preferences DEF Preference
        <5>3. QED  BY <2>1, <2>8, <3>1, <5>1, <5>2 DEF Apart, Protocol
      <4>3. QED  BY <4>1, <4>2
    <3>3. OtherProtocol(s, b, o) =
            [s EXCEPT !.route = b, !.table = Reinstalled(@, old.hops, b.hops)]
      BY <3>2 DEF OtherProtocol
    <3> HIDE DEF b, old
    <3>4. Computed(s, o) = OtherProtocol(s, b, o)
      BY <1>3, <2>8 DEF Computed, b
    <3>5. /\ OtherProtocol(s, b, o).route = b
          /\ OtherProtocol(s, b, o).exited = s.exited
          /\ Holds(OtherProtocol(s, b, o).table)
      BY <2>5, <3>3 DEF StateOK
    <3>6. QED  BY <1>3, <2>6, <3>4, <3>5 DEF Held, Best, None, b
  <2>9. QED  BY <2>7, <2>8
<1>4. QED  BY <1>1, <1>2, <1>3

-----------------------------------------------------------------------------
LEMMA OffersAreOK ==
    ASSUME NEW links \in SUBSET Link
    PROVE  /\ DirectRoute(links) \in Offers(SUBSET Link, Nat, Int)
           /\ Found(links) \subseteq Offers(SUBSET Link, Nat, Int)
<1>1. DirectRoute(links) \in Offers(SUBSET Link, Nat, Int)
  BY Preferences, Costs, Links DEF DirectRoute, Offers, Unreach, MaxPref
<1>2. Found(links) \subseteq Offers(SUBSET Link, Nat, Int)
  <2>1. Unknown \in Offers(SUBSET Link, Nat, Int)
    BY DEF Unknown, Offers, MaxPref, Unreach
  <2>2. ASSUME NEW hops \in SUBSET SUBSET Link
        PROVE  Offers(hops, {Preference}, Cost) \subseteq Offers(SUBSET Link, Nat, Int)
    <3>1. {Preference} \subseteq Nat /\ Cost \subseteq Int
      BY Costs DEF Preference
    <3>2. QED  BY <3>1 DEF Offers
  <2>3. {h \in SUBSET (IF AtOnce THEN links ELSE Link) :
            h # {} /\ (multiPath \/ Cardinality(h) = 1)} \in SUBSET SUBSET Link
    OBVIOUS
  <2>4. QED  BY <2>1, <2>2, <2>3 DEF Found
<1>3. QED  BY <1>1, <1>2

LEMMA OffersAreApart ==
    ASSUME NEW links \in SUBSET Link, NEW o \in OffersOK,
           NEW before \in SUBSET Link,
           o[Direct] = DirectRoute(links),
           o[Learned] \in Found(before) \cup {Start[Learned]}
    PROVE  Apart(o)
<1>1. /\ o[Direct].pref \in {DirectPref, MaxPref}
      /\ o[Direct].hops # {} => o[Direct].pref = DirectPref
  BY DEF DirectRoute
<1>2. /\ o[Learned].pref \in {Preference, MaxPref}
      /\ o[Learned].hops # {} => o[Learned].pref = Preference
  BY DEF Found, Unknown, Offers, Start, Learned
<1>3. DirectPref # MaxPref /\ Preference # MaxPref
  BY Preferences DEF MaxPref, Preference
<1>4. QED  BY <1>1, <1>2, <1>3 DEF Apart, Offering, Protocol

(* What the offers are between two handlers.                                   *)
Current ==
    /\ offer[Direct] = DirectRoute(up)
    /\ offer[Learned] \in Found(up) \cup {Start[Learned]}

LEMMA StartOK == Start \in OffersOK /\ NoRoutes \in StateOK /\ Held(NoRoutes)
<1>1. Start = [p \in Protocol |-> IF p = Direct THEN Start.Direct ELSE Start.LinkState]
  BY DEF Start, Protocol, Direct, Learned
<1>2. Start \in OffersOK
  <2>1. Start.Direct \in Offers(SUBSET Link, Nat, Int)
    BY OffersAreOK DEF Start
  <2>2. Start.LinkState \in Offers(SUBSET Link, Nat, Int)
    BY DEF Start, Offers, Preference, Unreach
  <2>3. QED  BY <1>1, <2>1, <2>2 DEF OffersOK
<1>3. Slots({}) \in [Link -> Nat]
  BY DEF Slots
<1>4. NoRoutes \in StateOK
  BY <1>3 DEF NoRoutes, StateOK, RouteOK, TableOK, MaxPref, Unreach
<1>5. Held(NoRoutes)
  BY DEF Held, NoRoutes
<1>6. QED  BY <1>2, <1>4, <1>5

-----------------------------------------------------------------------------
(* What a handler gives the route object to compute from.                      *)
LEMMA HandlersOffer ==
    ASSUME TypeOK, Current, UNCHANGED multiPath, NEW l \in Link, NEW found,
           found \in IF AtOnce THEN Found(up') ELSE {offer[Learned]},
           up' = IF l \in up THEN up \ {l} ELSE up \cup {l},
           offer' = [[offer EXCEPT ![Learned] = found]
                            EXCEPT ![Direct] = DirectRoute(up')]
    PROVE  /\ up' \subseteq Link
           /\ [offer EXCEPT ![Learned] = found] \in OffersOK
           /\ Apart([offer EXCEPT ![Learned] = found])
           /\ offer' \in OffersOK /\ Apart(offer') /\ Current'
<1> DEFINE between == [offer EXCEPT ![Learned] = found]
<1>1. up \subseteq Link /\ up' \subseteq Link
  BY DEF TypeOK
<1>2. offer \in OffersOK
  BY DEF TypeOK, OffersOK
<1>3. Direct # Learned /\ Direct \in Protocol /\ Learned \in Protocol
  BY DEF Direct, Learned, Protocol
<1>4. found \in Found(up') \cup {Start[Learned]}
  <2>1. ~AtOnce => Found(up) = Found(up')
    BY DEF Found
  <2>2. QED  BY <2>1 DEF Current
<1>5. found \in Offers(SUBSET Link, Nat, Int)
  BY <1>1, <1>2, <1>3, OffersAreOK DEF OffersOK
<1>6. between \in OffersOK /\ offer' \in OffersOK
  BY <1>1, <1>2, <1>3, <1>5, OffersAreOK DEF OffersOK
<1>7. /\ between[Direct] = DirectRoute(up) /\ between[Learned] = found
      /\ offer'[Direct] = DirectRoute(up') /\ offer'[Learned] = found
  BY <1>2, <1>3 DEF OffersOK, Current
<1>8. Apart(between) /\ Apart(offer')
  BY <1>1, <1>4, <1>6, <1>7, OffersAreApart
<1>9. Current'
  <2>1. Found(up)' = Found(up')
    BY Zenon DEF Found
  <2>2. QED  BY <1>4, <1>7, <1>3, <2>1 DEF Current
<1>10. QED  BY <1>1, <1>6, <1>8, <1>9

LEMMA LearnedOffers ==
    ASSUME TypeOK, Current, UNCHANGED <<multiPath, up>>, NEW found \in Found(up),
           offer' = [offer EXCEPT ![Learned] = found]
    PROVE  offer' \in OffersOK /\ Apart(offer') /\ Current'
<1>1. up \subseteq Link /\ offer \in OffersOK
  BY DEF TypeOK, OffersOK
<1>2. Direct # Learned /\ Direct \in Protocol /\ Learned \in Protocol
  BY DEF Direct, Learned, Protocol
<1>3. offer' \in OffersOK
  BY <1>1, <1>2, OffersAreOK DEF OffersOK
<1>4. offer'[Direct] = DirectRoute(up) /\ offer'[Learned] = found
  BY <1>1, <1>2 DEF OffersOK, Current
<1>5. Apart(offer')
  BY <1>1, <1>3, <1>4, OffersAreApart
<1>6. Current'
  <2>1. Found(up)' = Found(up)
    BY Zenon DEF Found
  <2>2. QED  BY <1>4, <2>1 DEF Current
<1>7. QED  BY <1>3, <1>5, <1>6

LEMMA NowOK == TypeOK => Now \in StateOK
BY DEF TypeOK, Now, StateOK, RouteOK, TableOK

-----------------------------------------------------------------------------
Inv == TypeOK /\ Current

LEMMA InvHolds == Spec => []Inv
<1>1. Init => Inv
  <2> SUFFICES ASSUME Init PROVE Inv
    OBVIOUS
  <2> DEFINE s == Computed(NoRoutes, Start)
  <2>1. s \in StateOK /\ Start \in OffersOK
    BY StartOK, ComputedOK
  <2>2. route = s.route /\ table = s.table /\ exited = s.exited /\ offer = Start
        /\ up = Link /\ multiPath \in BOOLEAN
    BY DEF Init
  <2> HIDE DEF s
  <2>3. TypeOK
    BY <2>1, <2>2 DEF TypeOK, StateOK, RouteOK, TableOK, OffersOK
  <2>4. Current
    BY <2>2 DEF Current, Start, Direct, Learned
  <2>5. QED  BY <2>3, <2>4 DEF Inv
<1>2. Inv /\ [Next]_vars => Inv'
  <2> SUFFICES ASSUME Inv, [Next]_vars PROVE Inv'
    OBVIOUS
  <2>1. Now \in StateOK
    BY NowOK DEF Inv
  <2>2. ASSUME NEW s \in StateOK, Becomes(s), UNCHANGED multiPath,
               offer' \in OffersOK, up' \subseteq Link, Current'
        PROVE  Inv'
    BY <2>2 DEF Inv, TypeOK, Becomes, StateOK, RouteOK, TableOK, OffersOK
  <2>3. CASE RouteChanged
    <3>1. PICK found \in Found(up) : /\ offer' = [offer EXCEPT ![Learned] = found]
                                     /\ Becomes(Computed(Now, offer'))
                                     /\ UNCHANGED <<multiPath, up>>
      BY <2>3 DEF RouteChanged
    <3>2. offer' \in OffersOK /\ Current'
      BY <3>1, LearnedOffers DEF Inv
    <3>3. Computed(Now, offer') \in StateOK
      BY <2>1, <3>2, ComputedOK
    <3>4. QED  BY <2>2, <3>1, <3>2, <3>3 DEF Inv, TypeOK
  <2>4. ASSUME NEW l \in Link, IntfChanged(l)
        PROVE  Inv'
    <3>1. PICK found \in IF AtOnce THEN Found(up') ELSE {offer[Learned]} :
              LET between == [offer EXCEPT ![Learned] = found]
              IN /\ offer' = [between EXCEPT ![Direct] = DirectRoute(up')]
                 /\ Becomes(Computed(IF AtOnce THEN Computed(Now, between) ELSE Now,
                                     offer'))
      BY <2>4 DEF IntfChanged
    <3> DEFINE between == [offer EXCEPT ![Learned] = found]
               first == IF AtOnce THEN Computed(Now, between) ELSE Now
    <3>2. /\ up' \subseteq Link /\ between \in OffersOK
          /\ offer' \in OffersOK /\ Current'
      BY <2>4, <3>1, HandlersOffer DEF Inv, IntfChanged
    <3>3. first \in StateOK
      BY <2>1, <3>2, ComputedOK
    <3>4. Computed(first, offer') \in StateOK
      BY <3>2, <3>3, ComputedOK
    <3>5. UNCHANGED multiPath
      BY <2>4 DEF IntfChanged
    <3>6. QED  BY <2>2, <3>1, <3>2, <3>4, <3>5
  <2>5. CASE UNCHANGED vars
    <3>1. TypeOK'
      BY <2>5 DEF vars, Inv, TypeOK
    <3>2. Found(up)' = Found(up)
      BY <2>5, Zenon DEF vars, Found
    <3>3. QED  BY <2>5, <3>1, <3>2 DEF vars, Inv, Current
  <2>6. QED  BY <2>3, <2>4, <2>5 DEF Next
<1>3. QED  BY <1>1, <1>2, PTL DEF Spec

(* The variables have their types, with multipath routing and without.         *)
THEOREM TypeCorrect == Spec => []TypeOK
<1>1. Inv => TypeOK
  BY DEF Inv
<1>2. QED  BY <1>1, InvHolds, PTL

-----------------------------------------------------------------------------
Installed == Held(Now) /\ Best(Now, offer) /\ None(Now, offer)

LEMMA InstalledHolds == Spec => []Installed
<1>1. Init => Installed
  <2> SUFFICES ASSUME Init PROVE Installed
    OBVIOUS
  <2> DEFINE s == Computed(NoRoutes, Start)
  <2>1. Apart(Start)
    BY StartOK, OffersAreApart DEF Start, Direct, Learned
  <2>2. Held(s) /\ Best(s, Start) /\ None(s, Start)
    BY <2>1, StartOK, ComputedInstalls
  <2>3. route = s.route /\ table = s.table /\ exited = s.exited /\ offer = Start
    BY DEF Init
  <2> HIDE DEF s
  <2>4. QED  BY <2>2, <2>3 DEF Installed, Held, Best, None, Now
<1>2. Inv /\ Installed /\ [Next]_vars => Installed'
  <2> SUFFICES ASSUME Inv, Installed, [Next]_vars PROVE Installed'
    OBVIOUS
  <2>1. Now \in StateOK /\ Held(Now)
    BY NowOK DEF Inv, Installed
  <2>2. ASSUME NEW s, Becomes(s), UNCHANGED multiPath,
               Held(s), Best(s, offer'), None(s, offer')
        PROVE  Installed'
    BY <2>2 DEF Installed, Held, Best, None, Becomes, Now
  <2>3. CASE RouteChanged
    <3>1. PICK found \in Found(up) : /\ offer' = [offer EXCEPT ![Learned] = found]
                                     /\ Becomes(Computed(Now, offer'))
                                     /\ UNCHANGED <<multiPath, up>>
      BY <2>3 DEF RouteChanged
    <3>2. offer' \in OffersOK /\ Apart(offer')
      BY <3>1, LearnedOffers DEF Inv
    <3>3. QED  BY <2>1, <2>2, <3>1, <3>2, ComputedInstalls
  <2>4. ASSUME NEW l \in Link, IntfChanged(l)
        PROVE  Installed'
    <3>1. PICK found \in IF AtOnce THEN Found(up') ELSE {offer[Learned]} :
              LET between == [offer EXCEPT ![Learned] = found]
              IN /\ offer' = [between EXCEPT ![Direct] = DirectRoute(up')]
                 /\ Becomes(Computed(IF AtOnce THEN Computed(Now, between) ELSE Now,
                                     offer'))
      BY <2>4 DEF IntfChanged
    <3> DEFINE between == [offer EXCEPT ![Learned] = found]
               first == IF AtOnce THEN Computed(Now, between) ELSE Now
    <3>2. /\ between \in OffersOK /\ Apart(between)
          /\ offer' \in OffersOK /\ Apart(offer')
      BY <2>4, <3>1, HandlersOffer DEF Inv, IntfChanged
    <3>3. first \in StateOK /\ Held(first)
      BY <2>1, <3>2, ComputedOK, ComputedInstalls
    <3>4. /\ Held(Computed(first, offer')) /\ Best(Computed(first, offer'), offer')
          /\ None(Computed(first, offer'), offer')
      BY <3>2, <3>3, ComputedInstalls
    <3>5. UNCHANGED multiPath
      BY <2>4 DEF IntfChanged
    <3>6. QED  BY <2>2, <3>1, <3>4, <3>5
  <2>5. CASE UNCHANGED vars
    BY <2>5 DEF vars, Installed, Held, Best, None, Now
  <2>6. QED  BY <2>3, <2>4, <2>5 DEF Next
<1>3. QED  BY <1>1, <1>2, InvHolds, PTL DEF Spec

(* The classifier holds the best route any protocol offers at the end of every *)
(* handler: whatever the routes are computed from halfway through one, the     *)
(* computation at its end installs the best of what is offered then.           *)
THEOREM BestRouteInstalled == Spec => []BestIsInstalled
<1>1. Installed => BestIsInstalled
  BY DEF Installed, Held, Best, Now, BestIsInstalled
<1>2. QED  BY <1>1, InstalledHolds, PTL

(* With a protocol that computes at once, LS, a handler never ends with        *)
(* traffic sent over a link that is down.                                      *)
THEOREM NoDownLinks ==
    ASSUME AtOnce
    PROVE  Spec => []DownLinksAreUnused
<1>1. Inv /\ Installed => DownLinksAreUnused
  <2> SUFFICES ASSUME Inv, Installed, ~exited, ~multiPath, NEW l \in Link, table.slots[l] > 0
               PROVE  l \in up
    BY DEF DownLinksAreUnused
  <2>1. l \in route.hops
    BY DEF Installed, Held, Now, Slots
  <2>2. Offering(offer) # {} /\ route = Via(Chosen(offer), offer)
    BY <2>1 DEF Installed, None, Best, Now
  <2>3. Chosen(offer) \in Protocol
    BY <2>2, ChosenOffers DEF Inv, TypeOK, OffersOK, Offering
  <2>4. offer[Direct].hops \subseteq up
    BY DEF Inv, Current, DirectRoute
  <2>5. offer[Learned].hops \subseteq up
    BY DEF Inv, Current, Found, Unknown, Offers, Start, Learned
  <2>6. QED  BY <2>1, <2>2, <2>3, <2>4, <2>5 DEF Via, Protocol
<1>2. QED  BY <1>1, InvHolds, InstalledHolds, PTL

-----------------------------------------------------------------------------
(* A multipath classifier is put in only for several links.  Until there is    *)
(* one, routes_ counts to one at most, and to none after delete-routes, so     *)
(* that add-routes gets along with a single link.                              *)
Counted(t) == t.count \in Int /\ (~t.multi => t.count <= 1)

Several(o) == Cardinality(o[Learned].hops) > 1

LEMMA ReinstalledCounts ==
    ASSUME NEW t \in TableOK, Counted(t), NEW old \in SUBSET Link, NEW new \in SUBSET Link
    PROVE  /\ Counted(Reinstalled(t, old, new))
           /\ ~t.multi /\ Reinstalled(t, old, new).multi => Cardinality(new) # 1
<1> DEFINE d == DeleteRoutes(t, old)
<1>1. d.multi = t.multi /\ d.count \in Int /\ (~t.multi => d.count <= 0)
  <2>1. t = Table(t.slots, t.multi, t.count) /\ t.count \in Int /\ t.multi \in BOOLEAN
    BY TableParts
  <2>2. CASE t.multi
    BY <2>1, <2>2 DEF DeleteRoutes, Table
  <2>3. CASE ~t.multi
    <3>1. d.multi = t.multi /\ d.count = t.count - 1
      BY <2>3 DEF DeleteRoutes
    <3> QED BY <2>1, <2>3, <3>1 DEF Counted
  <2> QED BY <2>2, <2>3
<1>2. Reinstalled(t, old, new) = AddRoutes(d, new)
  BY DEF Reinstalled
<1> HIDE DEF d
<1>3. CASE ~multiPath \/ (d.count <= 0 /\ Cardinality(new) = 1 /\ ~d.multi)
  <2>1. AddRoutes(d, new).multi = d.multi /\ AddRoutes(d, new).count = 1
    BY <1>3 DEF AddRoutes
  <2> QED BY <1>1, <1>2, <2>1 DEF Counted
<1>4. CASE ~(~multiPath \/ (d.count <= 0 /\ Cardinality(new) = 1 /\ ~d.multi))
  <2>1. AddRoutes(d, new).multi = TRUE /\ AddRoutes(d, new).count = 0
    BY <1>4 DEF AddRoutes
  <2> QED BY <1>1, <1>2, <1>4, <2>1 DEF Counted
<1> QED BY <1>3, <1>4

LEMMA ComputedCounts ==
    ASSUME IsFiniteSet(Link), NEW s \in StateOK, NEW o \in OffersOK,
           NEW links, o[Direct] = DirectRoute(links), Counted(s.table)
    PROVE  /\ Counted(Computed(s, o).table)
           /\ ~s.table.multi /\ Computed(s, o).table.multi => Several(o)
<1>1. CASE s.exited \/ Offering(o) = {}
  <2>1. Computed(s, o).table = s.table
    BY <1>1 DEF Computed, StateOK
  <2> QED BY <2>1
<1>2. CASE ~s.exited /\ Offering(o) # {}
  <2> DEFINE b == Via(Chosen(o), o)
             old == IF s.route.via = Nobody THEN s.route ELSE Via(s.route.via, o)
  <2>1. Chosen(o) \in Protocol /\ o[Chosen(o)].hops # {}
    BY <1>2, ChosenOffers DEF Offering
  <2>2. b \in RouteOK /\ s.route \in RouteOK /\ s.table \in TableOK
    BY <2>1, ViaOK DEF StateOK
  <2>3. old \in RouteOK
    BY <2>2, ViaOK DEF RouteOK
  <2>4. /\ b.hops \in SUBSET Link /\ s.route.hops \in SUBSET Link
        /\ old.hops \in SUBSET Link
    BY <2>2, <2>3 DEF RouteOK
  <2>5. Cardinality(b.hops) # 1 => Several(o)
    <3>1. b.hops # {} /\ b.hops = o[Chosen(o)].hops
      BY <2>1 DEF Via
    <3>2. CASE Chosen(o) = Direct
      <4>1. b.hops \subseteq ToDestination
        BY <3>1, <3>2 DEF DirectRoute
      <4>2. PICK l : b.hops = {l}
        BY <3>1, <4>1, OneLink
      <4> QED BY <4>2, FS_Singleton
    <3>3. CASE Chosen(o) = Learned
      <4> DEFINE hops == b.hops
      <4>1. IsFiniteSet(hops)
        BY <2>4, FS_Subset
      <4>2. Cardinality(hops) \in Nat /\ Cardinality(hops) # 0
        <5> HIDE DEF hops
        <5>1. hops # {}
          BY <3>1 DEF hops
        <5> QED BY <4>1, <5>1, FS_CardinalityType, FS_EmptySet
      <4> HIDE DEF hops
      <4>3. Cardinality(hops) # 1 => Cardinality(hops) > 1
        BY <4>2
      <4> QED BY <3>1, <3>3, <4>3 DEF Several, hops
    <3> QED BY <2>1, <3>2, <3>3 DEF Protocol
  <2>6. \A from \in SUBSET Link :
          LET t == Reinstalled(s.table, from, b.hops)
          IN Counted(t) /\ (~s.table.multi /\ t.multi => Several(o))
    BY <2>2, <2>4, <2>5, ReinstalledCounts
  <2> HIDE DEF b, old
  <2>7. \/ Computed(s, o).table = s.table
        \/ Computed(s, o).table = Reinstalled(s.table, s.route.hops, b.hops)
        \/ Computed(s, o).table = Reinstalled(s.table, old.hops, b.hops)
    <3>1. s.table = [s EXCEPT !.route = b].table
      BY DEF StateOK
    <3>2. CASE s.route.via = Chosen(o)
      <4>1. Computed(s, o) = SameProtocol(s, b)
        BY <1>2, <3>2 DEF Computed, b
      <4> QED BY <4>1 DEF SameProtocol, StateOK
    <3>3. CASE s.route.via # Chosen(o)
      <4>1. Computed(s, o) = OtherProtocol(s, b, o)
        BY <1>2, <3>3 DEF Computed, b
      <4>2. OtherProtocol(s, b, o) =
              IF old.pref # b.pref \/ old.metric # b.metric
              THEN [s EXCEPT !.route = b, !.table = Reinstalled(@, old.hops, b.hops)]
              ELSE [s EXCEPT !.route = old]
        BY DEF OtherProtocol, old
      <4> QED BY <4>1, <4>2 DEF StateOK
    <3> QED BY <3>2, <3>3
  <2> QED BY <2>4, <2>6, <2>7
<1> QED BY <1>1, <1>2

LEMMA HandlersCount ==
    ASSUME IsFiniteSet(Link), Inv, Counted(table), [Next]_vars
    PROVE  /\ Counted(table')
           /\ ~table.multi /\ table'.multi => Several(offer')
<1>1. Now \in StateOK /\ Now.table = table
  BY NowOK DEF Inv, Now
<1>2. CASE RouteChanged
  <2>1. PICK found \in Found(up) : /\ offer' = [offer EXCEPT ![Learned] = found]
                                   /\ Becomes(Computed(Now, offer'))
                                   /\ UNCHANGED <<multiPath, up>>
    BY <1>2 DEF RouteChanged
  <2>2. offer' \in OffersOK /\ offer'[Direct] = DirectRoute(up')
    BY <2>1, LearnedOffers DEF Inv, Current
  <2>3. table' = Computed(Now, offer').table
    BY <2>1 DEF Becomes
  <2> QED BY <1>1, <2>2, <2>3, ComputedCounts
<1>3. ASSUME NEW l \in Link, IntfChanged(l)
      PROVE  /\ Counted(table')
             /\ ~table.multi /\ table'.multi => Several(offer')
  <2>1. PICK found \in IF AtOnce THEN Found(up') ELSE {offer[Learned]} :
            LET between == [offer EXCEPT ![Learned] = found]
            IN /\ offer' = [between EXCEPT ![Direct] = DirectRoute(up')]
               /\ Becomes(Computed(IF AtOnce THEN Computed(Now, between) ELSE Now,
                                   offer'))
    BY <1>3 DEF IntfChanged
  <2> DEFINE between == [offer EXCEPT ![Learned] = found]
             first == IF AtOnce THEN Computed(Now, between) ELSE Now
  <2>2. between \in OffersOK /\ offer' \in OffersOK /\ Current'
    BY <1>3, <2>1, HandlersOffer DEF Inv, IntfChanged
  <2>3. /\ between[Direct] = DirectRoute(up) /\ offer'[Direct] = DirectRoute(up')
        /\ between[Learned] = offer'[Learned]
    BY <2>1, <2>2 DEF Inv, Current, TypeOK, Protocol, Direct, Learned, OffersOK
  <2>4. first \in StateOK
    BY <1>1, <2>2, ComputedOK
  <2>5. /\ Counted(first.table)
        /\ ~table.multi /\ first.table.multi => Several(offer')
    <3>1. CASE AtOnce
      <4> HIDE DEF between
      <4>1. first = Computed(Now, between)
        BY <3>1
      <4> HIDE DEF first
      <4>2. /\ Counted(first.table)
            /\ ~table.multi /\ first.table.multi => Several(between)
        BY <1>1, <2>2, <2>3, <4>1, ComputedCounts
      <4> QED BY <2>3, <4>2 DEF Several
    <3>2. CASE ~AtOnce
      BY <1>1, <3>2
    <3> QED BY <3>1, <3>2
  <2>6. table' = Computed(first, offer').table
    BY <2>1 DEF Becomes
  <2> HIDE DEF first, between
  <2>7. /\ Counted(Computed(first, offer').table)
        /\ ~first.table.multi /\ Computed(first, offer').table.multi => Several(offer')
    BY <2>2, <2>3, <2>4, <2>5, ComputedCounts
  <2> QED BY <2>5, <2>6, <2>7
<1>4. CASE UNCHANGED vars
  BY <1>4 DEF vars
<1> QED BY <1>2, <1>3, <1>4 DEF Next

(* MultipathForSeveral, for every node: routes_ may fall below zero, but never *)
(* keeps add-routes from installing a single link without a multipath          *)
(* classifier.                                                                 *)
THEOREM MultipathOnlyForSeveral ==
    ASSUME IsFiniteSet(Link)
    PROVE  Spec => MultipathForSeveral
<1>1. Init => Counted(table)
  <2> SUFFICES ASSUME Init PROVE Counted(table)
    OBVIOUS
  <2>1. Start \in OffersOK /\ NoRoutes \in StateOK
    BY StartOK
  <2>2. Start[Direct] = DirectRoute(Link) /\ Counted(NoRoutes.table)
    BY DEF Start, Direct, NoRoutes, Counted
  <2>3. table = Computed(NoRoutes, Start).table
    BY DEF Init
  <2> QED BY <2>1, <2>2, <2>3, ComputedCounts
<1>2. Inv /\ Counted(table) /\ [Next]_vars =>
        Counted(table)' /\ [~table.multi /\ table'.multi
                              => Cardinality(offer'[Learned].hops) > 1]_vars
  BY HandlersCount DEF Several
<1> QED BY <1>1, <1>2, InvHolds, PTL DEF Spec, MultipathForSeveral
=============================================================================
