--------------------- MODULE OspfSynchronisationProofs ---------------------
(***************************************************************************)
(* The theorem that full and quiet neighbours hold the same database, for  *)
(* any finite set of routers and links and any bounds, when nothing is     *)
(* lost, sent again or given up: the exchange brings the databases         *)
(* together once, flooding keeps them so, and the floods that cross the    *)
(* exchange lose nothing.                                                  *)
(*                                                                         *)
(* Two invariants carry it.  InOrderOfPhases says how far a master and a   *)
(* slave have come and which description packets are on the way then.      *)
(* Synchronising says, of each LSA a router in the exchange holds, how the *)
(* neighbour will come by it.  The second is shown for four kinds of step  *)
(* (Idle, Advances, Summarised, Supplies), then every action is shown to   *)
(* be one of them.                                                         *)
(***************************************************************************)
EXTENDS OspfNeighbourProofs

USE DEF DOWN, ATTEMPT, INIT, TWO_WAY, EX_START, EXCHANGE, LOADING, FULL

-----------------------------------------------------------------------------
(* What a queue carries: updates, those among them with no description     *)
(* packet behind them, and the LSAs asked for.                             *)

Updates(c) == {c[i].lsas : i \in {j \in DOMAIN c : c[j].type = "UPDATE"}}
LateUpdates(c) ==
  {c[i].lsas : i \in {j \in DOMAIN c :
     /\ c[j].type = "UPDATE"
     /\ \A k \in DOMAIN c : k > j => c[k].type # "DD"}}
Requested(c) ==
  UNION {c[i].ids : i \in {j \in DOMAIN c : c[j].type = "REQUEST"}}

(* At most an initial packet, and a later one that is not.                 *)
OnePerTurn(c) ==
  \A i, j \in DOMAIN c :
    i < j /\ c[i].type = "DD" /\ c[j].type = "DD" => c[i].I = 1 /\ c[j].I = 0

(* The places of two queues in the queue they make together.               *)
LEMMA ConcatDomain ==
  ASSUME NEW c \in Seq(Message), NEW d \in Seq(Message)
  PROVE  /\ c \o d \in Seq(Message)
         /\ \A i \in DOMAIN c : i \in DOMAIN (c \o d) /\ (c \o d)[i] = c[i]
         /\ \A j \in DOMAIN d :
              /\ Len(c) + j \in DOMAIN (c \o d)
              /\ (c \o d)[Len(c) + j] = d[j]
         /\ \A k \in DOMAIN (c \o d) :
              k \in DOMAIN c \/ \E j \in DOMAIN d : k = Len(c) + j
         /\ \A i \in DOMAIN c : i \in Nat /\ i <= Len(c)
         /\ \A j \in DOMAIN d : j \in Nat /\ j > 0
         /\ Len(c) \in Nat
<1> DEFINE e == c \o d
<1>1. /\ DOMAIN c = 1..Len(c) /\ DOMAIN d = 1..Len(d)
      /\ DOMAIN e = 1..(Len(c) + Len(d))
      /\ Len(c) \in Nat /\ Len(d) \in Nat /\ e \in Seq(Message)
      /\ \A i \in 1..(Len(c) + Len(d)) :
           e[i] = IF i <= Len(c) THEN c[i] ELSE d[i - Len(c)]
  OBVIOUS
<1> HIDE DEF e
<1>2. ASSUME NEW k \in DOMAIN e, k \notin DOMAIN c
      PROVE  \E j \in DOMAIN d : k = Len(c) + j
  <2>1. k - Len(c) \in DOMAIN d /\ k = Len(c) + (k - Len(c))
    BY <1>1, <1>2
  <2> QED BY <2>1
<1>3. \A i \in DOMAIN c : i \in DOMAIN e /\ e[i] = c[i]
  BY <1>1
<1>4. ASSUME NEW j \in DOMAIN d
      PROVE  Len(c) + j \in DOMAIN e /\ e[Len(c) + j] = d[j]
  <2>1. Len(c) + j \in 1..(Len(c) + Len(d)) /\ ~(Len(c) + j <= Len(c))
        /\ (Len(c) + j) - Len(c) = j
    BY <1>1
  <2> QED BY <1>1, <2>1
<1> QED BY <1>1, <1>2, <1>3, <1>4 DEF e

(* What a link carries when more is sent on it.                            *)
LEMMA ConcatQueues ==
  ASSUME NEW c \in Seq(Message), NEW d \in Seq(Message)
  PROVE  /\ c \o d \in Seq(Message)
         /\ DDs(c \o d) = DDs(c) \cup DDs(d)
         /\ Updates(c \o d) = Updates(c) \cup Updates(d)
         /\ Requested(c \o d) = Requested(c) \cup Requested(d)
         /\ LateUpdates(c \o d) = LateUpdates(d) \cup
              (IF DDs(d) = {} THEN LateUpdates(c) ELSE {})
         /\ OnePerTurn(c \o d) <=>
              /\ OnePerTurn(c) /\ OnePerTurn(d)
              /\ \A k \in DDs(c), l \in DDs(d) : k.I = 1 /\ l.I = 0
<1> DEFINE e == c \o d
           n == Len(c)
<1>1. /\ e \in Seq(Message)
      /\ \A i \in DOMAIN c : i \in DOMAIN e /\ e[i] = c[i]
      /\ \A j \in DOMAIN d : n + j \in DOMAIN e /\ e[n + j] = d[j]
      /\ \A k \in DOMAIN e : k \in DOMAIN c \/ \E j \in DOMAIN d : k = n + j
      /\ \A i \in DOMAIN c : i \in Nat /\ i <= n
      /\ \A j \in DOMAIN d : j \in Nat /\ j > 0
      /\ n \in Nat
  BY ConcatDomain
<1> HIDE DEF e, n
<1>2. DDs(e) = DDs(c) \cup DDs(d)
  BY <1>1 DEF DDs
<1>3. Updates(e) = Updates(c) \cup Updates(d)
  <2>1. ASSUME NEW u \in Updates(e) PROVE u \in Updates(c) \cup Updates(d)
    <3>1. PICK k \in DOMAIN e : e[k].type = "UPDATE" /\ u = e[k].lsas
      BY <2>1 DEF Updates
    <3>2. CASE k \in DOMAIN c
      BY <1>1, <3>1, <3>2 DEF Updates
    <3>3. CASE k \notin DOMAIN c
      <4>1. PICK j \in DOMAIN d : k = n + j
        BY <1>1, <3>3
      <4> QED BY <1>1, <3>1, <4>1 DEF Updates
    <3> QED BY <3>2, <3>3
  <2>2. Updates(c) \subseteq Updates(e)
    BY <1>1 DEF Updates
  <2>3. Updates(d) \subseteq Updates(e)
    BY <1>1 DEF Updates
  <2> QED BY <2>1, <2>2, <2>3
<1>4. Requested(e) = Requested(c) \cup Requested(d)
  <2>1. \A k : k \in Requested(e) <=> \E i \in DOMAIN e :
          e[i].type = "REQUEST" /\ k \in e[i].ids
    BY DEF Requested
  <2>2. \A k : k \in Requested(c) <=> \E i \in DOMAIN c :
          c[i].type = "REQUEST" /\ k \in c[i].ids
    BY DEF Requested
  <2>3. \A k : k \in Requested(d) <=> \E i \in DOMAIN d :
          d[i].type = "REQUEST" /\ k \in d[i].ids
    BY DEF Requested
  <2>4. ASSUME NEW a \in Requested(e) PROVE a \in Requested(c) \cup Requested(d)
    <3>1. PICK k \in DOMAIN e : e[k].type = "REQUEST" /\ a \in e[k].ids
      BY <2>1, <2>4
    <3>2. CASE k \in DOMAIN c
      BY <1>1, <2>2, <3>1, <3>2
    <3>3. CASE k \notin DOMAIN c
      <4>1. PICK j \in DOMAIN d : k = n + j
        BY <1>1, <3>3
      <4> QED BY <1>1, <2>3, <3>1, <4>1
    <3> QED BY <3>2, <3>3
  <2>5. Requested(c) \subseteq Requested(e)
    BY <1>1, <2>1, <2>2
  <2>6. ASSUME NEW a \in Requested(d) PROVE a \in Requested(e)
    <3>1. PICK j \in DOMAIN d : d[j].type = "REQUEST" /\ a \in d[j].ids
      BY <2>3, <2>6
    <3> QED BY <1>1, <2>1, <3>1
  <2> QED BY <2>4, <2>5, <2>6
<1>5. LateUpdates(e) = LateUpdates(d) \cup
              (IF DDs(d) = {} THEN LateUpdates(c) ELSE {})
  <2> DEFINE Last(s, j) == s[j].type = "UPDATE"
                           /\ \A k \in DOMAIN s : k > j => s[k].type # "DD"
  <2>1. \A s : LateUpdates(s) = {s[i].lsas : i \in {j \in DOMAIN s : Last(s, j)}}
    BY DEF LateUpdates
  <2>2. \A j \in DOMAIN d : Last(e, n + j) <=> Last(d, j)
    <3> SUFFICES ASSUME NEW j \in DOMAIN d PROVE Last(e, n + j) <=> Last(d, j)
      OBVIOUS
    <3>1. ASSUME Last(e, n + j) PROVE Last(d, j)
      BY <1>1, <3>1
    <3>2. ASSUME Last(d, j) PROVE Last(e, n + j)
      <4> SUFFICES ASSUME NEW k \in DOMAIN e, k > n + j PROVE e[k].type # "DD"
        BY <1>1, <3>2
      <4>1. k \notin DOMAIN c
        BY <1>1
      <4>2. PICK l \in DOMAIN d : k = n + l
        BY <1>1, <4>1
      <4>3. l > j
        BY <1>1, <4>2
      <4> QED BY <1>1, <3>2, <4>2, <4>3
    <3> QED BY <3>1, <3>2
  <2>3. \A i \in DOMAIN c : Last(e, i) <=> Last(c, i) /\ DDs(d) = {}
    <3> SUFFICES ASSUME NEW i \in DOMAIN c PROVE Last(e, i) <=>
                          Last(c, i) /\ DDs(d) = {}
      OBVIOUS
    <3>1. ASSUME Last(e, i) PROVE Last(c, i) /\ DDs(d) = {}
      BY <1>1, <3>1 DEF DDs
    <3>2. ASSUME Last(c, i), DDs(d) = {} PROVE Last(e, i)
      BY <1>1, <3>2, SMTT(30) DEF DDs
    <3> QED BY <3>1, <3>2
  <2> HIDE DEF Last
  <2>4. \A s, u : u \in LateUpdates(s) <=> \E i \in DOMAIN s :
          Last(s, i) /\ u = s[i].lsas
    BY <2>1
  <2>5. ASSUME NEW u \in LateUpdates(e)
        PROVE  u \in LateUpdates(d) \/ (DDs(d) = {} /\ u \in LateUpdates(c))
    <3>1. PICK k \in DOMAIN e : Last(e, k) /\ u = e[k].lsas
      BY <2>4, <2>5
    <3>2. CASE k \in DOMAIN c
      BY <1>1, <2>3, <2>4, <3>1, <3>2
    <3>3. CASE k \notin DOMAIN c
      <4>1. PICK j \in DOMAIN d : k = n + j
        BY <1>1, <3>3
      <4> QED BY <1>1, <2>2, <2>4, <3>1, <4>1
    <3> QED BY <3>2, <3>3
  <2>6. LateUpdates(d) \subseteq LateUpdates(e)
    BY <1>1, <2>2, <2>4
  <2>7. DDs(d) = {} => LateUpdates(c) \subseteq LateUpdates(e)
    BY <1>1, <2>3, <2>4
  <2> QED BY <2>5, <2>6, <2>7
<1>6. OnePerTurn(e) <=> /\ OnePerTurn(c) /\ OnePerTurn(d)
                        /\ \A k \in DDs(c), l \in DDs(d) : k.I = 1 /\ l.I = 0
  <2>1. ASSUME OnePerTurn(e)
        PROVE  /\ OnePerTurn(c) /\ OnePerTurn(d)
               /\ \A k \in DDs(c), l \in DDs(d) : k.I = 1 /\ l.I = 0
    <3>1. OnePerTurn(c)
      BY <1>1, <2>1 DEF OnePerTurn
    <3>2. OnePerTurn(d)
      <4> SUFFICES ASSUME NEW i \in DOMAIN d, NEW j \in DOMAIN d, i < j,
                          d[i].type = "DD", d[j].type = "DD"
                   PROVE  d[i].I = 1 /\ d[j].I = 0
        BY DEF OnePerTurn
      <4>1. n + i < n + j /\ n + i \in DOMAIN e /\ n + j \in DOMAIN e
            /\ e[n + i] = d[i] /\ e[n + j] = d[j]
        BY <1>1
      <4> QED BY <2>1, <4>1 DEF OnePerTurn
    <3>3. ASSUME NEW i \in DOMAIN c, NEW j \in DOMAIN d, c[i].type = "DD", d[j].type = "DD"
          PROVE  c[i].I = 1 /\ d[j].I = 0
      <4>1. i < n + j /\ i \in DOMAIN e /\ n + j \in DOMAIN e
            /\ e[i] = c[i] /\ e[n + j] = d[j]
        BY <1>1
      <4> QED BY <2>1, <3>3, <4>1 DEF OnePerTurn
    <3> QED BY <3>1, <3>2, <3>3 DEF DDs
  <2>2. ASSUME OnePerTurn(c), OnePerTurn(d),
               \A k \in DDs(c), l \in DDs(d) : k.I = 1 /\ l.I = 0
        PROVE  OnePerTurn(e)
    <3> SUFFICES ASSUME NEW i \in DOMAIN e, NEW j \in DOMAIN e, i < j,
                        e[i].type = "DD", e[j].type = "DD"
                 PROVE  e[i].I = 1 /\ e[j].I = 0
      BY DEF OnePerTurn
    <3>1. CASE i \in DOMAIN c /\ j \in DOMAIN c
      BY <1>1, <2>2, <3>1 DEF OnePerTurn
    <3>2. CASE i \in DOMAIN c /\ j \notin DOMAIN c
      <4>1. PICK l \in DOMAIN d : j = n + l
        BY <1>1, <3>2
      <4>2. e[i] \in DDs(c) /\ e[j] \in DDs(d)
        BY <1>1, <3>2, <4>1 DEF DDs
      <4> QED BY <2>2, <4>2
    <3>3. CASE i \notin DOMAIN c
      <4>1. PICK k \in DOMAIN d : i = n + k
        BY <1>1, <3>3
      <4>2. j \notin DOMAIN c
        BY <1>1, <4>1
      <4>3. PICK l \in DOMAIN d : j = n + l
        BY <1>1, <4>2
      <4>4. k < l /\ e[i] = d[k] /\ e[j] = d[l]
        BY <1>1, <4>1, <4>3
      <4> QED BY <2>2, <4>4 DEF OnePerTurn
    <3> QED BY <3>1, <3>2, <3>3
  <2> QED BY <2>1, <2>2
<1> QED BY <1>1, <1>2, <1>3, <1>4, <1>5, <1>6 DEF e

(* What a single packet carries.                                           *)
LEMMA SingleQueue ==
  ASSUME NEW m \in Message
  PROVE  /\ <<m>> \in Seq(Message)
         /\ DDs(<<m>>) = IF m.type = "DD" THEN {m} ELSE {}
         /\ Updates(<<m>>) = IF m.type = "UPDATE" THEN {m.lsas} ELSE {}
         /\ LateUpdates(<<m>>) = IF m.type = "UPDATE" THEN {m.lsas} ELSE {}
         /\ Requested(<<m>>) = IF m.type = "REQUEST" THEN m.ids ELSE {}
         /\ OnePerTurn(<<m>>)
<1> DEFINE c == <<m>>
<1>1. c \in Seq(Message) /\ DOMAIN c = {1} /\ c[1] = m
  OBVIOUS
<1> HIDE DEF c
<1>2. DDs(c) = IF m.type = "DD" THEN {m} ELSE {}
  BY <1>1 DEF DDs
<1>3. Updates(c) = IF m.type = "UPDATE" THEN {m.lsas} ELSE {}
  BY <1>1 DEF Updates
<1>4. LateUpdates(c) = IF m.type = "UPDATE" THEN {m.lsas} ELSE {}
  BY <1>1 DEF LateUpdates
<1>5. Requested(c) = IF m.type = "REQUEST" THEN m.ids ELSE {}
  <2>1. \A k : k \in Requested(c) <=> \E i \in DOMAIN c :
          c[i].type = "REQUEST" /\ k \in c[i].ids
    BY DEF Requested
  <2> QED BY <1>1, <2>1
<1>6. OnePerTurn(c)
  BY <1>1 DEF OnePerTurn
<1> QED BY <1>1, <1>2, <1>3, <1>4, <1>5, <1>6 DEF c

LEMMA NoQueue ==
  /\ <<>> \in Seq(Message)
  /\ DDs(<<>>) = {} /\ Updates(<<>>) = {} /\ LateUpdates(<<>>) = {}
  /\ Requested(<<>>) = {} /\ OnePerTurn(<<>>)
BY DEF DDs, Updates, LateUpdates, Requested, OnePerTurn

(* What a link carries is what its head carries, and the rest.             *)
LEMMA HeadOfQueue ==
  ASSUME NEW c \in Seq(Message), c # <<>>
  PROVE  LET m == Head(c)  d == Tail(c) IN
         /\ d \in Seq(Message) /\ m \in Message
         /\ DDs(c) = DDs(d) \cup (IF m.type = "DD" THEN {m} ELSE {})
         /\ Updates(c) = Updates(d) \cup (IF m.type = "UPDATE" THEN {m.lsas} ELSE {})
         /\ Requested(c) = Requested(d) \cup (IF m.type = "REQUEST" THEN m.ids ELSE {})
         /\ LateUpdates(c) = LateUpdates(d) \cup
              (IF m.type = "UPDATE" /\ DDs(d) = {} THEN {m.lsas} ELSE {})
         /\ OnePerTurn(c) => /\ OnePerTurn(d)
                             /\ m.type = "DD" => \A l \in DDs(d) :
                                  m.I = 1 /\ l.I = 0
<1> DEFINE m == Head(c)
           d == Tail(c)
<1>1. m \in Message /\ d \in Seq(Message) /\ c = <<m>> \o d
  <2>1. m \in Message /\ d \in Seq(Message)
    BY HeadTailProperties
  <2>2. c = <<m>> \o d
    BY HeadTailProperties
  <2> QED BY <2>1, <2>2
<1> HIDE DEF m, d
<1>2. /\ <<m>> \in Seq(Message)
      /\ DDs(<<m>>) = IF m.type = "DD" THEN {m} ELSE {}
      /\ Updates(<<m>>) = IF m.type = "UPDATE" THEN {m.lsas} ELSE {}
      /\ LateUpdates(<<m>>) = IF m.type = "UPDATE" THEN {m.lsas} ELSE {}
      /\ Requested(<<m>>) = IF m.type = "REQUEST" THEN m.ids ELSE {}
  BY <1>1, SingleQueue
<1> DEFINE s == <<m>>
<1> HIDE DEF s
<1>3. /\ DDs(c) = DDs(s) \cup DDs(d)
      /\ Updates(c) = Updates(s) \cup Updates(d)
      /\ Requested(c) = Requested(s) \cup Requested(d)
      /\ LateUpdates(c) = LateUpdates(d) \cup
              (IF DDs(d) = {} THEN LateUpdates(s) ELSE {})
      /\ OnePerTurn(c) => /\ OnePerTurn(d)
                          /\ \A k \in DDs(s), l \in DDs(d) : k.I = 1 /\ l.I = 0
  <2>1. s \in Seq(Message) /\ d \in Seq(Message) /\ c = s \o d
    BY <1>1, <1>2 DEF s
  <2>2. /\ DDs(s \o d) = DDs(s) \cup DDs(d)
        /\ Updates(s \o d) = Updates(s) \cup Updates(d)
        /\ Requested(s \o d) = Requested(s) \cup Requested(d)
        /\ LateUpdates(s \o d) = LateUpdates(d) \cup
                (IF DDs(d) = {} THEN LateUpdates(s) ELSE {})
        /\ OnePerTurn(s \o d) <=>
             /\ OnePerTurn(s) /\ OnePerTurn(d)
             /\ \A k \in DDs(s), l \in DDs(d) : k.I = 1 /\ l.I = 0
    BY <2>1, ConcatQueues
  <2> QED BY <2>1, <2>2
<1>4. /\ DDs(s) = IF m.type = "DD" THEN {m} ELSE {}
      /\ Updates(s) = IF m.type = "UPDATE" THEN {m.lsas} ELSE {}
      /\ LateUpdates(s) = IF m.type = "UPDATE" THEN {m.lsas} ELSE {}
      /\ Requested(s) = IF m.type = "REQUEST" THEN m.ids ELSE {}
  BY <1>2 DEF s
<1> QED BY <1>1, <1>3, <1>4 DEF m, d

(* What a queue carries has its type.                                      *)
LEMMA LateAreUpdates ==
  ASSUME NEW c \in Seq(Message)
  PROVE  /\ LateUpdates(c) \subseteq Updates(c)
         /\ DDs(c) = {} => LateUpdates(c) = Updates(c)
         /\ Updates(c) \subseteq Database
         /\ Requested(c) \subseteq Router
<1>1. LateUpdates(c) \subseteq Updates(c) /\ (DDs(c) = {} =>
        LateUpdates(c) = Updates(c))
  BY DEF LateUpdates, Updates, DDs
<1>2. \A i \in DOMAIN c : c[i] \in Message
  OBVIOUS
<1>3. Updates(c) \subseteq Database
  BY <1>2, MessageFields DEF Updates
<1>4. Requested(c) \subseteq Router
  BY <1>2, MessageFields DEF Requested
<1> QED BY <1>1, <1>3, <1>4

-----------------------------------------------------------------------------
(* For a pair p of a router and a neighbour: the updates on their way to   *)
(* the neighbour, the one in its hands included, and those it will not     *)
(* drop; and what the router has asked the neighbour for.                  *)

OnWay(p) ==
  Updates(chan[p]) \cup (IF rx.at = Reverse(p) THEN {rx.lsas} ELSE {})

Due(p) ==
  IF state[Reverse(p)] >= EXCHANGE THEN OnWay(p) ELSE LateUpdates(chan[p])

Asked(p, a) ==
  a \in Requested(chan[p]) \/ \E u \in OnWay(Reverse(p)) : u[a] # None

(* The neighbour has the router's instance of a, or will be sent it, or    *)
(* has been told of it, or has asked for it, or is about to answer with    *)
(* its own and hear of the router's if that is newer.                      *)
WillCatchUp(p, a) ==
  \/ lsdb[p[1]][a] <= lsdb[p[2]][a]
  \/ state[Reverse(p)] <= EXCHANGE /\ lsdb[p[1]][a] <= headers[p][a]
  \/ \E u \in Due(p) : lsdb[p[1]][a] <= u[a]
  \/ a \in Requested(chan[Reverse(p)])
  \/ Asked(p, a)

CatchingUp(p) == state[p] >= EXCHANGE => \A a \in Router : WillCatchUp(p, a)

(* The neighbour holds something newer than what the router asked for, and *)
(* so is everything on its way.                                            *)
AsksForNewer(p) ==
  /\ state[p] # LOADING => requests[p] = {}
  /\ Requested(chan[p]) # {} => state[p] >= LOADING
  /\ Requested(chan[p]) \subseteq Held(lsdb[p[2]])
  /\ \A a \in requests[p] :
       /\ lsdb[p[1]][a] < lsdb[p[2]][a]
       /\ Asked(p, a)
       /\ \A u \in OnWay(Reverse(p)) : u[a] = None \/ lsdb[p[1]][a] < u[a]

(* What a router has sent or is to summarise is no newer than what it      *)
(* holds, and what it sends after its summary is no older.                 *)
SendsItsOwn(p) ==
  /\ \A u \in OnWay(p) : \A a \in Router : u[a] <= lsdb[p[1]][a]
  /\ state[p] >= EXCHANGE => \A a \in Router : headers[p][a] <= lsdb[p[1]][a]
  /\ state[p] >= EXCHANGE /\ state[Reverse(p)] <= EXCHANGE =>
       \A u \in LateUpdates(chan[p]) : \A a \in Router :
         u[a] = None \/ headers[p][a] <= u[a]

(* The invariant about the data.                                           *)
Synchronising ==
  \A p \in Pair : CatchingUp(p) /\ AsksForNewer(p) /\ SendsItsOwn(p)

(* The types it needs, of this state and the next.                         *)
DataTypes ==
  /\ state \in [Pair -> DOWN..FULL]
  /\ headers \in [Pair -> Database]
  /\ requests \in [Pair -> SUBSET Router]
  /\ lsdb \in [Router -> Database]
  /\ \A p \in Pair : /\ OnWay(p) \subseteq Database
                     /\ LateUpdates(chan[p]) \subseteq OnWay(p)
                     /\ Requested(chan[p]) \subseteq Router

LEMMA DataTyped == TypeOK => DataTypes
<1> SUFFICES ASSUME TypeOK, NEW p \in Pair
             PROVE  /\ OnWay(p) \subseteq Database
                    /\ LateUpdates(chan[p]) \subseteq OnWay(p)
                    /\ Requested(chan[p]) \subseteq Router
  BY DEF DataTypes, TypeOK
<1>1. chan[p] \in Seq(Message) /\ rx.lsas \in Database
  BY DEF TypeOK
<1> QED BY <1>1, LateAreUpdates DEF OnWay

LEMMA DatabaseValues ==
  /\ \A db \in Database, a \in Router : db[a] \in Int /\ db[a] >= None
  /\ None \in Int
BY DEF Database, None

(* A pair and its reverse.                                                 *)
LEMMA PairEnds ==
  ASSUME NEW p \in Pair
  PROVE  /\ Reverse(p) \in Pair /\ Reverse(Reverse(p)) = p /\ Reverse(p) # p
         /\ Reverse(p)[1] = p[2] /\ Reverse(p)[2] = p[1]
         /\ p[1] \in Router /\ p[2] \in Router /\ p[1] # p[2]
         /\ p[1] \in Nat /\ p[2] \in Nat
         /\ p = <<p[1], p[2]>> /\ Reverse(p) = <<p[2], p[1]>>
BY PairIsTuple, PairReverse, PairType DEF Reverse

-----------------------------------------------------------------------------
(* A step that changes no database and no request.                         *)

IdleAt(p) ==
  /\ Requested(chan'[p]) = Requested(chan[p])
  /\ state[p] >= EXCHANGE => state'[p] >= EXCHANGE /\ headers'[p] = headers[p]
  /\ state'[p] >= EXCHANGE =>
       \/ state[p] >= EXCHANGE
       \/ /\ headers'[p] = lsdb[p[1]]
          /\ state'[Reverse(p)] <= EXCHANGE
          /\ LateUpdates(chan'[p]) = {}
  /\ state'[p] <= EXCHANGE <=> state[p] <= EXCHANGE
  /\ requests[p] # {} => state'[p] = state[p]
  /\ OnWay(p)' \subseteq OnWay(p)
  /\ \A u \in OnWay(p) :
       u \in OnWay(p)' \/ state[Reverse(p)] < EXCHANGE \/ u = Empty
  /\ LateUpdates(chan'[p]) \subseteq LateUpdates(chan[p])
  /\ state[p] >= EXCHANGE /\ state[Reverse(p)] < EXCHANGE =>
       LateUpdates(chan'[p]) = LateUpdates(chan[p])

Idle ==
  /\ UNCHANGED <<lsdb, requests>>
  /\ \A p \in Pair : IdleAt(p)

LEMMA IdleSynchronises ==
  ASSUME DataTypes, DataTypes', Synchronising, Idle
  PROVE  Synchronising'
<1> SUFFICES ASSUME NEW p \in Pair
             PROVE  CatchingUp(p)' /\ AsksForNewer(p)' /\ SendsItsOwn(p)'
  BY DEF Synchronising
<1> DEFINE q == Reverse(p)
           r == p[1]
           n == p[2]
<1>1. /\ q \in Pair /\ Reverse(q) = p /\ q[1] = n /\ q[2] = r
      /\ r \in Router /\ n \in Router
  BY PairEnds
<1>2. /\ \A db \in Database, a \in Router : db[a] \in Int /\ db[a] >= None
      /\ None \in Int
      /\ \A a \in Router : Empty[a] = None
  BY DatabaseValues DEF Empty, None
<1>3. CatchingUp(p) /\ AsksForNewer(p) /\ SendsItsOwn(p)
      /\ CatchingUp(q) /\ AsksForNewer(q) /\ SendsItsOwn(q)
  BY <1>1 DEF Synchronising
<1>4. SendsItsOwn(p)'
  <2>1. \A u \in OnWay(p)' : \A a \in Router : u[a] <= lsdb'[r][a]
    BY <1>3 DEF SendsItsOwn, Idle, IdleAt
  <2>2. state'[p] >= EXCHANGE => \A a \in Router : headers'[p][a] <= lsdb'[r][a]
    <3>1. \A a \in Router : lsdb[r][a] \in Int
      BY <1>1, <1>2 DEF DataTypes
    <3> QED BY <1>3, <3>1 DEF SendsItsOwn, Idle, IdleAt
  <2>3. state'[p] >= EXCHANGE /\ state'[q] <= EXCHANGE =>
          \A u \in LateUpdates(chan'[p]) : \A a \in Router :
            u[a] = None \/ headers'[p][a] <= u[a]
    BY <1>1, <1>3 DEF SendsItsOwn, Idle, IdleAt
  <2> QED BY <2>1, <2>2, <2>3 DEF SendsItsOwn, Reverse
<1>5. ASSUME NEW a \in Router, state[p] >= EXCHANGE, Asked(p, a)
      PROVE  Asked(p, a)'
  <2>1. CASE a \in Requested(chan[p])
    BY <2>1 DEF Asked, Idle, IdleAt
  <2>2. CASE \E u \in OnWay(q) : u[a] # None
    <3>1. PICK u \in OnWay(q) : u[a] # None
      BY <2>2
    <3>2. u \in OnWay(q)'
      BY <1>1, <1>2, <1>5, <3>1 DEF Idle, IdleAt, DataTypes
    <3> QED BY <3>1, <3>2 DEF Asked, Reverse
  <2> QED BY <1>5, <2>1, <2>2 DEF Asked
<1>6. AsksForNewer(p)'
  <2>1. state'[p] # LOADING => requests'[p] = {}
    BY <1>3 DEF AsksForNewer, Idle, IdleAt
  <2>2. Requested(chan'[p]) # {} => state'[p] >= LOADING
    BY <1>3 DEF AsksForNewer, Idle, IdleAt, DataTypes
  <2>3. Requested(chan'[p]) \subseteq Held(lsdb'[n])
    BY <1>3 DEF AsksForNewer, Idle, IdleAt
  <2>4. ASSUME NEW a \in requests'[p]
        PROVE  /\ lsdb'[r][a] < lsdb'[n][a]
               /\ Asked(p, a)'
               /\ \A u \in OnWay(q)' : u[a] = None \/ lsdb'[r][a] < u[a]
    <3>1. a \in requests[p] /\ a \in Router /\ state[p] = LOADING
      BY <1>3, <2>4 DEF AsksForNewer, Idle, IdleAt, DataTypes
    <3> QED BY <1>1, <1>3, <1>5, <3>1 DEF AsksForNewer, Idle, IdleAt
  <2> QED BY <2>1, <2>2, <2>3, <2>4 DEF AsksForNewer, Reverse
<1>7. CatchingUp(p)'
  <2> SUFFICES ASSUME state'[p] >= EXCHANGE, NEW a \in Router
               PROVE  WillCatchUp(p, a)'
    BY DEF CatchingUp
  <2>1. /\ lsdb'[r][a] = lsdb[r][a] /\ lsdb'[n][a] = lsdb[n][a]
        /\ lsdb[r][a] \in Int /\ lsdb[n][a] \in Int /\ lsdb[n][a] >= None
    BY <1>1, <1>2 DEF Idle, IdleAt, DataTypes
  <2>2. CASE state[p] < EXCHANGE
    <3>1. /\ headers'[p] = lsdb[r] /\ state'[q] <= EXCHANGE
      BY <2>2 DEF Idle, IdleAt, DataTypes
    <3> QED BY <2>1, <3>1 DEF WillCatchUp, Reverse
  <2>3. CASE state[p] >= EXCHANGE
    <3>1. WillCatchUp(p, a)
      BY <1>3, <2>3 DEF CatchingUp
    <3>2. CASE lsdb[r][a] <= lsdb[n][a]
      BY <2>1, <3>2 DEF WillCatchUp
    <3>3. CASE state[q] <= EXCHANGE /\ lsdb[r][a] <= headers[p][a]
      <4>1. state'[q] <= EXCHANGE /\ headers'[p] = headers[p]
        BY <1>1, <2>3, <3>3 DEF Idle, IdleAt
      <4> QED BY <2>1, <3>3, <4>1 DEF WillCatchUp, Reverse
    <3>4. CASE \E u \in Due(p) : lsdb[r][a] <= u[a]
      <4>1. PICK u \in Due(p) : lsdb[r][a] <= u[a]
        BY <3>4
      <4>2. u \in Due(p)' \/ u = Empty
        <5>1. CASE state[q] >= EXCHANGE
          <6>1. state'[q] >= EXCHANGE /\ u \in OnWay(p)
            BY <1>1, <4>1, <5>1 DEF Idle, IdleAt, Due
          <6>2. u \in OnWay(p)' \/ u = Empty
            BY <1>1, <5>1, <6>1 DEF Idle, IdleAt, DataTypes
          <6> QED BY <6>1, <6>2 DEF Due, Reverse
        <5>2. CASE state[q] < EXCHANGE
          <6>1. u \in LateUpdates(chan'[p])
            BY <1>1, <2>3, <4>1, <5>2 DEF Idle, IdleAt, Due, DataTypes
          <6>2. LateUpdates(chan'[p]) \subseteq OnWay(p)'
            BY DEF DataTypes
          <6> QED BY <6>1, <6>2 DEF Due
        <5> QED BY <1>1, <5>1, <5>2 DEF DataTypes
      <4>3. CASE u = Empty
        BY <1>2, <2>1, <4>1, <4>3 DEF WillCatchUp
      <4> QED BY <2>1, <4>1, <4>2, <4>3 DEF WillCatchUp
    <3>5. CASE a \in Requested(chan[q])
      BY <1>1, <3>5 DEF WillCatchUp, Idle, IdleAt, Reverse
    <3>6. CASE Asked(p, a)
      BY <1>5, <2>3, <3>6 DEF WillCatchUp
    <3> QED BY <3>1, <3>2, <3>3, <3>4, <3>5, <3>6 DEF WillCatchUp
  <2> QED BY <2>2, <2>3 DEF DataTypes
<1> QED BY <1>4, <1>6, <1>7

-----------------------------------------------------------------------------
(* A router r that takes up the instance of a in hand, or makes a new one, *)
(* and sends what it then holds to the neighbours of the pairs P.          *)

(* The link p carries the updates u besides what it carried.               *)
Carries(p, u) ==
  /\ Updates(chan'[p]) = Updates(chan[p]) \cup u
  /\ LateUpdates(chan'[p]) = LateUpdates(chan[p]) \cup u
  /\ Requested(chan'[p]) = Requested(chan[p])

Advances(r, a, P) ==
  /\ UNCHANGED <<state, headers>>
  /\ \A s \in Router, b \in Router :
       IF s = r /\ b = a THEN lsdb'[s][b] >= lsdb[s][b] ELSE lsdb'[s][b] = lsdb[s][b]
  /\ rx'.at = rx.at
  /\ rx.at \in Pair => /\ rx.at[1] = r
                       /\ rx.lsas[a] <= lsdb'[r][a]
                       /\ rx'.lsas = [rx.lsas EXCEPT ![a] = None]
  /\ P \subseteq {p \in Pair : p[1] = r}
  /\ \A p \in Pair : Carries(p, IF p \in P THEN {Only(a, lsdb'[r][a])} ELSE {})
  /\ \A p \in Pair : /\ requests'[p] \subseteq requests[p]
                     /\ p[1] # r => requests'[p] = requests[p]
  /\ \A p \in Pair : p[1] = r /\ a \in requests'[p] =>
       p # rx.at /\ lsdb'[r][a] = lsdb[r][a]
  /\ \A p \in Pair : p[1] = r /\ state[p] >= EXCHANGE /\ p \notin P =>
       \/ lsdb'[r][a] <= lsdb[p[2]][a]
       \/ p # rx.at /\ (lsdb'[r][a] = lsdb[r][a] \/ a \in requests[p])

(* Taking up or making an instance keeps the invariant.                    *)
LEMMA AdvanceSynchronises ==
  ASSUME DataTypes, DataTypes', Synchronising, InHandInExchange,
         NEW r \in Router, NEW a \in Router, NEW P, Advances(r, a, P),
         rx.at \in Pair \/ rx.at = <<>>, rx.lsas \in Database
  PROVE  Synchronising'
<1> DEFINE new == Only(a, lsdb'[r][a])
           at == Reverse(rx.at)
<1>1. /\ \A db \in Database, b \in Router : db[b] \in Int /\ db[b] >= None
      /\ None \in Int
      /\ new[a] = lsdb'[r][a] /\ \A b \in Router : b # a => new[b] = None
  BY DatabaseValues DEF Only, Empty
<1>2. \A s \in Router, b \in Router :
        /\ lsdb[s][b] \in Int /\ lsdb'[s][b] \in Int /\ lsdb'[s][b] >= lsdb[s][b]
        /\ lsdb[s][b] >= None
        /\ (s # r \/ b # a) => lsdb'[s][b] = lsdb[s][b]
  BY <1>1 DEF Advances, DataTypes
<1>3. ASSUME NEW p \in Pair, rx.at # Reverse(p)
      PROVE  OnWay(p)' = OnWay(p) \cup (IF p \in P THEN {new} ELSE {})
  BY <1>3 DEF OnWay, Advances, Carries, Reverse
<1>4. ASSUME NEW p \in Pair, rx.at = Reverse(p)
      PROVE  /\ p[2] = r /\ p[1] # r /\ p \notin P
             /\ OnWay(p) = Updates(chan[p]) \cup {rx.lsas}
             /\ OnWay(p)' = Updates(chan[p]) \cup {[rx.lsas EXCEPT ![a] = None]}
             /\ rx.lsas[a] <= lsdb'[r][a]
             /\ [rx.lsas EXCEPT ![a] = None][a] = None
             /\ \A b \in Router : b # a =>
                  [rx.lsas EXCEPT ![a] = None][b] = rx.lsas[b]
             /\ state[rx.at] >= EXCHANGE
  <2>1. rx.at \in Pair /\ p[2] = r /\ p[1] # r
    BY <1>4, PairEnds DEF Advances
  <2>2. p \notin P
    BY <2>1 DEF Advances
  <2>3. /\ OnWay(p) = Updates(chan[p]) \cup {rx.lsas}
        /\ OnWay(p)' = Updates(chan[p]) \cup {[rx.lsas EXCEPT ![a] = None]}
    BY <1>4, <2>1, <2>2 DEF OnWay, Advances, Carries, Reverse
  <2> QED BY <2>1, <2>2, <2>3 DEF Advances, InHandInExchange, Database
<1> HIDE DEF new
<1> SUFFICES ASSUME NEW p \in Pair
             PROVE  CatchingUp(p)' /\ AsksForNewer(p)' /\ SendsItsOwn(p)'
  BY DEF Synchronising
<1> DEFINE q == Reverse(p)
           m == p[1]
           n == p[2]
<1>5. /\ q \in Pair /\ Reverse(q) = p /\ q[1] = n /\ q[2] = m /\ p # q
      /\ m \in Router /\ n \in Router /\ m # n
  BY PairEnds
<1>6. CatchingUp(p) /\ AsksForNewer(p) /\ SendsItsOwn(p) /\ SendsItsOwn(q)
  BY <1>5 DEF Synchronising
<1>7. SendsItsOwn(p)'
  <2>1. ASSUME NEW u \in OnWay(p)', NEW b \in Router PROVE u[b] <= lsdb'[m][b]
    <3>1. CASE u \in OnWay(p)
      <4>1. u \in Database
        BY <3>1 DEF DataTypes
      <4>2. u[b] <= lsdb[m][b] /\ u[b] \in Int
        BY <1>1, <1>6, <3>1, <4>1 DEF SendsItsOwn
      <4>3. lsdb[m][b] <= lsdb'[m][b] /\ lsdb[m][b] \in Int /\ lsdb'[m][b] \in Int
        BY <1>2, <1>5
      <4> QED BY <4>2, <4>3
    <3>2. CASE u = new /\ p \in P
      <4>1. m = r
        BY <3>2 DEF Advances
      <4> QED BY <1>1, <1>2, <3>2, <4>1
    <3>3. CASE rx.at = q /\ u = [rx.lsas EXCEPT ![a] = None]
      <4>1. rx.lsas \in OnWay(p) /\ rx.lsas \in Database
        BY <1>4, <3>3
      <4>2. rx.lsas[b] <= lsdb[m][b] /\ rx.lsas[b] \in Int
        BY <1>1, <1>6, <4>1 DEF SendsItsOwn
      <4>3. u[b] = None \/ u[b] = rx.lsas[b]
        BY <1>4, <3>3
      <4> QED BY <1>1, <1>2, <1>5, <4>2, <4>3
    <3> QED BY <1>3, <1>4, <2>1, <3>1, <3>2, <3>3
  <2>2. state'[p] >= EXCHANGE => \A b \in Router : headers'[p][b] <= lsdb'[m][b]
    <3>1. /\ \A b \in Router : headers[p][b] \in Int
          /\ state' = state /\ headers' = headers
      BY <1>1 DEF DataTypes, Advances
    <3> QED BY <1>2, <1>5, <1>6, <3>1 DEF SendsItsOwn
  <2>3. ASSUME state'[p] >= EXCHANGE, state'[q] <= EXCHANGE,
               NEW u \in LateUpdates(chan'[p]), NEW b \in Router
        PROVE  u[b] = None \/ headers'[p][b] <= u[b]
    <3>1. state' = state /\ headers' = headers
      BY DEF Advances
    <3>2. CASE u \in LateUpdates(chan[p])
      BY <1>6, <2>3, <3>1, <3>2 DEF SendsItsOwn
    <3>3. CASE u = new /\ p \in P
      <4>1. m = r
        BY <3>3 DEF Advances
      <4>2. headers[p][b] <= lsdb[m][b] /\ headers[p][b] \in Int
        BY <1>1, <1>6, <2>3, <3>1 DEF SendsItsOwn, DataTypes
      <4> QED BY <1>1, <1>2, <1>5, <3>1, <3>3, <4>1, <4>2
    <3>4. u \in LateUpdates(chan[p]) \/ (u = new /\ p \in P)
      BY <2>3 DEF Advances, Carries, new
    <3> QED BY <3>2, <3>3, <3>4
  <2> QED BY <2>1, <2>2, <2>3 DEF SendsItsOwn, Reverse
<1>8. ASSUME NEW b \in Router, Asked(p, b), p # rx.at \/ b # a
      PROVE  Asked(p, b)'
  <2>1. CASE b \in Requested(chan[p])
    BY <2>1 DEF Asked, Advances, Carries
  <2>2. CASE \E u \in OnWay(q) : u[b] # None
    <3>1. PICK u \in OnWay(q) : u[b] # None
      BY <2>2
    <3>2. CASE rx.at # p
      <4>1. u \in OnWay(q)'
        BY <1>3, <1>5, <3>1, <3>2
      <4> QED BY <3>1, <4>1 DEF Asked, Reverse
    <3>3. CASE rx.at = p
      <4>1. /\ OnWay(q) = Updates(chan[q]) \cup {rx.lsas}
            /\ OnWay(q)' = Updates(chan[q]) \cup {[rx.lsas EXCEPT ![a] = None]}
            /\ [rx.lsas EXCEPT ![a] = None][b] = rx.lsas[b]
        BY <1>4, <1>5, <1>8, <3>3
      <4>2. \E v \in OnWay(q)' : v[b] # None
        BY <3>1, <4>1
      <4> QED BY <4>2 DEF Asked, Reverse
    <3> QED BY <3>2, <3>3
  <2> QED BY <1>8, <2>1, <2>2 DEF Asked
<1>9. AsksForNewer(p)'
  <2>1. state'[p] # LOADING => requests'[p] = {}
    BY <1>6 DEF AsksForNewer, Advances
  <2>2. Requested(chan'[p]) # {} => state'[p] >= LOADING
    BY <1>6 DEF AsksForNewer, Advances, Carries
  <2>3. Requested(chan'[p]) \subseteq Held(lsdb'[n])
    <3>1. Requested(chan[p]) \subseteq Held(lsdb[n])
      BY <1>6 DEF AsksForNewer
    <3>2. ASSUME NEW b \in Requested(chan[p]) PROVE b \in Held(lsdb'[n])
      <4>1. b \in Router /\ lsdb[n][b] # None
        BY <3>1, <3>2 DEF Held
      <4>2. lsdb'[n][b] # None
        BY <1>1, <1>2, <1>5, <4>1
      <4> QED BY <4>1, <4>2 DEF Held
    <3> QED BY <3>2 DEF Advances, Carries
  <2>4. ASSUME NEW b \in requests'[p]
        PROVE  /\ lsdb'[m][b] < lsdb'[n][b]
               /\ Asked(p, b)'
               /\ \A u \in OnWay(q)' : u[b] = None \/ lsdb'[m][b] < u[b]
    <3>1. /\ b \in requests[p] /\ b \in Router
          /\ lsdb[m][b] < lsdb[n][b] /\ Asked(p, b)
          /\ \A u \in OnWay(q) : u[b] = None \/ lsdb[m][b] < u[b]
      BY <1>6, <2>4 DEF AsksForNewer, Advances, DataTypes
    <3>2. m = r /\ b = a => p # rx.at /\ lsdb'[m][b] = lsdb[m][b]
      BY <2>4 DEF Advances
    <3>3. lsdb'[m][b] = lsdb[m][b]
      BY <1>2, <1>5, <3>1, <3>2
    <3>4. p # rx.at \/ b # a
      <4>1. p = rx.at => m = r
        BY DEF Advances
      <4> QED BY <3>2, <4>1
    <3>5. Asked(p, b)'
      BY <1>8, <3>1, <3>4
    <3>6. ASSUME NEW u \in OnWay(q)' PROVE u[b] = None \/ lsdb[m][b] < u[b]
      <4>1. CASE u \in OnWay(q)
        BY <3>1, <4>1
      <4>2. CASE u = new /\ q \in P
        <5>1. n = r
          BY <1>5, <4>2 DEF Advances
        <5> QED BY <1>1, <1>2, <1>5, <3>1, <4>2, <5>1
      <4>3. CASE rx.at = p /\ u = [rx.lsas EXCEPT ![a] = None]
        <5>1. rx.lsas \in OnWay(q)
          BY <1>4, <1>5, <4>3
        <5>2. u[b] = None \/ u[b] = rx.lsas[b]
          BY <1>4, <1>5, <3>1, <4>3
        <5> QED BY <3>1, <5>1, <5>2
      <4> QED BY <1>3, <1>4, <1>5, <3>6, <4>1, <4>2, <4>3
    <3> QED BY <1>2, <1>5, <3>1, <3>3, <3>5, <3>6
  <2> QED BY <2>1, <2>2, <2>3, <2>4 DEF AsksForNewer, Reverse
<1>10. CatchingUp(p)'
  <2> SUFFICES ASSUME state'[p] >= EXCHANGE, NEW b \in Router
               PROVE  WillCatchUp(p, b)'
    BY DEF CatchingUp
  <2>1. /\ state' = state /\ headers' = headers /\ state[p] >= EXCHANGE
        /\ WillCatchUp(p, b)
    BY <1>6 DEF CatchingUp, Advances
  <2>2. /\ Requested(chan'[q]) = Requested(chan[q])
        /\ LateUpdates(chan[p]) \subseteq LateUpdates(chan'[p])
    BY <1>5 DEF Advances, Carries
  <2>3. ASSUME p \in P, b = a PROVE WillCatchUp(p, b)'
    <3>1. new \in OnWay(p)' /\ new \in LateUpdates(chan'[p]) /\ m = r
      BY <1>3, <1>4, <2>3 DEF Advances, Carries, new
    <3>2. new \in Due(p)'
      BY <3>1 DEF Due
    <3>3. lsdb'[m][b] <= new[b]
      BY <1>1, <1>2, <2>3, <3>1
    <3> QED BY <3>2, <3>3 DEF WillCatchUp
  <2>4. ASSUME m = r, b = a, p \notin P,
               \/ lsdb'[m][b] <= lsdb[n][b]
               \/ p # rx.at /\ b \in requests[p]
        PROVE  WillCatchUp(p, b)'
    <3>1. CASE lsdb'[m][b] <= lsdb[n][b]
      BY <1>2, <1>5, <2>4, <3>1 DEF WillCatchUp
    <3>2. CASE p # rx.at /\ b \in requests[p]
      <4>1. Asked(p, b)
        BY <1>6, <3>2 DEF AsksForNewer
      <4> QED BY <1>8, <3>2, <4>1 DEF WillCatchUp
    <3> QED BY <2>4, <3>1, <3>2
  <2>5. ASSUME lsdb'[m][b] = lsdb[m][b], ~(m = r /\ b = a) \/ p # rx.at
        PROVE  WillCatchUp(p, b)'
    <3>1. CASE lsdb[m][b] <= lsdb[n][b]
      BY <1>2, <1>5, <2>5, <3>1 DEF WillCatchUp
    <3>2. CASE state[q] <= EXCHANGE /\ lsdb[m][b] <= headers[p][b]
      BY <2>1, <2>5, <3>2 DEF WillCatchUp
    <3>3. CASE \E u \in Due(p) : lsdb[m][b] <= u[b]
      <4>1. PICK u \in Due(p) : lsdb[m][b] <= u[b]
        BY <3>3
      <4>2. CASE u \in Due(p)'
        BY <2>5, <4>1, <4>2 DEF WillCatchUp
      <4>3. CASE u \notin Due(p)'
        <5>1. state[q] >= EXCHANGE /\ u \in OnWay(p) /\ u \notin OnWay(p)'
          BY <2>1, <2>2, <4>1, <4>3 DEF Due
        <5>2. rx.at = q /\ u = rx.lsas /\ n = r
          BY <1>3, <1>4, <5>1
        <5>3. CASE b = a
          <6>1. lsdb[m][b] <= rx.lsas[b] /\ rx.lsas[b] <= lsdb'[n][b]
                /\ rx.lsas[b] \in Int
            BY <1>1, <1>4, <4>1, <5>2, <5>3
          <6>2. lsdb'[m][b] <= lsdb'[n][b]
            BY <1>2, <1>5, <2>5, <6>1
          <6> QED BY <6>2 DEF WillCatchUp
        <5>4. CASE b # a
          <6> DEFINE v == [rx.lsas EXCEPT ![a] = None]
          <6>1. v \in OnWay(p)' /\ v[b] = u[b]
            BY <1>4, <5>2, <5>4
          <6> HIDE DEF v
          <6>2. v \in Due(p)'
            BY <2>1, <5>1, <6>1 DEF Due, Reverse
          <6> QED BY <2>5, <4>1, <6>1, <6>2 DEF WillCatchUp
        <5> QED BY <5>3, <5>4
      <4> QED BY <4>2, <4>3
    <3>4. CASE b \in Requested(chan[q])
      BY <2>2, <3>4 DEF WillCatchUp, Reverse
    <3>5. CASE Asked(p, b)
      <4>1. p = rx.at => m = r
        BY DEF Advances
      <4>2. p # rx.at \/ b # a
        BY <2>5, <4>1
      <4> QED BY <1>8, <3>5, <4>2 DEF WillCatchUp
    <3> QED BY <2>1, <3>1, <3>2, <3>3, <3>4, <3>5 DEF WillCatchUp
  <2>6. CASE m = r /\ b = a /\ p \notin P
    <3>1. \/ lsdb'[r][a] <= lsdb[n][a]
          \/ p # rx.at /\ (lsdb'[r][a] = lsdb[r][a] \/ a \in requests[p])
      BY <2>1, <2>6 DEF Advances
    <3> QED BY <2>4, <2>5, <2>6, <3>1
  <2>7. CASE m # r \/ b # a
    BY <1>2, <1>5, <2>5, <2>7
  <2> QED BY <2>3, <2>6, <2>7
<1> QED BY <1>7, <1>9, <1>10

-----------------------------------------------------------------------------
(* A router that has taken the neighbour's summary and asks for its news.  *)

Summarised(p) ==
  LET q == Reverse(p)
      wanted == {a \in Router : lsdb[p[1]][a] < headers[q][a]}
  IN
  /\ UNCHANGED <<lsdb, rx, headers>>
  /\ rx.at \notin Pair
  /\ state[p] = EXCHANGE /\ state[q] >= EXCHANGE
  /\ state'[p] >= LOADING /\ (wanted # {} => state'[p] = LOADING)
  /\ requests'[p] = wanted
  /\ Requested(chan'[p]) = Requested(chan[p]) \cup wanted
  /\ \A o \in Pair : o # p => /\ state'[o] = state[o]
                              /\ requests'[o] = requests[o]
                              /\ Requested(chan'[o]) = Requested(chan[o])
  /\ \A o \in Pair : Updates(chan'[o]) = Updates(chan[o])
  /\ \A o \in Pair : LateUpdates(chan'[o]) \subseteq LateUpdates(chan[o])
  /\ \A o \in Pair : o # p /\ o # q => LateUpdates(chan'[o]) = LateUpdates(chan[o])
  /\ state[q] <= EXCHANGE => LateUpdates(chan'[p]) = {}
  /\ LateUpdates(chan[q]) = Updates(chan[q])

(* So does taking a summary and asking for its news.                       *)
LEMMA SummarySynchronises ==
  ASSUME DataTypes, DataTypes', Synchronising, NEW p \in Pair, Summarised(p)
  PROVE  Synchronising'
<1> DEFINE q == Reverse(p)
           wanted == {a \in Router : lsdb[p[1]][a] < headers[q][a]}
<1>1. /\ q \in Pair /\ Reverse(q) = p /\ q[1] = p[2] /\ q[2] = p[1] /\ p # q
      /\ p[1] \in Router /\ p[2] \in Router
  BY PairEnds
<1>2. /\ \A db \in Database, a \in Router : db[a] \in Int /\ db[a] >= None
      /\ None \in Int
  BY DatabaseValues
<1>3. \A s, b \in Router : lsdb[s][b] \in Int /\ lsdb[s][b] >= None
  BY <1>2 DEF DataTypes
<1>4. \A o \in Pair : OnWay(o)' = OnWay(o)
  BY DEF OnWay, Reverse, Summarised
<1>5. \A o \in Pair : /\ state[o] \in DOWN..FULL /\ state'[o] \in DOWN..FULL
                      /\ state'[o] >= EXCHANGE <=> state[o] >= EXCHANGE
                      /\ state[o] >= LOADING => state'[o] >= LOADING
                      /\ state'[o] <= EXCHANGE <=> state[o] <= EXCHANGE /\ o # p
  BY DEF DataTypes, Summarised
<1>6. /\ lsdb' = lsdb /\ headers' = headers
      /\ \A o \in Pair : Requested(chan[o]) \subseteq Requested(chan'[o])
  BY DEF Summarised
<1>7. \A o \in Pair : \A a \in Router : Asked(o, a) => Asked(o, a)'
  BY <1>4, <1>6, PairEnds DEF Asked, Reverse
<1>8. \A o \in Pair : CatchingUp(o) /\ AsksForNewer(o) /\ SendsItsOwn(o)
  BY DEF Synchronising
<1>9. \A a \in Router : a \in wanted =>
        /\ lsdb[p[1]][a] < lsdb[p[2]][a]
        /\ \A u \in OnWay(q) : u[a] = None \/ lsdb[p[1]][a] < u[a]
  <2> SUFFICES ASSUME NEW a \in Router, a \in wanted
               PROVE  /\ lsdb[p[1]][a] < lsdb[p[2]][a]
                      /\ \A u \in OnWay(q) : u[a] = None \/ lsdb[p[1]][a] < u[a]
    OBVIOUS
  <2>1. /\ headers[q][a] <= lsdb[p[2]][a] /\ headers[q][a] \in Int
        /\ lsdb[p[1]][a] < headers[q][a]
    BY <1>1, <1>2, <1>8 DEF SendsItsOwn, Summarised, DataTypes
  <2>2. ASSUME NEW u \in OnWay(q) PROVE u[a] = None \/ lsdb[p[1]][a] < u[a]
    <3>1. u \in LateUpdates(chan[q])
      BY <1>1, <2>2 DEF Summarised, OnWay
    <3>2. state[p] <= EXCHANGE /\ state[q] >= EXCHANGE
      BY DEF Summarised
    <3>3. u[a] = None \/ headers[q][a] <= u[a]
      BY <1>1, <1>8, <3>1, <3>2 DEF SendsItsOwn
    <3>4. u[a] \in Int
      BY <1>1, <1>2, <2>2 DEF DataTypes
    <3> QED BY <1>1, <1>3, <2>1, <3>3, <3>4
  <2> QED BY <1>1, <1>3, <2>1, <2>2
<1> SUFFICES ASSUME NEW o \in Pair
             PROVE  CatchingUp(o)' /\ AsksForNewer(o)' /\ SendsItsOwn(o)'
  BY DEF Synchronising
<1> DEFINE e == Reverse(o)
<1>10. e \in Pair /\ Reverse(e) = o /\ e[1] = o[2] /\ e[2] = o[1] /\ o # e
       /\ o[1] \in Router /\ o[2] \in Router
  BY PairEnds
<1>11. SendsItsOwn(o)'
  <2>1. \A u \in OnWay(o)' : \A a \in Router : u[a] <= lsdb'[o[1]][a]
    BY <1>4, <1>6, <1>8 DEF SendsItsOwn
  <2>2. state'[o] >= EXCHANGE => \A a \in Router : headers'[o][a] <= lsdb'[o[1]][a]
    BY <1>5, <1>6, <1>8 DEF SendsItsOwn
  <2>3. state'[o] >= EXCHANGE /\ state'[e] <= EXCHANGE =>
          \A u \in LateUpdates(chan'[o]) : \A a \in Router :
            u[a] = None \/ headers'[o][a] <= u[a]
    BY <1>5, <1>6, <1>8, <1>10 DEF SendsItsOwn, Summarised
  <2> QED BY <2>1, <2>2, <2>3 DEF SendsItsOwn, Reverse
<1>12. AsksForNewer(o)'
  <2>1. CASE o = p
    <3>1. state'[p] # LOADING => requests'[p] = {}
      BY DEF Summarised
    <3>2. Requested(chan'[p]) # {} => state'[p] >= LOADING
      BY DEF Summarised
    <3>3. Requested(chan'[p]) \subseteq Held(lsdb'[p[2]])
      <4>1. Requested(chan'[p]) = wanted
        BY <1>8 DEF AsksForNewer, Summarised
      <4>2. \A a \in wanted : a \in Held(lsdb[p[2]])
        BY <1>1, <1>2, <1>3, <1>9 DEF Held
      <4> QED BY <1>6, <4>1, <4>2
    <3>4. ASSUME NEW a \in requests'[p]
          PROVE  /\ lsdb'[p[1]][a] < lsdb'[p[2]][a]
                 /\ Asked(p, a)'
                 /\ \A u \in OnWay(q)' : u[a] = None \/ lsdb'[p[1]][a] < u[a]
      <4>1. a \in wanted
        BY <3>4 DEF Summarised
      <4>2. Asked(p, a)'
        BY <4>1 DEF Asked, Summarised
      <4> QED BY <1>1, <1>4, <1>6, <1>9, <4>1, <4>2
    <3> QED BY <2>1, <3>1, <3>2, <3>3, <3>4 DEF AsksForNewer, Reverse
  <2>2. CASE o # p
    <3>1. /\ state'[o] = state[o] /\ requests'[o] = requests[o]
          /\ Requested(chan'[o]) = Requested(chan[o])
      BY <2>2 DEF Summarised
    <3>2. \A a \in requests'[o] :
            /\ lsdb'[o[1]][a] < lsdb'[o[2]][a]
            /\ Asked(o, a)'
            /\ \A u \in OnWay(e)' : u[a] = None \/ lsdb'[o[1]][a] < u[a]
      BY <1>4, <1>6, <1>7, <1>8, <1>10, <3>1 DEF AsksForNewer, DataTypes
    <3> QED BY <1>6, <1>8, <3>1, <3>2 DEF AsksForNewer, Reverse
  <2> QED BY <2>1, <2>2
<1>13. CatchingUp(o)'
  <2> SUFFICES ASSUME state'[o] >= EXCHANGE, NEW a \in Router
               PROVE  WillCatchUp(o, a)'
    BY DEF CatchingUp
  <2>1. WillCatchUp(o, a)
    BY <1>5, <1>8 DEF CatchingUp
  <2>2. CASE lsdb[o[1]][a] <= lsdb[o[2]][a]
    BY <1>6, <2>2 DEF WillCatchUp
  <2>3. CASE state[e] <= EXCHANGE /\ lsdb[o[1]][a] <= headers[o][a]
    <3>1. CASE e = p
      <4>1. o = q
        BY <1>1, <1>10, <3>1
      <4>2. CASE a \in wanted
        BY <4>1, <4>2, <1>1 DEF WillCatchUp, Summarised, Reverse
      <4>3. CASE a \notin wanted
        <5>1. headers[q][a] <= lsdb[p[1]][a] /\ headers[q][a] \in Int
          BY <1>1, <1>2, <1>3, <4>3 DEF DataTypes
        <5>2. lsdb[o[1]][a] <= lsdb[o[2]][a]
          BY <1>1, <1>3, <1>10, <2>3, <4>1, <5>1
        <5> QED BY <1>6, <5>2 DEF WillCatchUp
      <4> QED BY <4>2, <4>3
    <3>2. CASE e # p
      BY <1>5, <1>6, <1>10, <2>3, <3>2 DEF WillCatchUp, Reverse
    <3> QED BY <3>1, <3>2
  <2>4. CASE \E u \in Due(o) : lsdb[o[1]][a] <= u[a]
    <3>1. Due(o)' = Due(o)
      <4>1. CASE state[e] >= EXCHANGE
        BY <1>4, <1>5, <1>10, <4>1 DEF Due, Reverse
      <4>2. CASE ~(state[e] >= EXCHANGE)
        <5>1. o # p /\ o # q
          BY <1>1, <4>2 DEF Summarised
        <5>2. LateUpdates(chan'[o]) = LateUpdates(chan[o])
          BY <5>1 DEF Summarised
        <5> QED BY <1>5, <1>10, <4>2, <5>2 DEF Due, Reverse
      <4> QED BY <4>1, <4>2
    <3> QED BY <1>6, <2>4, <3>1 DEF WillCatchUp
  <2>5. CASE a \in Requested(chan[e])
    BY <1>6, <1>10, <2>5 DEF WillCatchUp, Reverse
  <2>6. CASE Asked(o, a)
    BY <1>7, <2>6 DEF WillCatchUp
  <2> QED BY <2>1, <2>2, <2>3, <2>4, <2>5, <2>6 DEF WillCatchUp
<1> QED BY <1>11, <1>12, <1>13

(* A router that answers a request with what it holds.                     *)
Supplies(p, ids) ==
  LET q == Reverse(p)
      lsas == [a \in Router |-> IF a \in ids THEN lsdb[p[1]][a] ELSE None]
  IN
  /\ UNCHANGED <<state, headers, requests, lsdb, rx>>
  /\ state[p] >= EXCHANGE
  /\ Requested(chan[q]) = Requested(chan'[q]) \cup ids
  /\ Updates(chan'[p]) = Updates(chan[p]) \cup {lsas}
  /\ LateUpdates(chan'[p]) = LateUpdates(chan[p]) \cup {lsas}
  /\ \A o \in Pair : o # q => Requested(chan'[o]) = Requested(chan[o])
  /\ \A o \in Pair : o # p =>
       /\ Updates(chan'[o]) = Updates(chan[o])
       /\ LateUpdates(chan'[o]) = LateUpdates(chan[o])

(* So does answering a request.                                            *)
LEMMA SupplySynchronises ==
  ASSUME DataTypes, DataTypes', Synchronising, NEW p \in Pair, NEW ids,
         Supplies(p, ids)
  PROVE  Synchronising'
<1> DEFINE q == Reverse(p)
           new == [a \in Router |-> IF a \in ids THEN lsdb[p[1]][a] ELSE None]
<1>1. /\ q \in Pair /\ Reverse(q) = p /\ q[1] = p[2] /\ q[2] = p[1] /\ p # q
      /\ p[1] \in Router /\ p[2] \in Router
  BY PairEnds
<1>2. /\ \A db \in Database, a \in Router : db[a] \in Int /\ db[a] >= None
      /\ None \in Int
  BY DatabaseValues
<1>3. \A s, b \in Router : lsdb[s][b] \in Int /\ lsdb[s][b] >= None
  BY <1>2 DEF DataTypes
<1>4. \A a \in Router : new[a] = IF a \in ids THEN lsdb[p[1]][a] ELSE None
  OBVIOUS
<1>5. \A o \in Pair : OnWay(o)' = OnWay(o) \cup (IF o = p THEN {new} ELSE {})
  BY DEF OnWay, Reverse, Supplies
<1> HIDE DEF new
<1>6. /\ state' = state /\ headers' = headers /\ requests' = requests /\ lsdb' = lsdb
      /\ state[p] >= EXCHANGE
      /\ Requested(chan[q]) = Requested(chan'[q]) \cup ids
      /\ \A o \in Pair : o # q => Requested(chan'[o]) = Requested(chan[o])
      /\ \A o \in Pair : LateUpdates(chan'[o]) =
                           LateUpdates(chan[o]) \cup (IF o = p THEN {new} ELSE {})
  BY DEF Supplies, new
<1>7. \A o \in Pair : CatchingUp(o) /\ AsksForNewer(o) /\ SendsItsOwn(o)
  BY DEF Synchronising
<1>8. /\ ids \subseteq Held(lsdb[p[1]]) /\ ids \subseteq Router
      /\ ids # {} => state[q] >= LOADING
  BY <1>1, <1>6, <1>7 DEF AsksForNewer, Held
<1>9. new \in OnWay(p)' /\ new \in LateUpdates(chan'[p])
  BY <1>5, <1>6
<1>10. \A o \in Pair : \A a \in Router : Asked(o, a) => Asked(o, a)'
  <2> SUFFICES ASSUME NEW o \in Pair, NEW a \in Router, Asked(o, a)
               PROVE  Asked(o, a)'
    OBVIOUS
  <2>1. Reverse(o) \in Pair
    BY PairEnds
  <2>2. CASE \E u \in OnWay(Reverse(o)) : u[a] # None
    BY <1>5, <2>1, <2>2 DEF Asked, Reverse
  <2>3. CASE a \in Requested(chan[o])
    <3>1. CASE a \in Requested(chan'[o])
      BY <3>1 DEF Asked
    <3>2. CASE a \notin Requested(chan'[o])
      <4>1. o = q /\ a \in ids
        BY <1>6, <2>3, <3>2
      <4>2. new[a] # None
        BY <1>4, <1>8, <4>1 DEF Held
      <4>3. new \in OnWay(Reverse(o))'
        BY <1>1, <1>9, <4>1 DEF Reverse
      <4> QED BY <4>2, <4>3 DEF Asked, Reverse
    <3> QED BY <3>1, <3>2
  <2> QED BY <2>2, <2>3 DEF Asked
<1> SUFFICES ASSUME NEW o \in Pair
             PROVE  CatchingUp(o)' /\ AsksForNewer(o)' /\ SendsItsOwn(o)'
  BY DEF Synchronising
<1> DEFINE e == Reverse(o)
<1>11. e \in Pair /\ Reverse(e) = o /\ e[1] = o[2] /\ e[2] = o[1] /\ o # e
       /\ o[1] \in Router /\ o[2] \in Router
  BY PairEnds
<1>12. SendsItsOwn(o)'
  <2>1. ASSUME NEW u \in OnWay(o)', NEW a \in Router PROVE u[a] <= lsdb'[o[1]][a]
    <3>1. CASE u \in OnWay(o)
      BY <1>6, <1>7, <3>1 DEF SendsItsOwn
    <3>2. CASE u = new /\ o = p
      BY <1>1, <1>2, <1>3, <1>4, <1>6, <3>2
    <3> QED BY <1>5, <2>1, <3>1, <3>2
  <2>2. state'[o] >= EXCHANGE => \A a \in Router : headers'[o][a] <= lsdb'[o[1]][a]
    BY <1>6, <1>7 DEF SendsItsOwn
  <2>3. ASSUME state'[o] >= EXCHANGE, state'[e] <= EXCHANGE,
               NEW u \in LateUpdates(chan'[o]), NEW a \in Router
        PROVE  u[a] = None \/ headers'[o][a] <= u[a]
    <3>1. CASE u \in LateUpdates(chan[o])
      BY <1>6, <1>7, <2>3, <3>1 DEF SendsItsOwn
    <3>2. CASE u = new /\ o = p
      <4>1. ids = {}
        BY <1>1, <1>6, <1>8, <2>3, <3>2 DEF DataTypes
      <4> QED BY <1>4, <3>2, <4>1
    <3> QED BY <1>6, <2>3, <3>1, <3>2
  <2> QED BY <2>1, <2>2, <2>3 DEF SendsItsOwn, Reverse
<1>13. AsksForNewer(o)'
  <2>1. ASSUME NEW a \in requests'[o]
        PROVE  /\ lsdb'[o[1]][a] < lsdb'[o[2]][a]
               /\ Asked(o, a)'
               /\ \A u \in OnWay(e)' : u[a] = None \/ lsdb'[o[1]][a] < u[a]
    <3>1. /\ a \in requests[o] /\ a \in Router /\ lsdb[o[1]][a] < lsdb[o[2]][a]
          /\ Asked(o, a)
          /\ \A u \in OnWay(e) : u[a] = None \/ lsdb[o[1]][a] < u[a]
      BY <1>6, <1>7, <2>1 DEF AsksForNewer, DataTypes
    <3>2. ASSUME NEW u \in OnWay(e)' PROVE u[a] = None \/ lsdb[o[1]][a] < u[a]
      <4>1. CASE u \in OnWay(e)
        BY <3>1, <4>1
      <4>2. CASE u = new /\ e = p
        BY <1>4, <1>11, <3>1, <4>2
      <4> QED BY <1>5, <1>11, <3>2, <4>1, <4>2
    <3> QED BY <1>6, <1>10, <3>1, <3>2
  <2>2. /\ state'[o] # LOADING => requests'[o] = {}
        /\ Requested(chan'[o]) # {} => state'[o] >= LOADING
        /\ Requested(chan'[o]) \subseteq Held(lsdb'[o[2]])
    BY <1>6, <1>7 DEF AsksForNewer
  <2> QED BY <2>1, <2>2 DEF AsksForNewer, Reverse
<1>14. CatchingUp(o)'
  <2> SUFFICES ASSUME state'[o] >= EXCHANGE, NEW a \in Router
               PROVE  WillCatchUp(o, a)'
    BY DEF CatchingUp
  <2>1. WillCatchUp(o, a)
    BY <1>6, <1>7 DEF CatchingUp
  <2>2. CASE lsdb[o[1]][a] <= lsdb[o[2]][a]
    BY <1>6, <2>2 DEF WillCatchUp
  <2>3. CASE state[e] <= EXCHANGE /\ lsdb[o[1]][a] <= headers[o][a]
    BY <1>6, <2>3 DEF WillCatchUp, Reverse
  <2>4. CASE \E u \in Due(o) : lsdb[o[1]][a] <= u[a]
    <3>1. Due(o) \subseteq Due(o)'
      BY <1>5, <1>6 DEF Due, Reverse
    <3> QED BY <1>6, <2>4, <3>1 DEF WillCatchUp
  <2>5. CASE a \in Requested(chan[e])
    <3>1. CASE a \in Requested(chan'[e])
      BY <3>1 DEF WillCatchUp, Reverse
    <3>2. CASE a \notin Requested(chan'[e])
      <4>1. e = q /\ a \in ids
        BY <1>6, <1>11, <2>5, <3>2
      <4>2. o = p
        BY <1>1, <1>11, <4>1
      <4>3. new \in Due(o)'
        BY <1>9, <4>2 DEF Due
      <4>4. lsdb'[o[1]][a] <= new[a]
        BY <1>1, <1>3, <1>4, <1>6, <4>1, <4>2
      <4> QED BY <4>3, <4>4 DEF WillCatchUp
    <3> QED BY <3>1, <3>2
  <2>6. CASE Asked(o, a)
    BY <1>10, <2>6 DEF WillCatchUp
  <2> QED BY <2>1, <2>2, <2>3, <2>4, <2>5, <2>6 DEF WillCatchUp
<1> QED BY <1>12, <1>13, <1>14

-----------------------------------------------------------------------------
(* How far the exchange of a pair has come, for the master x and the       *)
(* slave y, and the description packets that are on the way.               *)

(* The initial packet, and the one with a router's summary.                *)
First == InitialDD(1)
Summary(p, master, seq) == DD(0, master, seq, headers[p])

(* The router is not in the exchange yet.                                  *)
Opening(p) ==
  /\ state[p] <= EX_START
  /\ state[p] <= INIT => ddSeq[p] = 0 /\ DDs(chan[p]) = {}
  /\ state[p] > INIT => ddSeq[p] = 1 /\ ms[p] = 1
  /\ DDs(chan[p]) \subseteq {First}

(* The slave has sent its summary, the master has not had it.              *)
SlaveInExchange(x, y) ==
  /\ state[x] = EX_START /\ ddSeq[x] = 1 /\ ms[x] = 1
  /\ state[y] = EXCHANGE /\ ddSeq[y] = 1 /\ ms[y] = 0
  /\ DDs(chan[x]) = {}
  /\ DDs(chan[y]) \subseteq {First, Summary(y, 0, 1)}
  /\ Summary(y, 0, 1) \in DDs(chan[y])

(* The master has, and its own is on the way.                              *)
BothInExchange(x, y) ==
  /\ state[x] = EXCHANGE /\ ddSeq[x] = 2 /\ ms[x] = 1
  /\ state[y] = EXCHANGE /\ ddSeq[y] = 1 /\ ms[y] = 0
  /\ DDs(chan[x]) \subseteq {Summary(x, 1, 2)}
  /\ DDs(chan[y]) = {}

(* The slave has had it, and its last answer is on the way.                *)
SlaveDone(x, y) ==
  /\ state[x] = EXCHANGE /\ ddSeq[x] = 2 /\ ms[x] = 1
  /\ state[y] >= LOADING
  /\ DDs(chan[x]) = {}
  /\ DDs(chan[y]) \subseteq {Summary(y, 0, 2)}

(* The description packets have done their work.                           *)
BothDone(x, y) ==
  /\ state[x] >= LOADING /\ state[y] >= LOADING
  /\ DDs(chan[x]) = {} /\ DDs(chan[y]) = {}

InPhase(x, y) ==
  \/ Opening(x) /\ Opening(y)
  \/ SlaveInExchange(x, y)
  \/ BothInExchange(x, y)
  \/ SlaveDone(x, y)
  \/ BothDone(x, y)

(* Two-way is two-way: the neighbour knows the router, and both know that  *)
(* the link is up.                                                         *)
Mutual(p) ==
  /\ p[2] \in upLinks[p[1]]
  /\ state[p] >= TWO_WAY => /\ state[p] >= EX_START
                            /\ p[1] \in nbrList[p[2]]
                            /\ p[2] \in adjList[p[1]]

(* The invariant about the phases.                                         *)
InOrderOfPhases ==
  /\ now = 0
  /\ \A p \in Pair : OnePerTurn(chan[p]) /\ Mutual(p)
  /\ \A p \in Leading : InPhase(p, Reverse(p))

-----------------------------------------------------------------------------
(* What a step leaves on a link.                                           *)

(* A link after a step, the packet taken and those sent.                   *)
LEMMA LinkAfter ==
  ASSUME TypeOK, NEW q, q \in Pair => chan[q] # <<>>, NEW out, Transmit(q, out),
         NEW o \in Pair
  PROVE  /\ Left(q, o) \in Seq(Message)
         /\ o # q => Left(q, o) = chan[o]
         /\ o = q => Left(q, o) = Tail(chan[o])
         /\ out[o] = <<>> => chan'[o] = Left(q, o)
         /\ \A d \in Seq(Message) : out[o] = d =>
              /\ DDs(chan'[o]) = DDs(Left(q, o)) \cup DDs(d)
              /\ Updates(chan'[o]) = Updates(Left(q, o)) \cup Updates(d)
              /\ Requested(chan'[o]) = Requested(Left(q, o)) \cup Requested(d)
              /\ LateUpdates(chan'[o]) = LateUpdates(d) \cup
                   (IF DDs(d) = {} THEN LateUpdates(Left(q, o)) ELSE {})
              /\ OnePerTurn(chan'[o]) <=>
                   /\ OnePerTurn(Left(q, o)) /\ OnePerTurn(d)
                   /\ \A k \in DDs(Left(q, o)), l \in DDs(d) : k.I = 1 /\ l.I = 0
<1> DEFINE c == Left(q, o)
<1>1. c \in Seq(Message)
  BY LeftOnLink
<1>2. chan'[o] = c \o out[o]
  BY DEF Transmit, Left
<1>3. (o # q => c = chan[o]) /\ (o = q => c = Tail(chan[o]))
  BY DEF Left
<1> HIDE DEF c
<1>4. out[o] = <<>> => chan'[o] = c
  BY <1>1, <1>2, ConcatEmptySeq
<1>5. \A d \in Seq(Message) : out[o] = d =>
        /\ DDs(chan'[o]) = DDs(c) \cup DDs(d)
        /\ Updates(chan'[o]) = Updates(c) \cup Updates(d)
        /\ Requested(chan'[o]) = Requested(c) \cup Requested(d)
        /\ LateUpdates(chan'[o]) = LateUpdates(d) \cup
             (IF DDs(d) = {} THEN LateUpdates(c) ELSE {})
        /\ OnePerTurn(chan'[o]) <=>
             /\ OnePerTurn(c) /\ OnePerTurn(d)
             /\ \A k \in DDs(c), l \in DDs(d) : k.I = 1 /\ l.I = 0
  BY <1>1, <1>2, ConcatQueues
<1> QED BY <1>1, <1>3, <1>4, <1>5 DEF c

(* A step leaves what counts on the link as it was.                        *)
Untouched(o) ==
  /\ DDs(chan'[o]) = DDs(chan[o])
  /\ Updates(chan'[o]) = Updates(chan[o])
  /\ LateUpdates(chan'[o]) = LateUpdates(chan[o])
  /\ Requested(chan'[o]) = Requested(chan[o])
  /\ OnePerTurn(chan[o]) => OnePerTurn(chan'[o])

(* Hellos and acknowledgements.                                            *)
Inert == {m \in Message : m.type \in {"HELLO", "ACK"}}

(* They carry nothing that counts,                                         *)
LEMMA InertQueue ==
  ASSUME NEW d, d = <<>> \/ \E m \in Inert : d = <<m>>
  PROVE  /\ d \in Seq(Message) /\ DDs(d) = {} /\ Updates(d) = {}
         /\ LateUpdates(d) = {} /\ Requested(d) = {} /\ OnePerTurn(d)
<1>1. CASE d = <<>>
  BY <1>1, NoQueue
<1>2. ASSUME NEW m \in Inert, d = <<m>>
      PROVE  /\ d \in Seq(Message) /\ DDs(d) = {} /\ Updates(d) = {}
             /\ LateUpdates(d) = {} /\ Requested(d) = {} /\ OnePerTurn(d)
  <2>1. m \in Message /\ m.type \notin {"DD", "UPDATE", "REQUEST"}
    BY DEF Inert
  <2> QED BY <1>2, <2>1, SingleQueue
<1> QED BY <1>1, <1>2

(* taking one leaves what counts as it was,                                *)
LEMMA InertHead ==
  ASSUME TypeOK, NEW q, q \in Pair =>
           chan[q] # <<>> /\ Head(chan[q]).type \in {"HELLO", "ACK"},
         NEW o \in Pair
  PROVE  /\ DDs(Left(q, o)) = DDs(chan[o])
         /\ Updates(Left(q, o)) = Updates(chan[o])
         /\ LateUpdates(Left(q, o)) = LateUpdates(chan[o])
         /\ Requested(Left(q, o)) = Requested(chan[o])
         /\ OnePerTurn(chan[o]) => OnePerTurn(Left(q, o))
<1>1. CASE o # q
  BY <1>1 DEF Left
<1>2. CASE o = q
  <2>1. chan[o] \in Seq(Message) /\ chan[o] # <<>>
        /\ Head(chan[o]).type \notin {"DD", "UPDATE", "REQUEST"}
    BY <1>2 DEF TypeOK
  <2>2. Left(q, o) = Tail(chan[o])
    BY <1>2 DEF Left
  <2> QED BY <2>1, <2>2, HeadOfQueue
<1> QED BY <1>1, <1>2

(* and so does sending one.                                                *)
LEMMA InertLink ==
  ASSUME TypeOK, NEW q, q \in Pair =>
           chan[q] # <<>> /\ Head(chan[q]).type \in {"HELLO", "ACK"},
         NEW out, Transmit(q, out),
         NEW o \in Pair, out[o] = <<>> \/ \E m \in Inert : out[o] = <<m>>
  PROVE  Untouched(o)
<1>1. /\ out[o] \in Seq(Message) /\ DDs(out[o]) = {} /\ Updates(out[o]) = {}
      /\ LateUpdates(out[o]) = {} /\ Requested(out[o]) = {} /\ OnePerTurn(out[o])
  BY InertQueue
<1>2. /\ DDs(chan'[o]) = DDs(Left(q, o)) \cup DDs(out[o])
      /\ Updates(chan'[o]) = Updates(Left(q, o)) \cup Updates(out[o])
      /\ Requested(chan'[o]) = Requested(Left(q, o)) \cup Requested(out[o])
      /\ LateUpdates(chan'[o]) = LateUpdates(out[o]) \cup
           (IF DDs(out[o]) = {} THEN LateUpdates(Left(q, o)) ELSE {})
      /\ OnePerTurn(chan'[o]) <=>
           /\ OnePerTurn(Left(q, o)) /\ OnePerTurn(out[o])
           /\ \A k \in DDs(Left(q, o)), l \in DDs(out[o]) : k.I = 1 /\ l.I = 0
  BY <1>1, LinkAfter
<1> QED BY <1>1, <1>2, InertHead DEF Untouched

(* A link nothing is taken from or sent on.                                *)
LEMMA UnusedLink ==
  ASSUME TypeOK, NEW q, q \in Pair => chan[q] # <<>>, NEW out, Transmit(q, out),
         NEW o \in Pair, o # q, out[o] = <<>>
  PROVE  Untouched(o) /\ chan'[o] = chan[o]
<1>1. chan'[o] = chan[o]
  BY LinkAfter
<1> QED BY <1>1 DEF Untouched

-----------------------------------------------------------------------------
(* The parts of a step.                                                    *)

PhaseTypes ==
  /\ state \in [Pair -> DOWN..FULL]
  /\ state' \in [Pair -> DOWN..FULL]
  /\ ms \in [Pair -> {0, 1}]
  /\ ddSeq \in [Pair -> Nat]
  /\ headers \in [Pair -> Database]
  /\ requests \in [Pair -> SUBSET Router]
  /\ lsdb \in [Router -> Database]
  /\ nbrList \in [Router -> SUBSET Router]
  /\ adjList \in [Router -> SUBSET Router]
  /\ upLinks \in [Router -> SUBSET Router]

(* All that is known of a state and of the types of the next.              *)
Coherent ==
  /\ TypeOK /\ PhaseTypes
  /\ HeardNeighbours /\ InstancesAreMade /\ InHandInExchange
  /\ InOrderOfPhases /\ Synchronising

(* A step is of one of the four kinds.                                     *)
DataMoves ==
  \/ Idle
  \/ \E r \in Router, a \in Router, P \in SUBSET Pair : Advances(r, a, P)
  \/ \E p \in Pair : Summarised(p)
  \/ \E p \in Pair : \E ids \in SUBSET Router : Supplies(p, ids)

(* A step leaves the router in its phase.                                  *)
Steady(o) ==
  /\ ddSeq'[o] = ddSeq[o] /\ ms'[o] = ms[o] /\ headers'[o] = headers[o]
  /\ DDs(chan'[o]) = DDs(chan[o])
  /\ OnePerTurn(chan[o]) => OnePerTurn(chan'[o])
  /\ \/ state'[o] = state[o]
     \/ state[o] <= INIT /\ state'[o] <= INIT
     \/ state[o] >= LOADING /\ state'[o] >= LOADING

(* No router, neighbour or link is forgotten.                              *)
Remembered ==
  /\ now' = now
  /\ \A p \in Pair :
       /\ p[2] \in upLinks[p[1]] => p[2] \in upLinks'[p[1]]
       /\ p[1] \in nbrList[p[2]] => p[1] \in nbrList'[p[2]]
       /\ p[2] \in adjList[p[1]] => p[2] \in adjList'[p[1]]

(* A pair whose routers stay in their phase stays in its own.              *)
LEMMA SteadyPhase ==
  ASSUME PhaseTypes, NEW x \in Pair, NEW y \in Pair, InPhase(x, y),
         Steady(x), Steady(y)
  PROVE  InPhase(x, y)'
<1>1. /\ state[x] \in DOWN..FULL /\ state[y] \in DOWN..FULL
      /\ state'[x] \in DOWN..FULL /\ state'[y] \in DOWN..FULL
  BY DEF PhaseTypes
<1>2. CASE Opening(x) /\ Opening(y)
  <2>1. Opening(x)'
    BY <1>1, <1>2 DEF Opening, Steady
  <2>2. Opening(y)'
    BY <1>1, <1>2 DEF Opening, Steady
  <2> QED BY <2>1, <2>2 DEF InPhase
<1>3. CASE SlaveInExchange(x, y)
  BY <1>1, <1>3 DEF InPhase, SlaveInExchange, Steady, Summary
<1>4. CASE BothInExchange(x, y)
  BY <1>1, <1>4 DEF InPhase, BothInExchange, Steady, Summary
<1>5. CASE SlaveDone(x, y)
  BY <1>1, <1>5 DEF InPhase, SlaveDone, Steady, Summary
<1>6. CASE BothDone(x, y)
  BY <1>1, <1>6 DEF InPhase, BothDone, Steady
<1> QED BY <1>2, <1>3, <1>4, <1>5, <1>6 DEF InPhase

LEMMA SteadyMutual ==
  ASSUME PhaseTypes, Remembered, NEW p \in Pair, Mutual(p), Steady(p)
  PROVE  Mutual(p)'
<1>1. state[p] \in DOWN..FULL /\ state'[p] \in DOWN..FULL
  BY DEF PhaseTypes
<1>2. state'[p] >= TWO_WAY => state[p] >= TWO_WAY
  BY <1>1 DEF Steady
<1>3. state'[p] >= TWO_WAY /\ state[p] >= EX_START => state'[p] >= EX_START
  BY <1>1 DEF Steady
<1> QED BY <1>2, <1>3 DEF Mutual, Remembered

(* A step that only moves one pair on keeps the phases,                    *)
LEMMA PhasesKept ==
  ASSUME PhaseTypes, InOrderOfPhases, Remembered, NEW p \in Pair,
         \A o \in Pair : o # p /\ o # Reverse(p) => Steady(o),
         Mutual(p)', Mutual(Reverse(p))',
         OnePerTurn(chan'[p]), OnePerTurn(chan'[Reverse(p)]),
         p \in Leading => InPhase(p, Reverse(p))',
         Reverse(p) \in Leading => InPhase(Reverse(p), p)'
  PROVE  InOrderOfPhases'
<1>1. now' = 0
  BY DEF InOrderOfPhases, Remembered
<1>2. ASSUME NEW o \in Pair PROVE OnePerTurn(chan'[o]) /\ Mutual(o)'
  <2>1. CASE o # p /\ o # Reverse(p)
    BY <2>1, SteadyMutual DEF InOrderOfPhases, Steady
  <2> QED BY <2>1
<1>3. ASSUME NEW l \in Leading PROVE InPhase(l, Reverse(l))'
  <2>1. l \in Pair /\ Reverse(l) \in Pair /\ Reverse(Reverse(l)) = l
        /\ Reverse(Reverse(p)) = p
    BY PairEnds DEF Leading
  <2>2. CASE l # p /\ l # Reverse(p)
    <3>1. Steady(l) /\ Steady(Reverse(l))
      BY <2>1, <2>2
    <3> QED BY <2>1, <3>1, SteadyPhase DEF InOrderOfPhases
  <2>3. CASE l = p
    BY <2>3
  <2>4. CASE l = Reverse(p)
    BY <2>1, <2>4
  <2> QED BY <2>2, <2>3, <2>4
<1>4. \A l \in Leading : InPhase(l, Reverse(l))'
  BY <1>3
<1> QED BY <1>1, <1>2, <1>4 DEF InOrderOfPhases, Reverse

(* and so does one that moves none.                                        *)
LEMMA AllSteady ==
  ASSUME PhaseTypes, InOrderOfPhases, Remembered, \A o \in Pair : Steady(o)
  PROVE  InOrderOfPhases'
<1>1. now' = 0
  BY DEF InOrderOfPhases, Remembered
<1>2. ASSUME NEW o \in Pair PROVE OnePerTurn(chan'[o]) /\ Mutual(o)'
  BY SteadyMutual DEF InOrderOfPhases, Steady
<1>3. ASSUME NEW l \in Leading PROVE InPhase(l, Reverse(l))'
  <2>1. l \in Pair /\ Reverse(l) \in Pair
    BY PairEnds DEF Leading
  <2> QED BY <2>1, SteadyPhase DEF InOrderOfPhases
<1> QED BY <1>1, <1>2, <1>3 DEF InOrderOfPhases, Reverse

(* Nothing happens to the link, and the state stays what it was or INIT.   *)
LEMMA StillIsIdle ==
  ASSUME PhaseTypes, NEW o \in Pair, AsksForNewer(o), Untouched(o),
         headers'[o] = headers[o], OnWay(o)' = OnWay(o),
         state'[o] = state[o] \/ (state[o] <= INIT /\ state'[o] <= INIT)
  PROVE  IdleAt(o)
<1>1. state[o] \in DOWN..FULL /\ state'[o] \in DOWN..FULL
  BY DEF PhaseTypes
<1>2. requests[o] # {} => state[o] = LOADING
  BY DEF AsksForNewer
<1> QED BY <1>1, <1>2 DEF IdleAt, Untouched

LEMMA UntouchedIsSteady ==
  ASSUME NEW o, Untouched(o),
         ddSeq'[o] = ddSeq[o], ms'[o] = ms[o], headers'[o] = headers[o],
         \/ state'[o] = state[o]
         \/ state[o] <= INIT /\ state'[o] <= INIT
         \/ state[o] >= LOADING /\ state'[o] >= LOADING
  PROVE  Steady(o)
BY DEF Untouched, Steady

LEMMA SameOnWay ==
  ASSUME UNCHANGED rx, NEW o, Untouched(o)
  PROVE  OnWay(o)' = OnWay(o)
BY DEF OnWay, Untouched, Reverse

(* Nothing happens to any link.                                            *)
LEMMA QuietStep ==
  ASSUME Coherent, Remembered, UNCHANGED <<ddSeq, ms, headers, requests, lsdb, rx>>,
         \A o \in Pair : Untouched(o),
         \A o \in Pair : \/ state'[o] = state[o]
                         \/ state[o] <= INIT /\ state'[o] <= INIT
  PROVE  InOrderOfPhases' /\ DataMoves
<1>1. \A o \in Pair : Steady(o)
  BY UntouchedIsSteady
<1>2. \A o \in Pair : IdleAt(o)
  BY StillIsIdle, SameOnWay DEF Coherent, Synchronising
<1> QED BY <1>1, <1>2, AllSteady DEF Coherent, DataMoves, Idle

-----------------------------------------------------------------------------
(* A packet is taken from q and others are sent on p.                      *)

LEMMA TakesAndSends ==
  ASSUME TypeOK, NEW p \in Pair, NEW q, p # q, q \in Pair => chan[q] # <<>>,
         NEW out, Transmit(q, out), out[p] \in Seq(Message),
         \A o \in Pair : o # p => out[o] = <<>>
  PROVE  /\ \A o \in Pair : o # p /\ o # q => Untouched(o) /\ chan'[o] = chan[o]
         /\ q \in Pair => chan'[q] = Tail(chan[q])
         /\ DDs(chan'[p]) = DDs(chan[p]) \cup DDs(out[p])
         /\ Updates(chan'[p]) = Updates(chan[p]) \cup Updates(out[p])
         /\ Requested(chan'[p]) = Requested(chan[p]) \cup Requested(out[p])
         /\ LateUpdates(chan'[p]) = LateUpdates(out[p]) \cup
              (IF DDs(out[p]) = {} THEN LateUpdates(chan[p]) ELSE {})
         /\ OnePerTurn(chan'[p]) <=>
              /\ OnePerTurn(chan[p]) /\ OnePerTurn(out[p])
              /\ \A k \in DDs(chan[p]), l \in DDs(out[p]) : k.I = 1 /\ l.I = 0
<1>1. \A o \in Pair : o # p /\ o # q => Untouched(o) /\ chan'[o] = chan[o]
  BY UnusedLink
<1>2. ASSUME q \in Pair PROVE chan'[q] = Tail(chan[q])
  <2>1. out[q] = <<>> /\ (out[q] = <<>> => chan'[q] = Left(q, q))
    BY <1>2, LinkAfter
  <2> QED BY <2>1 DEF Left
<1> DEFINE c == chan[p]
           d == out[p]
           e == chan'[p]
<1>3. c \in Seq(Message) /\ d \in Seq(Message) /\ e = c \o d
  BY DEF Transmit, TypeOK
<1> HIDE DEF c, d, e
<1>4. /\ DDs(e) = DDs(c) \cup DDs(d)
      /\ Updates(e) = Updates(c) \cup Updates(d)
      /\ Requested(e) = Requested(c) \cup Requested(d)
      /\ LateUpdates(e) = LateUpdates(d) \cup
           (IF DDs(d) = {} THEN LateUpdates(c) ELSE {})
      /\ OnePerTurn(e) <=>
           /\ OnePerTurn(c) /\ OnePerTurn(d)
           /\ \A k \in DDs(c), l \in DDs(d) : k.I = 1 /\ l.I = 0
  BY <1>3, ConcatQueues
<1> QED BY <1>1, <1>2, <1>4 DEF c, d, e

(* What counts on a link that a packet is taken from.                      *)
LEMMA TakesHead ==
  ASSUME TypeOK, NEW q \in Pair, chan[q] # <<>>, chan'[q] = Tail(chan[q])
  PROVE  LET m == Head(chan[q]) IN
         /\ m \in Message
         /\ DDs(chan[q]) = DDs(chan'[q]) \cup (IF m.type = "DD" THEN {m} ELSE {})
         /\ Updates(chan[q]) = Updates(chan'[q])
              \cup (IF m.type = "UPDATE" THEN {m.lsas} ELSE {})
         /\ Requested(chan[q]) = Requested(chan'[q])
              \cup (IF m.type = "REQUEST" THEN m.ids ELSE {})
         /\ LateUpdates(chan[q]) = LateUpdates(chan'[q]) \cup
              (IF m.type = "UPDATE" /\ DDs(chan'[q]) = {} THEN {m.lsas} ELSE {})
         /\ OnePerTurn(chan[q]) =>
              /\ OnePerTurn(chan'[q])
              /\ m.type = "DD" => \A l \in DDs(chan'[q]) : m.I = 1 /\ l.I = 0
<1>1. chan[q] \in Seq(Message)
  BY DEF TypeOK
<1> QED BY <1>1, HeadOfQueue

(* A router that stays below EXCHANGE, and a link that keeps what counts.  *)
LEMMA BelowIsIdle ==
  ASSUME PhaseTypes, NEW o \in Pair, AsksForNewer(o),
         state[o] < EXCHANGE, state'[o] < EXCHANGE,
         Requested(chan'[o]) = Requested(chan[o]), OnWay(o)' = OnWay(o),
         LateUpdates(chan'[o]) \subseteq LateUpdates(chan[o])
  PROVE  IdleAt(o)
<1>1. state[o] \in DOWN..FULL /\ state'[o] \in DOWN..FULL
  BY DEF PhaseTypes
<1>2. requests[o] # {} => state[o] = LOADING
  BY DEF AsksForNewer
<1> QED BY <1>1, <1>2 DEF IdleAt

(* A router that stays in its state, likewise.                             *)
LEMMA SameIsIdle ==
  ASSUME PhaseTypes, NEW o \in Pair,
         state'[o] = state[o], headers'[o] = headers[o],
         Requested(chan'[o]) = Requested(chan[o]), OnWay(o)' = OnWay(o),
         LateUpdates(chan'[o]) = LateUpdates(chan[o])
  PROVE  IdleAt(o)
<1>1. state[o] \in DOWN..FULL /\ state'[o] \in DOWN..FULL
  BY DEF PhaseTypes
<1> QED BY <1>1 DEF IdleAt

(* Of a pair one is the master, and what is below EX_START is opening.     *)
LEMMA PhaseOfPair ==
  ASSUME PhaseTypes, InOrderOfPhases, NEW p \in Pair
  PROVE  /\ p \in Leading =>
          InPhase(p, Reverse(p)) /\ p[1] > p[2] /\ Reverse(p) \notin Leading
         /\ p \notin Leading =>
              InPhase(Reverse(p), p) /\ p[1] < p[2] /\ Reverse(p) \in Leading
         /\ state[p] < EX_START => Opening(p) /\ Opening(Reverse(p))
         /\ state[p] <= EX_START => Opening(p)
              \/ (p \in Leading /\ SlaveInExchange(p, Reverse(p)))
<1>1. /\ Reverse(p) \in Pair /\ Reverse(Reverse(p)) = p
      /\ Reverse(p)[1] = p[2] /\ Reverse(p)[2] = p[1]
      /\ p[1] # p[2] /\ p[1] \in Nat /\ p[2] \in Nat
  BY PairEnds
<1>2. /\ p \in Leading =>
           InPhase(p, Reverse(p)) /\ p[1] > p[2] /\ Reverse(p) \notin Leading
      /\ p \notin Leading =>
           InPhase(Reverse(p), p) /\ p[1] < p[2] /\ Reverse(p) \in Leading
  BY <1>1 DEF Leading, InOrderOfPhases
<1>3. state[p] \in DOWN..FULL /\ state[Reverse(p)] \in DOWN..FULL
  BY <1>1 DEF PhaseTypes
<1>4. state[p] < EX_START => Opening(p) /\ Opening(Reverse(p))
  BY <1>2, <1>3 DEF InPhase, SlaveInExchange, BothInExchange, SlaveDone, BothDone
<1>5. state[p] <= EX_START => Opening(p)
              \/ (p \in Leading /\ SlaveInExchange(p, Reverse(p)))
  BY <1>2, <1>3 DEF InPhase, SlaveInExchange, BothInExchange, SlaveDone, BothDone
<1> QED BY <1>2, <1>4, <1>5

-----------------------------------------------------------------------------
(* Hellos.                                                                 *)

(* Each hello action keeps the phases and moves no data.                   *)
LEMMA HelloSent ==
  ASSUME Coherent, NEW r \in Router, SendHellos(r)
  PROVE  InOrderOfPhases' /\ DataMoves
<1> DEFINE out == ToEach({<<r, n>> : n \in Neighbours(r)}, Hello)
<1>1. TypeOK /\ <<>> \notin Pair /\ Transmit(<<>>, out)
  BY NoEmptyPair DEF Coherent, SendHellos
<1>2. ASSUME NEW o \in Pair PROVE Untouched(o)
  <2>1. Hello \in Inert
    BY MessageMade DEF Inert, Hello
  <2>2. out[o] = <<>> \/ out[o] = <<Hello>>
    BY DEF ToEach
  <2> HIDE DEF out
  <2> QED BY <1>1, <2>1, <2>2, InertLink
<1>3. ASSUME NEW o \in Pair
      PROVE  state'[o] = state[o] \/ (state[o] <= INIT /\ state'[o] <= INIT)
  BY DEF SendHellos
<1>4. Remembered
  BY DEF SendHellos, Remembered, ownVars
<1>5. UNCHANGED <<ddSeq, ms, headers, requests, lsdb, rx>>
  BY DEF SendHellos, ownVars
<1> QED BY <1>2, <1>3, <1>4, <1>5, QuietStep

(* The link is up, so a hello floods nothing.                              *)
LEMMA HelloTaken ==
  ASSUME Coherent, NEW r, NEW n, <<r, n>> \in Pair, HeardFrom(r, n),
         Arrived(r, n, "HELLO")
  PROVE  /\ <<n, r>> \in Pair /\ <<n, r>> # <<r, n>> /\ Reverse(<<r, n>>) = <<n, r>>
         /\ chan[<<n, r>>] # <<>> /\ Head(chan[<<n, r>>]).type = "HELLO"
         /\ UNCHANGED <<lsdb, upLinks, rx, now>> /\ UpFlood(r, n) = {}
         /\ \A p \in Pair : p[1] \in nbrList[p[2]] => p[1] \in nbrList'[p[2]]
         /\ r \in Router /\ n \in Router
<1>1. <<n, r>> \in Pair /\ <<n, r>> # <<r, n>> /\ Reverse(<<r, n>>) = <<n, r>>
      /\ r \in Router /\ n \in Router
  BY PairReverse, PairType DEF Reverse
<1>2. n \in upLinks[r] /\ upLinks \in [Router -> SUBSET Router]
      /\ nbrList \in [Router -> SUBSET Router]
  BY DEF Coherent, InOrderOfPhases, Mutual, PhaseTypes
<1>3. ~LinkUp(r, n)
  BY <1>2 DEF LinkUp
<1>4. upLinks' = upLinks
  <2>1. upLinks' = [upLinks EXCEPT ![r] = @ \cup {n}]
    BY DEF HeardFrom
  <2>2. upLinks[r] \cup {n} = upLinks[r]
    BY <1>2
  <2> QED BY <1>1, <1>2, <2>1, <2>2
<1>5. UNCHANGED <<lsdb, rx, now>> /\ UpFlood(r, n) = {}
  BY <1>3 DEF HeardFrom, UpFlood
<1>6. nbrList' = [nbrList EXCEPT ![r] = @ \cup {n}]
  BY DEF HeardFrom
<1>7. \A p \in Pair : p[1] \in nbrList[p[2]] => p[1] \in nbrList'[p[2]]
  BY <1>2, <1>6, PairIsTuple
<1> QED BY <1>1, <1>4, <1>5, <1>7 DEF Arrived

LEMMA HelloOneWay ==
  ASSUME Coherent, NEW r, NEW n, <<r, n>> \in Pair, ReceiveHelloOneWay(r, n)
  PROVE  InOrderOfPhases' /\ DataMoves
<1> DEFINE p == <<r, n>>
           q == <<n, r>>
           out == ToEach(UpFlood(r, n), Update(Only(r, NextOwn(r))))
<1>1. Arrived(r, n, "HELLO") /\ HeardFrom(r, n) /\ r \notin nbrList[n]
  BY DEF ReceiveHelloOneWay
<1>2. /\ q \in Pair /\ q # p /\ chan[q] # <<>> /\ Head(chan[q]).type = "HELLO"
      /\ UNCHANGED <<lsdb, upLinks, rx, now>> /\ UpFlood(r, n) = {}
      /\ \A o \in Pair : o[1] \in nbrList[o[2]] => o[1] \in nbrList'[o[2]]
  BY <1>1, HelloTaken
<1>3. state[p] \in DOWN..FULL /\ state[p] < TWO_WAY /\ state \in [Pair -> DOWN..FULL]
  BY <1>1 DEF Coherent, PhaseTypes, InOrderOfPhases, Mutual
<1>4. /\ state' = [state EXCEPT ![p] = INIT]
      /\ UNCHANGED <<headers, requests, adjList, ms, ddSeq>>
      /\ Transmit(q, out)
  BY <1>3 DEF ReceiveHelloOneWay
<1>5. ASSUME NEW o \in Pair PROVE Untouched(o)
  <2>1. out[o] = <<>>
    BY <1>2 DEF ToEach
  <2> HIDE DEF out
  <2> QED BY <1>2, <1>4, <2>1, InertLink DEF Coherent
<1>6. ASSUME NEW o \in Pair
      PROVE  state'[o] = state[o] \/ (state[o] <= INIT /\ state'[o] <= INIT)
  BY <1>3, <1>4
<1>7. Remembered
  BY <1>2, <1>4 DEF Remembered
<1> QED BY <1>2, <1>4, <1>5, <1>6, <1>7, QuietStep

LEMMA HelloTwoWay ==
  ASSUME Coherent, NEW r, NEW n, <<r, n>> \in Pair, ReceiveHelloTwoWay(r, n)
  PROVE  InOrderOfPhases' /\ DataMoves
<1> DEFINE p == <<r, n>>
           q == <<n, r>>
           starts == state[p] <= INIT
           first == IncDDseq(ddSeq[p])
           out == [o \in Pair |->
                    IF o = p /\ starts THEN <<InitialDD(first)>>
                    ELSE ToEach(UpFlood(r, n), Update(Only(r, NextOwn(r))))[o]]
<1>1. Arrived(r, n, "HELLO") /\ HeardFrom(r, n) /\ r \in nbrList[n]
  BY DEF ReceiveHelloTwoWay
<1>2. /\ q \in Pair /\ q # p /\ chan[q] # <<>> /\ Head(chan[q]).type = "HELLO"
      /\ UNCHANGED <<lsdb, upLinks, rx, now>> /\ UpFlood(r, n) = {}
      /\ \A o \in Pair : o[1] \in nbrList[o[2]] => o[1] \in nbrList'[o[2]]
      /\ r \in Router /\ n \in Router /\ Reverse(p) = q /\ Reverse(q) = p
  BY <1>1, HelloTaken DEF Reverse
<1>3. /\ adjList' = [adjList EXCEPT ![r] = @ \cup {n}]
      /\ UNCHANGED <<headers, requests>> /\ Transmit(q, out)
  BY DEF ReceiveHelloTwoWay
<1>4. /\ state \in [Pair -> DOWN..FULL] /\ adjList \in [Router -> SUBSET Router]
      /\ ddSeq \in [Pair -> Nat] /\ ms \in [Pair -> {0, 1}] /\ TypeOK
      /\ PhaseTypes /\ InOrderOfPhases
  BY DEF Coherent, PhaseTypes
<1>5. Remembered
  <2>1. \A o \in Pair : o[2] \in adjList[o[1]] => o[2] \in adjList'[o[1]]
    BY <1>2, <1>3, <1>4, PairIsTuple
  <2> QED BY <1>2, <2>1 DEF Remembered
<1>6. \A o \in Pair :
        out[o] = IF o = p /\ starts THEN <<InitialDD(first)>> ELSE <<>>
  BY <1>2 DEF ToEach
<1> HIDE DEF out
<1>7. CASE ~starts
  <2>1. UNCHANGED <<state, ddSeq, ms>>
    BY <1>7 DEF ReceiveHelloTwoWay
  <2>2. \A o \in Pair : Untouched(o)
    BY <1>2, <1>3, <1>4, <1>6, <1>7, InertLink
  <2> QED BY <1>2, <1>3, <1>5, <2>1, <2>2, QuietStep
<1>8. CASE starts
  <2>1. Opening(p) /\ Opening(q)
    <3>1. state[p] < EX_START
      BY <1>4, <1>8
    <3> QED BY <1>2, <1>4, <3>1, PhaseOfPair
  <2>2. ddSeq[p] = 0 /\ DDs(chan[p]) = {} /\ first = 1 /\ state[p] <= INIT
    BY <1>4, <1>8, <2>1 DEF Opening, IncDDseq, InOrderOfPhases
  <2>3. /\ state' = [state EXCEPT ![p] = EX_START]
        /\ ddSeq' = [ddSeq EXCEPT ![p] = 1]
        /\ ms' = [ms EXCEPT ![p] = 1]
    BY <1>8, <2>2 DEF ReceiveHelloTwoWay
  <2>4. \A o \in Pair : o # p =>
          /\ Untouched(o) /\ state'[o] = state[o]
          /\ ddSeq'[o] = ddSeq[o] /\ ms'[o] = ms[o]
    <3>1. ASSUME NEW o \in Pair, o # p PROVE Untouched(o)
      BY <1>2, <1>3, <1>4, <1>6, <3>1, InertLink
    <3> QED BY <1>4, <2>3, <3>1
  <2>5. state'[p] = EX_START /\ ddSeq'[p] = 1 /\ ms'[p] = 1
    BY <1>4, <2>3
  <2>6. First \in Message /\ First.type = "DD"
    BY MessageMade DEF First, InitialDD, DD
  <2>7. out[p] = <<First>>
    BY <1>6, <1>8, <2>2 DEF First
  <2>8. /\ out[p] \in Seq(Message) /\ DDs(out[p]) = {First}
        /\ Updates(out[p]) = {} /\ LateUpdates(out[p]) = {}
        /\ Requested(out[p]) = {} /\ OnePerTurn(out[p])
    BY <2>6, <2>7, SingleQueue
  <2>9. /\ DDs(chan'[p]) = {First}
        /\ Updates(chan'[p]) = Updates(chan[p])
        /\ Requested(chan'[p]) = Requested(chan[p])
        /\ LateUpdates(chan'[p]) = {}
        /\ OnePerTurn(chan[p]) => OnePerTurn(chan'[p])
    <3>1. \A o \in Pair : o # p => out[o] = <<>>
      BY <1>6
    <3>2. /\ DDs(chan'[p]) = DDs(chan[p]) \cup DDs(out[p])
          /\ Updates(chan'[p]) = Updates(chan[p]) \cup Updates(out[p])
          /\ Requested(chan'[p]) = Requested(chan[p]) \cup Requested(out[p])
          /\ LateUpdates(chan'[p]) = LateUpdates(out[p]) \cup
               (IF DDs(out[p]) = {} THEN LateUpdates(chan[p]) ELSE {})
          /\ OnePerTurn(chan'[p]) <=>
               /\ OnePerTurn(chan[p]) /\ OnePerTurn(out[p])
               /\ \A k \in DDs(chan[p]), l \in DDs(out[p]) : k.I = 1 /\ l.I = 0
      BY <1>2, <1>3, <1>4, <2>8, <3>1, TakesAndSends
    <3> QED BY <2>2, <2>8, <3>2
  <2>10. \A o \in Pair : o # p => Steady(o)
    BY <1>3, <2>4 DEF Steady, Untouched
  <2>11. Opening(p)'
    BY <2>5, <2>9 DEF Opening
  <2>12. Opening(q)'
    BY <1>2, <2>1, <2>4 DEF Opening, Untouched
  <2>13. Mutual(p)'
    <3>1. n \in adjList'[r]
      BY <1>2, <1>3, <1>4
    <3>2. Mutual(p)
      BY <1>4 DEF InOrderOfPhases
    <3> QED BY <1>1, <1>2, <1>5, <2>5, <3>1, <3>2 DEF Mutual, Remembered
  <2>14. Mutual(q)' /\ OnePerTurn(chan'[q]) /\ OnePerTurn(chan'[p])
    BY <1>2, <1>4, <1>5, <2>4, <2>9, <2>10, SteadyMutual DEF InOrderOfPhases, Untouched
  <2>15. InOrderOfPhases'
    <3>1. InPhase(p, q)' /\ InPhase(q, p)'
      BY <2>11, <2>12 DEF InPhase
    <3> QED BY <1>2, <1>4, <1>5, <2>10, <2>13, <2>14, <3>1, PhasesKept
  <2>16. \A o \in Pair : OnWay(o)' = OnWay(o)
    BY <1>2, <2>4, <2>9, SameOnWay DEF OnWay, Reverse
  <2>17. \A o \in Pair : AsksForNewer(o)
    BY DEF Coherent, Synchronising
  <2>18. IdleAt(p)
    BY <1>4, <2>2, <2>5, <2>9, <2>16, <2>17, BelowIsIdle
  <2>19. ASSUME NEW o \in Pair, o # p PROVE IdleAt(o)
    BY <1>3, <1>4, <2>4, <2>16, <2>19, SameIsIdle DEF Untouched
  <2>20. \A o \in Pair : IdleAt(o)
    BY <2>18, <2>19
  <2> QED BY <1>2, <1>3, <2>15, <2>20 DEF DataMoves, Idle
<1> QED BY <1>7, <1>8

-----------------------------------------------------------------------------
(* Description packets.                                                    *)

(* A description packet is taken from q and the packets d are sent on p.   *)
Exchanged(p, q, d) ==
  LET m == Head(chan[q]) IN
  /\ \A o \in Pair : o # p /\ o # q => Untouched(o)
  /\ DDs(chan'[p]) = DDs(chan[p]) \cup DDs(d)
  /\ Requested(chan'[p]) = Requested(chan[p]) \cup Requested(d)
  /\ LateUpdates(chan'[p]) = LateUpdates(d) \cup
       (IF DDs(d) = {} THEN LateUpdates(chan[p]) ELSE {})
  /\ OnePerTurn(d) /\ (\A k \in DDs(chan[p]), l \in DDs(d) : k.I = 1 /\ l.I = 0)
       => OnePerTurn(chan'[p])
  /\ DDs(chan[q]) = DDs(chan'[q]) \cup {m}
  /\ Requested(chan'[q]) = Requested(chan[q])
  /\ LateUpdates(chan'[q]) = LateUpdates(chan[q])
  /\ OnePerTurn(chan'[q])
  /\ \A l \in DDs(chan'[q]) : m.I = 1 /\ l.I = 0
  /\ DDs(chan'[q]) = {} => LateUpdates(chan[q]) = Updates(chan[q])
  /\ Updates(d) = {} => \A o \in Pair : /\ Updates(chan'[o]) = Updates(chan[o])
                                        /\ OnWay(o)' = OnWay(o)

(* A description packet is taken, and others may be sent.                  *)
LEMMA DDReceived ==
  ASSUME TypeOK, InOrderOfPhases, NEW r, NEW n, <<r, n>> \in Pair, AcceptDD(r, n),
         NEW out, Transmit(<<n, r>>, out), out[<<r, n>>] \in Seq(Message),
         \A o \in Pair : o # <<r, n>> => out[o] = <<>>, UNCHANGED rx
  PROVE  Exchanged(<<r, n>>, <<n, r>>, out[<<r, n>>])
<1> DEFINE p == <<r, n>>
           q == <<n, r>>
           m == Head(chan[q])
           d == out[p]
<1>1. /\ q \in Pair /\ q # p /\ chan[q] # <<>> /\ m.type = "DD"
      /\ p \in Pair /\ Transmit(q, out) /\ d \in Seq(Message)
      /\ \A o \in Pair : o # p => out[o] = <<>>
  BY DDTaken
<1> HIDE DEF p, q, m
<1> HIDE DEF d
<1>2. /\ \A o \in Pair : o # p /\ o # q => Untouched(o)
      /\ chan'[q] = Tail(chan[q])
      /\ DDs(chan'[p]) = DDs(chan[p]) \cup DDs(d)
      /\ Updates(chan'[p]) = Updates(chan[p]) \cup Updates(d)
      /\ Requested(chan'[p]) = Requested(chan[p]) \cup Requested(d)
      /\ LateUpdates(chan'[p]) = LateUpdates(d) \cup
           (IF DDs(d) = {} THEN LateUpdates(chan[p]) ELSE {})
      /\ OnePerTurn(d) /\ OnePerTurn(chan[p])
         /\ (\A k \in DDs(chan[p]), l \in DDs(d) : k.I = 1 /\ l.I = 0)
           => OnePerTurn(chan'[p])
  <2>1. out[p] = d
    BY DEF d
  <2>2. /\ \A o \in Pair : o # p /\ o # q => Untouched(o) /\ chan'[o] = chan[o]
        /\ chan'[q] = Tail(chan[q])
    BY <1>1, <2>1, TakesAndSends
  <2>3. /\ DDs(chan'[p]) = DDs(chan[p]) \cup DDs(d)
        /\ Updates(chan'[p]) = Updates(chan[p]) \cup Updates(d)
        /\ Requested(chan'[p]) = Requested(chan[p]) \cup Requested(d)
    BY <1>1, <2>1, TakesAndSends
  <2>4. LateUpdates(chan'[p]) = LateUpdates(d) \cup
           (IF DDs(d) = {} THEN LateUpdates(chan[p]) ELSE {})
    BY <1>1, <2>1, TakesAndSends
  <2>5. OnePerTurn(d) /\ OnePerTurn(chan[p])
         /\ (\A k \in DDs(chan[p]), l \in DDs(d) : k.I = 1 /\ l.I = 0)
           => OnePerTurn(chan'[p])
    BY <1>1, <2>1, TakesAndSends
  <2> QED BY <2>2, <2>3, <2>4, <2>5
<1>3. /\ OnePerTurn(chan[p]) /\ OnePerTurn(chan[q])
  BY <1>1 DEF InOrderOfPhases
<1>4. /\ DDs(chan[q]) = DDs(chan'[q]) \cup {m}
      /\ Updates(chan'[q]) = Updates(chan[q])
      /\ Requested(chan'[q]) = Requested(chan[q])
      /\ LateUpdates(chan'[q]) = LateUpdates(chan[q])
      /\ OnePerTurn(chan'[q])
      /\ \A l \in DDs(chan'[q]) : m.I = 1 /\ l.I = 0
  BY <1>1, <1>2, <1>3, TakesHead DEF m
<1>5. DDs(chan'[q]) = {} => LateUpdates(chan'[q]) = Updates(chan'[q])
  <2>1. chan'[q] \in Seq(Message)
    BY <1>1, <1>2, TailOfQueue DEF TypeOK
  <2> QED BY <2>1, LateAreUpdates
<1>6. ASSUME Updates(d) = {}, NEW o \in Pair
      PROVE Updates(chan'[o]) = Updates(chan[o]) /\ OnWay(o)' = OnWay(o)
  <2>1. Updates(chan'[o]) = Updates(chan[o])
    BY <1>2, <1>4, <1>6 DEF Untouched
  <2> QED BY <2>1 DEF OnWay, Reverse
<1>7. Exchanged(p, q, d)
  BY <1>2, <1>3, <1>4, <1>5, <1>6 DEF Exchanged, m
<1> QED BY <1>7 DEF p, q, d, d

LEMMA DDSent ==
  ASSUME NEW d \in Message, d.type = "DD"
  PROVE  /\ <<d>> \in Seq(Message)
         /\ DDs(<<d>>) = {d} /\ Updates(<<d>>) = {} /\ LateUpdates(<<d>>) = {}
         /\ Requested(<<d>>) = {} /\ OnePerTurn(<<d>>)
BY SingleQueue

(* The first packet of a router that was in INIT, and the one that follows.*)
LEMMA TwoDDsSent ==
  ASSUME NEW a \in Message, a.type = "DD", a.I = 1,
         NEW b \in Message, b.type = "DD", b.I = 0
  PROVE  LET d == Append(<<a>>, b) IN
         /\ d \in Seq(Message)
         /\ DDs(d) = {a, b} /\ Updates(d) = {} /\ LateUpdates(d) = {}
         /\ Requested(d) = {} /\ OnePerTurn(d)
<1> DEFINE s == <<a>>
           t == <<b>>
           d == Append(s, b)
<1>1. /\ s \in Seq(Message)
      /\ DDs(s) = {a} /\ Updates(s) = {} /\ LateUpdates(s) = {}
      /\ Requested(s) = {} /\ OnePerTurn(s)
  BY DDSent
<1>2. /\ t \in Seq(Message)
      /\ DDs(t) = {b} /\ Updates(t) = {} /\ LateUpdates(t) = {}
      /\ Requested(t) = {} /\ OnePerTurn(t)
  BY DDSent
<1>3. d = s \o t
  BY <1>1, AppendIsConcat
<1> HIDE DEF s, t, d
<1>4. /\ s \o t \in Seq(Message)
      /\ DDs(s \o t) = DDs(s) \cup DDs(t)
      /\ Updates(s \o t) = Updates(s) \cup Updates(t)
      /\ Requested(s \o t) = Requested(s) \cup Requested(t)
      /\ LateUpdates(s \o t) = LateUpdates(t) \cup
           (IF DDs(t) = {} THEN LateUpdates(s) ELSE {})
      /\ OnePerTurn(s \o t) <=>
           /\ OnePerTurn(s) /\ OnePerTurn(t)
           /\ \A k \in DDs(s), l \in DDs(t) : k.I = 1 /\ l.I = 0
  BY <1>1, <1>2, ConcatQueues
<1>5. /\ d \in Seq(Message)
      /\ DDs(d) = {a, b} /\ Updates(d) = {} /\ LateUpdates(d) = {}
      /\ Requested(d) = {} /\ OnePerTurn(d)
  BY <1>1, <1>2, <1>3, <1>4
<1> QED BY <1>5 DEF d, s

(* A router that enters the exchange with a summary of all it has.         *)
LEMMA EntersIsIdle ==
  ASSUME PhaseTypes, NEW o \in Pair, AsksForNewer(o),
         state[o] < EXCHANGE, state'[o] = EXCHANGE, headers'[o] = lsdb[o[1]],
         state'[Reverse(o)] <= EXCHANGE, LateUpdates(chan'[o]) = {},
         Requested(chan'[o]) = Requested(chan[o]), OnWay(o)' = OnWay(o)
  PROVE  IdleAt(o)
<1>1. state[o] \in DOWN..FULL /\ state'[o] \in DOWN..FULL
  BY DEF PhaseTypes
<1>2. requests[o] # {} => state[o] = LOADING
  BY DEF AsksForNewer
<1> QED BY <1>1, <1>2 DEF IdleAt

(* A router that has heard an initial packet is heard by its sender.       *)
LEMMA HeardByOpener ==
  ASSUME Coherent, NEW r, NEW n, <<r, n>> \in Pair, AcceptDD(r, n),
         Opening(<<n, r>>)
  PROVE  /\ Head(chan[<<n, r>>]) = First
         /\ state[<<n, r>>] = EX_START
         /\ r \in nbrList[n] /\ n \in nbrList[r]
<1> DEFINE q == <<n, r>>
<1>1. q \in Pair /\ Head(chan[q]) \in DDs(chan[q]) /\ q[1] = n /\ q[2] = r
  BY DDTaken DEF Coherent
<1>2. state[q] > INIT /\ Head(chan[q]) = First /\ state[q] <= EX_START
      /\ state[q] \in DOWN..FULL
  <2>1. DDs(chan[q]) # {} /\ DDs(chan[q]) \subseteq {First} /\ state[q] \in DOWN..FULL
    BY <1>1 DEF Opening, Coherent, PhaseTypes
  <2>2. ~(state[q] <= INIT) /\ state[q] <= EX_START
    BY <2>1 DEF Opening
  <2> QED BY <1>1, <2>1, <2>2
<1>3. Mutual(q)
  BY <1>1 DEF Coherent, InOrderOfPhases
<1>4. state[q] = EX_START /\ n \in nbrList[r]
  BY <1>1, <1>2, <1>3 DEF Mutual
<1>5. r \in nbrList[n]
  BY <1>1, <1>2 DEF Coherent, HeardNeighbours
<1> QED BY <1>2, <1>4, <1>5

LEMMA PacketFields ==
  /\ First.I = 1 /\ First.MS = 1 /\ First.seq = 1 /\ First.type = "DD"
  /\ First \in Message
  /\ \A i, s, k, h : DD(i, s, k, h).I = i /\ DD(i, s, k, h).MS = s
                     /\ DD(i, s, k, h).seq = k /\ DD(i, s, k, h).headers = h
                     /\ DD(i, s, k, h).type = "DD"
BY MessageMade DEF First, InitialDD, DD

(* A neighbour that sends a description packet has been heard,             *)
LEMMA DDNeverIgnored ==
  ASSUME Coherent, NEW r, NEW n, <<r, n>> \in Pair, DDIgnored(r, n)
  PROVE  FALSE
<1>1. AcceptDD(r, n) /\ state[<<r, n>>] <= ATTEMPT /\ Reverse(<<r, n>>) = <<n, r>>
      /\ state[<<r, n>>] \in DOWN..FULL
  BY DEF DDIgnored, Reverse, Coherent, PhaseTypes
<1>2. Opening(<<n, r>>)
  <2>1. state[<<r, n>>] < EX_START
    BY <1>1
  <2> QED BY <1>1, <2>1, PhaseOfPair DEF Coherent
<1>3. n \in nbrList[r]
  BY <1>1, <1>2, HeardByOpener
<1> QED BY <1>1, <1>3 DEF Coherent, HeardNeighbours

(* and none is out of turn.                                                *)
LEMMA DDNeverOutOfTurn ==
  ASSUME Coherent, NEW r, NEW n, <<r, n>> \in Pair, DDOutOfTurn(r, n)
  PROVE  FALSE
<1> DEFINE p == <<r, n>>
           q == <<n, r>>
           m == Head(chan[q])
<1>1. /\ AcceptDD(r, n) /\ state[p] >= EXCHANGE /\ Reverse(p) = q /\ Reverse(q) = p
      /\ ~(InStep(p, m) /\ InOrder(p, m))
      /\ TypeOK /\ PhaseTypes /\ InOrderOfPhases
  BY DEF DDOutOfTurn, Reverse, Coherent
<1>2. q \in Pair /\ m \in DDs(chan[q])
  BY <1>1, DDTaken
<1>3. state[p] \in DOWN..FULL /\ state[q] \in DOWN..FULL
  BY <1>1, <1>2 DEF PhaseTypes
<1> HIDE DEF p, q, m
<1>4. CASE p \in Leading
  <2>1. InPhase(p, q)
    BY <1>1, <1>4 DEF InOrderOfPhases
  <2>2. m = Summary(q, 0, 2) /\ state[p] = EXCHANGE /\ ddSeq[p] = 2 /\ ms[p] = 1
    BY <1>1, <1>2, <1>3, <2>1 DEF InPhase, Opening, SlaveInExchange, BothInExchange,
       SlaveDone, BothDone
  <2> QED BY <1>1, <2>2, PacketFields DEF InStep, Mismatch, InOrder, Summary
<1>5. CASE p \notin Leading
  <2>1. InPhase(q, p)
    <3>1. p \in Pair
      BY DEF p
    <3> QED BY <1>1, <1>5, <3>1, PhaseOfPair
  <2>2. m = Summary(q, 1, 2) /\ state[p] = EXCHANGE /\ ddSeq[p] = 1 /\ ms[p] = 0
    BY <1>1, <1>2, <1>3, <2>1 DEF InPhase, Opening, SlaveInExchange, BothInExchange,
       SlaveDone, BothDone
  <2> QED BY <1>1, <2>2, PacketFields DEF InStep, Mismatch, InOrder, Summary
<1> QED BY <1>4, <1>5

(* What the three outcomes of a negotiation share.                         *)
LEMMA NegotiationFacts ==
  ASSUME Coherent, NEW r, NEW n, <<r, n>> \in Pair, Negotiating(r, n)
  PROVE  LET p == <<r, n>>
             q == <<n, r>>
         IN
         /\ AcceptDD(r, n) /\ q \in Pair /\ q # p
         /\ Reverse(p) = q /\ Reverse(q) = p /\ p[1] = r /\ p[2] = n
         /\ r \in Router /\ n \in Router
         /\ state[p] \in {INIT, EX_START}
         /\ Remembered /\ UNCHANGED <<lsdb, requests, rx>>
         /\ state[p] = INIT => n \in adjList'[r]
         /\ TypeOK /\ PhaseTypes /\ InOrderOfPhases
         /\ \A o \in Pair : AsksForNewer(o)
         /\ state[p] = INIT /\ ddSeq[p] = 0 =>
              StartSeq(p) = 1 /\ StartDD(p) = <<First>>
         /\ state[p] = EX_START => StartSeq(p) = ddSeq[p] /\ StartDD(p) = <<>>
<1> DEFINE p == <<r, n>>
           q == <<n, r>>
<1>1. AcceptDD(r, n) /\ state[p] \in {INIT, EX_START} /\ UNCHANGED <<lsdb, requests, rx>>
  BY DEF Negotiating
<1>2. /\ q \in Pair /\ q # p /\ Reverse(p) = q /\ Reverse(q) = p
      /\ r \in Router /\ n \in Router
  BY PairReverse, PairType DEF Reverse
<1>3. /\ TypeOK /\ PhaseTypes /\ InOrderOfPhases
      /\ \A o \in Pair : AsksForNewer(o)
  BY DEF Coherent, Synchronising
<1>4. /\ adjList' = [adjList EXCEPT ![r] = IF state[p] = INIT THEN @ \cup {n} ELSE @]
      /\ UNCHANGED <<nbrList, upLinks, now>> /\ adjList \in [Router -> SUBSET Router]
  BY <1>3 DEF Negotiating, PhaseTypes
<1>5. \A o \in Pair : o[2] \in adjList[o[1]] => o[2] \in adjList'[o[1]]
  BY <1>2, <1>4, PairIsTuple
<1>6. Remembered
  BY <1>4, <1>5 DEF Remembered
<1>7. state[p] = INIT => n \in adjList'[r]
  BY <1>2, <1>4
<1>8. state[p] = INIT /\ ddSeq[p] = 0 => StartSeq(p) = 1 /\ StartDD(p) = <<First>>
  <2>1. now = 0
    BY <1>3 DEF InOrderOfPhases
  <2> QED BY <2>1 DEF StartSeq, StartDD, IncDDseq, First
<1>9. state[p] = EX_START => StartSeq(p) = ddSeq[p] /\ StartDD(p) = <<>>
  BY DEF StartSeq, StartDD
<1> QED BY <1>1, <1>2, <1>3, <1>6, <1>7, <1>8, <1>9

(* The slave takes the initial packet and sends its summary.               *)
LEMMA SlaveNegotiated ==
  ASSUME Coherent, NEW r, NEW n, <<r, n>> \in Pair, NegotiateAsSlave(r, n)
  PROVE  InOrderOfPhases' /\ DataMoves
<1> DEFINE p == <<r, n>>
           q == <<n, r>>
           m == Head(chan[q])
           reply == DD(0, 0, 1, lsdb[r])
           out == To(p, Append(StartDD(p), DD(0, 0, m.seq, lsdb[r])))
<1>1. Negotiating(r, n) /\ n > r
  BY DEF NegotiateAsSlave, IsSlave, Negotiating
<1>2. /\ AcceptDD(r, n) /\ p \in Pair /\ q \in Pair /\ q # p
      /\ Reverse(p) = q /\ Reverse(q) = p /\ p[1] = r /\ p[2] = n
      /\ q[1] = n /\ q[2] = r
      /\ r \in Router /\ n \in Router
      /\ state[p] \in {INIT, EX_START}
      /\ Remembered /\ UNCHANGED <<lsdb, requests, rx>>
      /\ state[p] = INIT => n \in adjList'[r]
      /\ TypeOK /\ PhaseTypes /\ InOrderOfPhases
      /\ \A o \in Pair : AsksForNewer(o)
      /\ state[p] = INIT /\ ddSeq[p] = 0 =>
           StartSeq(p) = 1 /\ StartDD(p) = <<First>>
      /\ state[p] = EX_START => StartSeq(p) = ddSeq[p] /\ StartDD(p) = <<>>
  BY <1>1, NegotiationFacts
<1>3. q \in Leading /\ p \notin Leading /\ Opening(p) /\ Opening(q)
  <2>1. q \in Leading /\ p \notin Leading
    BY <1>1, <1>2, PairType DEF Leading
  <2>2. InPhase(q, p)
    BY <1>2, <2>1, PhaseOfPair
  <2> QED BY <1>2, <2>1, <2>2 DEF InPhase, SlaveInExchange, BothInExchange, SlaveDone, BothDone
<1>4. m = First /\ state[q] = EX_START /\ r \in nbrList[n] /\ m.seq = 1
      /\ ddSeq[q] = 1 /\ ms[q] = 1
  BY <1>2, <1>3, HeardByOpener, PacketFields DEF Opening
<1>5. /\ state' = [state EXCEPT ![p] = EXCHANGE]
      /\ headers' = [headers EXCEPT ![p] = lsdb[r]]
      /\ ms' = [ms EXCEPT ![p] = 0]
      /\ ddSeq' = [ddSeq EXCEPT ![p] = 1]
      /\ Transmit(q, out)
  BY <1>4 DEF NegotiateAsSlave, NegDone
<1>6. /\ state'[p] = EXCHANGE /\ headers'[p] = lsdb[r] /\ ms'[p] = 0 /\ ddSeq'[p] = 1
      /\ \A o \in Pair : o # p =>
           /\ state'[o] = state[o] /\ headers'[o] = headers[o]
                                  /\ ms'[o] = ms[o] /\ ddSeq'[o] = ddSeq[o]
  BY <1>2, <1>5 DEF PhaseTypes
<1>7. /\ out[p] \in Seq(Message) /\ Updates(out[p]) = {} /\ LateUpdates(out[p]) = {}
      /\ Requested(out[p]) = {} /\ OnePerTurn(out[p])
      /\ DDs(out[p]) = IF state[p] = INIT THEN {First, reply} ELSE {reply}
      /\ \A o \in Pair : o # p => out[o] = <<>>
  <2>1. reply \in Message /\ reply.type = "DD" /\ reply.I = 0
    BY <1>2, MessageMade, PacketFields DEF TypeOK
  <2>2. /\ out[p] = Append(StartDD(p), reply)
        /\ \A o \in Pair : o # p => out[o] = <<>>
    BY <1>2, <1>4, OnlyTo
  <2>3. CASE state[p] = INIT
    <3>1. StartDD(p) = <<First>>
      BY <1>2, <1>3, <2>3 DEF Opening
    <3>2. out[p] = Append(<<First>>, reply)
      BY <2>2, <3>1
    <3> HIDE DEF out, reply
    <3> QED BY <2>1, <2>2, <2>3, <3>2, PacketFields, TwoDDsSent
  <2>4. CASE state[p] # INIT
    <3>1. StartDD(p) = <<>>
      BY <1>2, <2>4
    <3> HIDE DEF out, reply
    <3>2. out[p] = <<reply>>
      BY <2>1, <2>2, <3>1, PairOfPackets
    <3> QED BY <2>1, <2>2, <2>4, <3>2, DDSent
  <2> QED BY <2>3, <2>4
<1>8. reply.I = 0 /\ reply = Summary(p, 0, 1)'
  BY <1>6, PacketFields DEF Summary, DD
<1> HIDE DEF out, reply
<1>9. Exchanged(p, q, out[p])
  BY <1>2, <1>5, <1>7, DDReceived
<1>10. DDs(chan'[q]) = {}
  BY <1>3, <1>9, PacketFields DEF Opening, Exchanged
<1>11. /\ DDs(chan'[p]) \subseteq {First, reply} /\ reply \in DDs(chan'[p])
       /\ OnePerTurn(chan'[p])
  <2>1. DDs(chan[p]) \subseteq {First} /\ (state[p] = INIT => DDs(chan[p]) = {})
    BY <1>3 DEF Opening
  <2>2. DDs(chan'[p]) \subseteq {First, reply} /\ reply \in DDs(chan'[p])
    <3>1. DDs(out[p]) = IF state[p] = INIT THEN {First, reply} ELSE {reply}
      BY <1>7
    <3>2. DDs(chan'[p]) = DDs(chan[p]) \cup DDs(out[p])
      BY <1>9 DEF Exchanged
    <3> QED BY <2>1, <3>1, <3>2
  <2>3. \A k \in DDs(chan[p]), l \in DDs(out[p]) : k.I = 1 /\ l.I = 0
    BY <1>7, <1>8, <2>1, PacketFields
  <2> QED BY <1>7, <1>9, <2>2, <2>3 DEF Exchanged
<1>12. SlaveInExchange(q, p)'
  BY <1>2, <1>4, <1>6, <1>8, <1>10, <1>11 DEF SlaveInExchange
<1>13. Mutual(p)' /\ Mutual(q)'
  <2>1. Mutual(p) /\ Mutual(q)
    BY <1>2 DEF InOrderOfPhases
  <2>2. Mutual(p)'
    BY <1>2, <1>4, <1>6, <2>1 DEF Mutual, Remembered
  <2>3. Mutual(q)'
    BY <1>2, <1>4, <1>6, <2>1 DEF Mutual, Remembered
  <2> QED BY <2>2, <2>3
<1>14. InOrderOfPhases'
  <2>1. \A o \in Pair : o # p /\ o # q => Steady(o)
    BY <1>6, <1>9 DEF Steady, Untouched, Exchanged
  <2>2. InPhase(q, p)'
    BY <1>12 DEF InPhase
  <2>3. OnePerTurn(chan'[q])
    BY <1>9 DEF Exchanged
  <2> HIDE DEF p, q
  <2> QED BY <1>2, <1>3, <1>11, <1>13, <2>1, <2>2, <2>3, PhasesKept
<1>15. ASSUME NEW o \in Pair PROVE IdleAt(o)
  <2>1. CASE o = p
    <3>1. LateUpdates(chan'[p]) = {} /\ Requested(chan'[p]) = Requested(chan[p])
          /\ OnWay(p)' = OnWay(p)
      BY <1>7, <1>9 DEF Exchanged
    <3>2. state[p] < EXCHANGE /\ state'[q] <= EXCHANGE
      BY <1>2, <1>4, <1>6
    <3> QED BY <1>2, <1>6, <2>1, <3>1, <3>2, EntersIsIdle
  <2>2. CASE o # p
    <3>1. /\ Requested(chan'[o]) = Requested(chan[o]) /\ OnWay(o)' = OnWay(o)
          /\ LateUpdates(chan'[o]) = LateUpdates(chan[o])
      BY <1>7, <1>9, <2>2 DEF Exchanged, Untouched
    <3> QED BY <1>2, <1>6, <2>2, <3>1, SameIsIdle
  <2> QED BY <2>1, <2>2
<1> QED BY <1>2, <1>14, <1>15 DEF DataMoves, Idle

(* The master takes the summary with which the slave agrees.               *)
LEMMA MasterNegotiated ==
  ASSUME Coherent, NEW r, NEW n, <<r, n>> \in Pair, NegotiateAsMaster(r, n)
  PROVE  InOrderOfPhases' /\ DataMoves
<1> DEFINE p == <<r, n>>
           q == <<n, r>>
           m == Head(chan[q])
           next == IncDDseq(StartSeq(p))
           answer == DD(0, 1, 2, lsdb[r])
           out == To(p, Append(StartDD(p), DD(0, 1, next, lsdb[r])))
<1>1. Negotiating(r, n) /\ n < r /\ m.I = 0
  BY DEF NegotiateAsMaster, IsMaster, Negotiating
<1>2. /\ AcceptDD(r, n) /\ p \in Pair /\ q \in Pair /\ q # p
      /\ Reverse(p) = q /\ Reverse(q) = p /\ p[1] = r /\ p[2] = n
      /\ q[1] = n /\ q[2] = r
      /\ r \in Router /\ n \in Router
      /\ state[p] \in {INIT, EX_START}
      /\ Remembered /\ UNCHANGED <<lsdb, requests, rx>>
      /\ TypeOK /\ PhaseTypes /\ InOrderOfPhases
      /\ \A o \in Pair : AsksForNewer(o)
      /\ state[p] = EX_START => StartSeq(p) = ddSeq[p] /\ StartDD(p) = <<>>
  BY <1>1, NegotiationFacts
<1>3. p \in Leading /\ q \notin Leading /\ SlaveInExchange(p, q)
  <2>1. p \in Leading /\ q \notin Leading
    BY <1>1, <1>2, PairType DEF Leading
  <2>2. InPhase(p, q)
    BY <1>2, <2>1, PhaseOfPair
  <2>3. m \in DDs(chan[q])
    BY <1>2, DDTaken
  <2>4. ~Opening(q)
    BY <1>1, <2>3, PacketFields DEF Opening
  <2> QED BY <1>2, <2>1, <2>2, <2>4 DEF InPhase, BothInExchange, SlaveDone, BothDone
<1>4. state[p] = EX_START /\ StartDD(p) = <<>> /\ next = 2 /\ DDs(chan[p]) = {}
  BY <1>2, <1>3 DEF SlaveInExchange, IncDDseq
<1>5. /\ state' = [state EXCEPT ![p] = EXCHANGE]
      /\ headers' = [headers EXCEPT ![p] = lsdb[r]]
      /\ ms' = [ms EXCEPT ![p] = 1]
      /\ ddSeq' = [ddSeq EXCEPT ![p] = 2]
      /\ Transmit(q, out)
  BY <1>4 DEF NegotiateAsMaster, NegDone
<1>6. /\ state'[p] = EXCHANGE /\ headers'[p] = lsdb[r] /\ ms'[p] = 1 /\ ddSeq'[p] = 2
      /\ \A o \in Pair : o # p =>
           /\ state'[o] = state[o] /\ headers'[o] = headers[o]
                                  /\ ms'[o] = ms[o] /\ ddSeq'[o] = ddSeq[o]
  BY <1>2, <1>5 DEF PhaseTypes
<1>7. /\ out[p] \in Seq(Message) /\ Updates(out[p]) = {} /\ LateUpdates(out[p]) = {}
      /\ Requested(out[p]) = {} /\ OnePerTurn(out[p])
      /\ DDs(out[p]) = {answer}
      /\ \A o \in Pair : o # p => out[o] = <<>>
  <2>1. answer \in Message /\ answer.type = "DD"
    BY <1>2, MessageMade, PacketFields DEF TypeOK
  <2>2. /\ out[p] = Append(<<>>, answer)
        /\ \A o \in Pair : o # p => out[o] = <<>>
    BY <1>2, <1>4, OnlyTo
  <2> HIDE DEF out, answer
  <2>3. out[p] = <<answer>>
    BY <2>1, <2>2, PairOfPackets
  <2> QED BY <2>1, <2>2, <2>3, DDSent
<1>8. answer = Summary(p, 1, 2)'
  BY <1>6, PacketFields DEF Summary, DD
<1> HIDE DEF out, answer
<1>9. Exchanged(p, q, out[p])
  BY <1>2, <1>5, <1>7, DDReceived
<1>10. DDs(chan'[q]) = {} /\ DDs(chan'[p]) = {answer} /\ OnePerTurn(chan'[p])
  BY <1>1, <1>4, <1>7, <1>9 DEF Exchanged
<1>11. BothInExchange(p, q)'
  BY <1>2, <1>3, <1>6, <1>8, <1>10 DEF SlaveInExchange, BothInExchange
<1>12. Mutual(p)' /\ Mutual(q)'
  <2>1. Mutual(p) /\ Mutual(q) /\ state[p] = EX_START
    BY <1>2, <1>3 DEF InOrderOfPhases, SlaveInExchange
  <2>2. Mutual(p)'
    BY <1>2, <1>6, <2>1 DEF Mutual, Remembered
  <2>3. Mutual(q)'
    BY <1>2, <1>6, <2>1 DEF Mutual, Remembered
  <2> QED BY <2>2, <2>3
<1>13. InOrderOfPhases'
  <2>1. \A o \in Pair : o # p /\ o # q => Steady(o)
    BY <1>6, <1>9 DEF Steady, Untouched, Exchanged
  <2>2. InPhase(p, q)'
    BY <1>11 DEF InPhase
  <2>3. OnePerTurn(chan'[q])
    BY <1>9 DEF Exchanged
  <2> HIDE DEF p, q
  <2> QED BY <1>2, <1>3, <1>10, <1>12, <2>1, <2>2, <2>3, PhasesKept
<1>14. ASSUME NEW o \in Pair PROVE IdleAt(o)
  <2>1. CASE o = p
    <3>1. LateUpdates(chan'[p]) = {} /\ Requested(chan'[p]) = Requested(chan[p])
          /\ OnWay(p)' = OnWay(p)
      BY <1>7, <1>9 DEF Exchanged
    <3>2. state[p] < EXCHANGE /\ state'[q] <= EXCHANGE
      BY <1>2, <1>3, <1>6 DEF SlaveInExchange
    <3> QED BY <1>2, <1>6, <2>1, <3>1, <3>2, EntersIsIdle
  <2>2. CASE o # p
    <3>1. /\ Requested(chan'[o]) = Requested(chan[o]) /\ OnWay(o)' = OnWay(o)
          /\ LateUpdates(chan'[o]) = LateUpdates(chan[o])
      BY <1>7, <1>9, <2>2 DEF Exchanged, Untouched
    <3> QED BY <1>2, <1>6, <2>2, <3>1, SameIsIdle
  <2> QED BY <2>1, <2>2
<1> QED BY <1>2, <1>13, <1>14 DEF DataMoves, Idle

(* The slave-to-be is told of the master, or hears itself.                 *)
LEMMA StillUndecided ==
  ASSUME Coherent, NEW r, NEW n, <<r, n>> \in Pair, RolesUndecided(r, n)
  PROVE  InOrderOfPhases' /\ DataMoves
<1> DEFINE p == <<r, n>>
           q == <<n, r>>
           m == Head(chan[q])
           out == To(p, StartDD(p))
<1>1. Negotiating(r, n) /\ ~IsSlave(r, n, m) /\ ~IsMaster(r, n, m)
  BY DEF RolesUndecided, Negotiating
<1>2. /\ AcceptDD(r, n) /\ p \in Pair /\ q \in Pair /\ q # p
      /\ Reverse(p) = q /\ Reverse(q) = p /\ p[1] = r /\ p[2] = n
      /\ q[1] = n /\ q[2] = r
      /\ r \in Router /\ n \in Router
      /\ state[p] \in {INIT, EX_START}
      /\ Remembered /\ UNCHANGED <<lsdb, requests, rx>>
      /\ state[p] = INIT => n \in adjList'[r]
      /\ TypeOK /\ PhaseTypes /\ InOrderOfPhases
      /\ \A o \in Pair : AsksForNewer(o)
      /\ state[p] = INIT /\ ddSeq[p] = 0 =>
           StartSeq(p) = 1 /\ StartDD(p) = <<First>>
      /\ state[p] = EX_START => StartSeq(p) = ddSeq[p] /\ StartDD(p) = <<>>
  BY <1>1, NegotiationFacts
<1>3. m \in DDs(chan[q])
  BY <1>2, DDTaken
<1>4. m = First /\ p \in Leading /\ q \notin Leading
      /\ ((Opening(p) /\ Opening(q)) \/ SlaveInExchange(p, q))
  <2>1. CASE p \in Leading
    <3>1. q \notin Leading /\ InPhase(p, q) /\ r > n
      BY <1>2, <2>1, PhaseOfPair
    <3>2. (Opening(p) /\ Opening(q)) \/ SlaveInExchange(p, q)
      BY <1>2, <3>1 DEF InPhase, BothInExchange, SlaveDone, BothDone
    <3>3. CASE Opening(q)
      BY <1>3, <2>1, <3>1, <3>2, <3>3 DEF Opening
    <3>4. CASE SlaveInExchange(p, q)
      <4>1. m = Summary(q, 0, 1) => IsMaster(r, n, m)
        BY <1>2, <3>1, <3>4, PacketFields, PairType DEF SlaveInExchange, Summary, IsMaster
      <4> QED BY <1>1, <1>3, <2>1, <3>1, <3>4, <4>1 DEF SlaveInExchange
    <3> QED BY <3>2, <3>3, <3>4
  <2>2. CASE p \notin Leading
    <3>1. InPhase(q, p) /\ n > r
      BY <1>2, <2>2, PhaseOfPair, PairType
    <3>2. Opening(q)
      BY <1>2, <3>1 DEF InPhase, SlaveInExchange, BothInExchange, SlaveDone, BothDone
    <3> QED BY <1>1, <1>3, <3>1, <3>2, PacketFields DEF Opening, IsSlave
  <2> QED BY <2>1, <2>2
<1>5. state[p] = INIT => /\ Opening(p) /\ ddSeq[p] = 0 /\ DDs(chan[p]) = {}
                         /\ StartSeq(p) = 1 /\ StartDD(p) = <<First>>
  BY <1>2, <1>4 DEF Opening, SlaveInExchange
<1>6. /\ state' = [state EXCEPT ![p] = EX_START]
      /\ ms' = [ms EXCEPT ![p] = IF state[p] = INIT THEN 1 ELSE @]
      /\ ddSeq' = [ddSeq EXCEPT ![p] = StartSeq(p)]
      /\ Transmit(q, out) /\ headers' = headers
  BY DEF RolesUndecided
<1>7. /\ state'[p] = EX_START
      /\ ms'[p] = IF state[p] = INIT THEN 1 ELSE ms[p]
      /\ ddSeq'[p] = IF state[p] = INIT THEN 1 ELSE ddSeq[p]
      /\ \A o \in Pair : o # p => /\ state'[o] = state[o]
                                  /\ ms'[o] = ms[o] /\ ddSeq'[o] = ddSeq[o]
  BY <1>2, <1>5, <1>6 DEF PhaseTypes
<1>8. /\ out[p] \in Seq(Message) /\ Updates(out[p]) = {} /\ LateUpdates(out[p]) = {}
      /\ Requested(out[p]) = {} /\ OnePerTurn(out[p])
      /\ DDs(out[p]) = IF state[p] = INIT THEN {First} ELSE {}
      /\ \A o \in Pair : o # p => out[o] = <<>>
  <2>1. /\ out[p] = IF state[p] = INIT THEN <<First>> ELSE <<>>
        /\ \A o \in Pair : o # p => out[o] = <<>>
    BY <1>2, <1>5, OnlyTo
  <2> HIDE DEF out
  <2> QED BY <2>1, PacketFields, DDSent, NoQueue
<1> HIDE DEF out
<1>9. Exchanged(p, q, out[p])
  BY <1>2, <1>6, <1>8, DDReceived
<1>10. OnePerTurn(chan'[p])
       /\ DDs(chan'[p]) = DDs(chan[p]) \cup (IF state[p] = INIT THEN {First} ELSE {})
  <2>1. \A k \in DDs(chan[p]), l \in DDs(out[p]) : k.I = 1 /\ l.I = 0
    BY <1>5, <1>8
  <2> QED BY <1>8, <1>9, <2>1 DEF Exchanged
<1>11. InPhase(p, q)'
  <2>1. DDs(chan[q]) = DDs(chan'[q]) \cup {First}
    BY <1>4, <1>9 DEF Exchanged
  <2>2. CASE Opening(p) /\ Opening(q)
    <3>1. Opening(p)'
      BY <1>2, <1>7, <1>10, <2>2 DEF Opening
    <3>2. state[q] > INIT
      BY <1>2, <1>4, <2>2, HeardByOpener
    <3>3. Opening(q)'
      BY <1>2, <1>7, <2>1, <2>2, <3>2 DEF Opening
    <3> QED BY <3>1, <3>3 DEF InPhase
  <2>3. CASE SlaveInExchange(p, q)
    <3>1. Summary(q, 0, 1)' = Summary(q, 0, 1) /\ Summary(q, 0, 1) # First
      BY <1>6, PacketFields DEF Summary
    <3>2. state[p] # INIT
      BY <2>3 DEF SlaveInExchange
    <3>3. DDs(chan'[p]) = {} /\ DDs(chan'[q]) \subseteq {First, Summary(q, 0, 1)}
          /\ Summary(q, 0, 1) \in DDs(chan'[q])
      BY <1>10, <2>1, <2>3, <3>1, <3>2 DEF SlaveInExchange
    <3>4. SlaveInExchange(p, q)'
      BY <1>2, <1>7, <2>3, <3>1, <3>2, <3>3 DEF SlaveInExchange
    <3> QED BY <3>4 DEF InPhase
  <2> QED BY <1>4, <2>2, <2>3
<1>12. Mutual(p)' /\ Mutual(q)'
  <2>1. Mutual(p) /\ Mutual(q)
    BY <1>2 DEF InOrderOfPhases
  <2>2. state[p] = INIT => r \in nbrList[n]
    BY <1>2, <1>4, HeardByOpener DEF SlaveInExchange
  <2>3. Mutual(p)'
    BY <1>2, <1>7, <2>1, <2>2 DEF Mutual, Remembered
  <2>4. Mutual(q)'
    BY <1>2, <1>7, <2>1 DEF Mutual, Remembered
  <2> QED BY <2>3, <2>4
<1>13. InOrderOfPhases'
  <2>1. \A o \in Pair : o # p /\ o # q => Steady(o)
    BY <1>6, <1>7, <1>9 DEF Steady, Untouched, Exchanged
  <2>2. OnePerTurn(chan'[q])
    BY <1>9 DEF Exchanged
  <2> HIDE DEF p, q
  <2> QED BY <1>2, <1>4, <1>10, <1>11, <1>12, <2>1, <2>2, PhasesKept
<1>14. ASSUME NEW o \in Pair PROVE IdleAt(o)
  <2>1. /\ Requested(chan'[o]) = Requested(chan[o]) /\ OnWay(o)' = OnWay(o)
        /\ LateUpdates(chan'[o]) \subseteq LateUpdates(chan[o])
        /\ o # p => LateUpdates(chan'[o]) = LateUpdates(chan[o])
    <3>1. CASE o = p
      BY <1>8, <1>9, <3>1 DEF Exchanged
    <3>2. CASE o # p
      BY <1>8, <1>9, <3>2 DEF Exchanged, Untouched
    <3> QED BY <3>1, <3>2
  <2>2. CASE o = p
    BY <1>2, <1>7, <2>1, <2>2, BelowIsIdle
  <2>3. CASE o # p
    BY <1>2, <1>6, <1>7, <2>1, <2>3, SameIsIdle
  <2> QED BY <2>2, <2>3
<1> QED BY <1>2, <1>13, <1>14 DEF DataMoves, Idle

(* The request a router sends for the news in a summary.                   *)
LEMMA AskedFor ==
  ASSUME NEW ids \in SUBSET Router, NEW d, d = IF ids = {} THEN <<>> ELSE <<Request(ids)>>
  PROVE  /\ d \in Seq(Message) /\ DDs(d) = {} /\ Updates(d) = {}
         /\ LateUpdates(d) = {} /\ Requested(d) = ids /\ OnePerTurn(d)
<1>1. Request(ids) \in Message /\ Request(ids).type = "REQUEST" /\ Request(ids).ids = ids
  BY MessageMade DEF Request
<1> QED BY <1>1, SingleQueue, NoQueue

(* The summary goes before the request.                                    *)
LEMMA SummaryThenAsk ==
  ASSUME NEW a \in Message, a.type = "DD", NEW s \in Seq(Message),
         DDs(s) = {}, Updates(s) = {}, LateUpdates(s) = {}, OnePerTurn(s)
  PROVE  LET d == <<a>> \o s IN
         /\ d \in Seq(Message) /\ DDs(d) = {a} /\ Updates(d) = {}
         /\ Requested(d) = Requested(s) /\ OnePerTurn(d) /\ LateUpdates(d) = {}
<1> DEFINE f == <<a>>
           d == f \o s
<1>1. /\ f \in Seq(Message)
      /\ DDs(f) = {a} /\ Updates(f) = {} /\ LateUpdates(f) = {}
      /\ Requested(f) = {} /\ OnePerTurn(f)
  BY DDSent
<1> HIDE DEF f
<1>2. /\ f \o s \in Seq(Message)
      /\ DDs(f \o s) = DDs(f) \cup DDs(s)
      /\ Updates(f \o s) = Updates(f) \cup Updates(s)
      /\ Requested(f \o s) = Requested(f) \cup Requested(s)
      /\ LateUpdates(f \o s) = LateUpdates(s) \cup
           (IF DDs(s) = {} THEN LateUpdates(f) ELSE {})
      /\ OnePerTurn(f \o s) <=>
           /\ OnePerTurn(f) /\ OnePerTurn(s)
           /\ \A k \in DDs(f), l \in DDs(s) : k.I = 1 /\ l.I = 0
  BY <1>1, ConcatQueues
<1>3. /\ d \in Seq(Message) /\ DDs(d) = {a} /\ Updates(d) = {}
      /\ Requested(d) = Requested(s) /\ OnePerTurn(d) /\ LateUpdates(d) = {}
  BY <1>1, <1>2
<1> QED BY <1>3 DEF f

(* Taking a description packet in EXCHANGE.                                *)
LEMMA SummaryTaken ==
  ASSUME Coherent, NEW r, NEW n, <<r, n>> \in Pair, DDProcessed(r, n)
  PROVE  InOrderOfPhases' /\ DataMoves
<1> DEFINE p == <<r, n>>
           q == <<n, r>>
           m == Head(chan[q])
           news == Wanted(r, n, m)
           wanted == {a \in Router : lsdb[r][a] < headers[q][a]}
           ask == IF wanted = {} THEN <<>> ELSE <<Request(wanted)>>
           reply == DD(0, 0, 2, headers[p])
           out == To(p, IF ms[p] = 1 THEN IF news = {} THEN <<>> ELSE <<Request(news)>>
                        ELSE <<DD(0, 0, m.seq, headers[p])>>
                               \o IF news = {} THEN <<>> ELSE <<Request(news)>>)
<1>1. AcceptDD(r, n) /\ InStep(p, m) /\ state[p] = EXCHANGE
  BY DEF DDProcessed, InStep
<1>2. /\ p \in Pair /\ q \in Pair /\ q # p
      /\ Reverse(p) = q /\ Reverse(q) = p /\ p[1] = r /\ p[2] = n
      /\ q[1] = n /\ q[2] = r
      /\ r \in Router /\ n \in Router
      /\ m \in DDs(chan[q])
  BY <1>1, DDTaken, PairType DEF Reverse, Coherent
<1>3. /\ TypeOK /\ PhaseTypes /\ InOrderOfPhases
      /\ \A o \in Pair : AsksForNewer(o)
  BY DEF Coherent, Synchronising
<1>4. /\ m.headers = headers[q] /\ m.seq = 2 /\ m.I = 0 /\ DDs(chan[p]) = {}
      /\ \/ p \in Leading /\ q \notin Leading /\ SlaveDone(p, q) /\ ms[p] = 1
         \/ p \notin Leading /\ q \in Leading /\ BothInExchange(q, p) /\ ms[p] = 0
  <2>1. state[q] \in DOWN..FULL
    BY <1>2, <1>3 DEF PhaseTypes
  <2>2. CASE p \in Leading
    <3>1. q \notin Leading /\ InPhase(p, q)
      BY <1>2, <1>3, <2>2, PhaseOfPair
    <3>2. SlaveDone(p, q)
      BY <1>1, <1>2, <3>1 DEF InPhase, Opening, SlaveInExchange, BothInExchange, BothDone
    <3>3. m = Summary(q, 0, 2)
      BY <1>2, <3>2 DEF SlaveDone
    <3> QED BY <2>2, <3>1, <3>2, <3>3, PacketFields DEF SlaveDone, Summary
  <2>3. CASE p \notin Leading
    <3>1. q \in Leading /\ InPhase(q, p)
      BY <1>2, <1>3, <2>3, PhaseOfPair
    <3>2. BothInExchange(q, p)
      BY <1>1, <1>2, <3>1 DEF InPhase, Opening, SlaveInExchange, SlaveDone, BothDone
    <3>3. m = Summary(q, 1, 2)
      BY <1>2, <3>2 DEF BothInExchange
    <3> QED BY <2>3, <3>1, <3>2, <3>3, PacketFields DEF BothInExchange, Summary
  <2> QED BY <2>2, <2>3
<1>5. news = wanted
  <2>1. \A a \in Router : /\ lsdb[r][a] \in Int /\ lsdb[r][a] >= None
                          /\ headers[q][a] \in Int /\ None \in Int
    BY <1>2, <1>3, DatabaseValues DEF PhaseTypes
  <2>2. \A a \in Router : News(r, a, m.headers[a]) <=> lsdb[r][a] < headers[q][a]
    BY <1>4, <2>1 DEF News, None
  <2>3. {a \in Router : News(r, a, m.headers[a])} = wanted
    BY <2>2
  <2>4. requests[p] = {}
    BY <1>1, <1>2, <1>3 DEF AsksForNewer
  <2> QED BY <2>3, <2>4 DEF Wanted
<1>6. /\ requests' = [requests EXCEPT ![p] = wanted]
      /\ state' = [state EXCEPT ![p] = IF wanted = {} THEN FULL ELSE LOADING]
      /\ Transmit(q, out)
      /\ UNCHANGED <<ms, headers, nbrList, adjList, upLinks, lsdb, rx, now>>
      /\ ddSeq' = [ddSeq EXCEPT ![p] = IF ms[p] = 1 THEN IncDDseq(@) ELSE m.seq]
  BY <1>5 DEF DDProcessed, ownVars
<1>7. /\ state'[p] \in {LOADING, FULL} /\ requests'[p] = wanted
      /\ wanted # {} => state'[p] = LOADING
      /\ \A o \in Pair : o # p => /\ state'[o] = state[o] /\ ddSeq'[o] = ddSeq[o]
                                  /\ requests'[o] = requests[o]
  BY <1>2, <1>3, <1>6 DEF PhaseTypes
<1> HIDE DEF wanted, news
<1>8. wanted \in SUBSET Router
  BY DEF wanted
<1>9. /\ ask \in Seq(Message) /\ DDs(ask) = {} /\ Updates(ask) = {}
      /\ LateUpdates(ask) = {} /\ Requested(ask) = wanted /\ OnePerTurn(ask)
  BY <1>8, AskedFor
<1>10. /\ out[p] \in Seq(Message) /\ Updates(out[p]) = {} /\ LateUpdates(out[p]) = {}
       /\ Requested(out[p]) = wanted /\ OnePerTurn(out[p])
       /\ DDs(out[p]) = IF ms[p] = 1 THEN {} ELSE {reply}
       /\ \A o \in Pair : o # p => out[o] = <<>>
  <2>1. /\ out[p] = IF ms[p] = 1 THEN ask ELSE <<reply>> \o ask
        /\ \A o \in Pair : o # p => out[o] = <<>>
    BY <1>2, <1>4, <1>5, OnlyTo
  <2>2. reply \in Message /\ reply.type = "DD"
    BY <1>2, <1>3, MessageMade, PacketFields DEF PhaseTypes
  <2> HIDE DEF ask, reply, out
  <2>3. CASE ms[p] = 1
    BY <1>9, <2>1, <2>3
  <2>4. CASE ms[p] # 1
    <3> DEFINE d == <<reply>> \o ask
    <3>1. /\ d \in Seq(Message) /\ DDs(d) = {reply} /\ Updates(d) = {}
          /\ Requested(d) = Requested(ask) /\ OnePerTurn(d) /\ LateUpdates(d) = {}
      BY <1>9, <2>2, SummaryThenAsk
    <3>2. out[p] = d
      BY <2>1, <2>4
    <3> HIDE DEF d
    <3> QED BY <1>9, <2>1, <2>4, <3>1, <3>2
  <2> QED BY <2>3, <2>4
<1> HIDE DEF ask, out
<1>11. Exchanged(p, q, out[p])
  BY <1>1, <1>3, <1>6, <1>10, DDReceived
<1>12. DDs(chan'[q]) = {} /\ DDs(chan'[p]) = DDs(out[p]) /\ OnePerTurn(chan'[p])
       /\ OnePerTurn(chan'[q])
  <2>1. DDs(chan[p]) = {} /\ m.I = 0
    BY <1>4
  <2>2. DDs(chan'[p]) = DDs(chan[p]) \cup DDs(out[p]) /\ OnePerTurn(chan'[q])
    BY <1>11 DEF Exchanged
  <2>3. \A l \in DDs(chan'[q]) : m.I = 1 /\ l.I = 0
    BY <1>11 DEF Exchanged
  <2>4. OnePerTurn(chan'[p])
    BY <1>10, <1>11, <2>1 DEF Exchanged
  <2> QED BY <2>1, <2>2, <2>3, <2>4
<1>13. /\ p \in Leading => InPhase(p, q)'
       /\ q \in Leading => InPhase(q, p)'
  <2>1. CASE p \in Leading
    <3>1. BothDone(p, q)'
      <4>1. SlaveDone(p, q) /\ ms[p] = 1
        BY <1>4, <2>1
      <4>2. state'[q] = state[q] /\ state'[p] >= LOADING /\ DDs(out[p]) = {}
        BY <1>2, <1>7, <1>10, <4>1
      <4> QED BY <1>12, <4>1, <4>2 DEF BothDone, SlaveDone
    <3> QED BY <1>4, <2>1, <3>1 DEF InPhase
  <2>2. CASE p \notin Leading
    <3>1. reply = Summary(p, 0, 2)'
      BY <1>6 DEF Summary
    <3>2. SlaveDone(q, p)'
      <4>1. BothInExchange(q, p) /\ ms[p] = 0
        BY <1>4, <2>2
      <4>2. /\ state'[q] = state[q] /\ ddSeq'[q] = ddSeq[q] /\ ms'[q] = ms[q]
            /\ state'[p] >= LOADING /\ DDs(out[p]) = {reply}
        BY <1>2, <1>6, <1>7, <1>10, <4>1
      <4> QED BY <1>12, <3>1, <4>1, <4>2 DEF SlaveDone, BothInExchange
    <3> QED BY <1>4, <2>2, <3>2 DEF InPhase
  <2> QED BY <2>1, <2>2
<1>14. Remembered
  BY <1>6 DEF Remembered
<1>15. Mutual(p)' /\ Mutual(q)'
  <2>1. Mutual(p) /\ Mutual(q)
    BY <1>2, <1>3 DEF InOrderOfPhases
  <2>2. Mutual(p)'
    BY <1>1, <1>2, <1>7, <1>14, <2>1 DEF Mutual, Remembered
  <2>3. Mutual(q)'
    BY <1>2, <1>7, <1>14, <2>1 DEF Mutual, Remembered
  <2> QED BY <2>2, <2>3
<1>16. InOrderOfPhases'
  <2>1. \A o \in Pair : o # p /\ o # q => Steady(o)
    BY <1>6, <1>7, <1>11 DEF Steady, Untouched, Exchanged
  <2> HIDE DEF p, q
  <2> QED BY <1>2, <1>3, <1>12, <1>13, <1>14, <1>15, <2>1, PhasesKept
<1>17. Summarised(p)
  <2>1. rx.at \notin Pair
    BY <1>1, NoEmptyPair DEF AcceptDD, Arrived, AtRest, Resting
  <2>2. state[q] >= EXCHANGE
    <3>1. state[q] \in DOWN..FULL
      BY <1>2, <1>3 DEF PhaseTypes
    <3> QED BY <1>4, <3>1 DEF SlaveDone, BothInExchange
  <2>3. /\ Requested(chan'[p]) = Requested(chan[p]) \cup wanted
        /\ LateUpdates(chan'[p]) \subseteq LateUpdates(chan[p])
        /\ state[q] <= EXCHANGE => LateUpdates(chan'[p]) = {}
    <3>1. /\ Requested(chan'[p]) = Requested(chan[p]) \cup wanted
          /\ LateUpdates(chan'[p]) \subseteq LateUpdates(chan[p])
      BY <1>10, <1>11 DEF Exchanged
    <3>2. state[q] <= EXCHANGE => LateUpdates(chan'[p]) = {}
      <4>1. state[q] \in DOWN..FULL
        BY <1>2, <1>3 DEF PhaseTypes
      <4>2. state[q] <= EXCHANGE => DDs(out[p]) # {}
        BY <1>4, <1>10, <4>1 DEF SlaveDone
      <4> QED BY <1>10, <1>11, <4>2 DEF Exchanged
    <3> QED BY <3>1, <3>2
  <2>4. LateUpdates(chan[q]) = Updates(chan[q])
    BY <1>11, <1>12 DEF Exchanged
  <2>5. /\ \A o \in Pair : Updates(chan'[o]) = Updates(chan[o])
        /\ \A o \in Pair : o # p => /\ Requested(chan'[o]) = Requested(chan[o])
                                    /\ LateUpdates(chan'[o]) = LateUpdates(chan[o])
    BY <1>10, <1>11 DEF Exchanged, Untouched
  <2> QED BY <1>1, <1>2, <1>6, <1>7, <2>1, <2>2, <2>3, <2>4, <2>5, SMTT(30)
      DEF Summarised, wanted
<1> QED BY <1>2, <1>16, <1>17 DEF DataMoves

-----------------------------------------------------------------------------
(* Requests, updates and acknowledgements.                                 *)

LEMMA TakenFrom ==
  ASSUME TypeOK, NEW q \in Pair, chan[q] # <<>>, NEW out, Transmit(q, out),
         out[q] = <<>>
  PROVE  chan'[q] = Tail(chan[q])
<1>1. chan'[q] = Tail(chan[q]) \o <<>> /\ Tail(chan[q]) \in Seq(Message)
  BY TailOfQueue DEF Transmit, TypeOK
<1> QED BY <1>1, ConcatEmptySeq

(* A request is answered in full: it names only what is held.              *)
LEMMA AnswerSent ==
  ASSUME Coherent, NEW r, NEW n, <<r, n>> \in Pair, ReceiveRequest(r, n)
  PROVE  InOrderOfPhases' /\ DataMoves
<1> DEFINE p == <<r, n>>
           q == <<n, r>>
           ids == Head(chan[q]).ids
           lsas == [a \in Router |-> IF a \in ids THEN lsdb[r][a] ELSE None]
           out == To(p, <<Update(lsas)>>)
<1>1. /\ p \in Pair /\ q \in Pair /\ q # p /\ Reverse(p) = q /\ q[2] = r /\ p[1] = r
      /\ r \in Router
  BY PairReverse, PairType DEF Reverse
<1>2. /\ TypeOK /\ PhaseTypes /\ InOrderOfPhases
      /\ \A o \in Pair : AsksForNewer(o)
  BY DEF Coherent, Synchronising
<1>3. chan[q] # <<>> /\ Head(chan[q]).type = "REQUEST" /\ state[p] >= EXCHANGE
  BY DEF ReceiveRequest, Arrived
<1>4. ids \in SUBSET Router /\ ids \subseteq Held(lsdb[r])
  <2>1. Head(chan[q]) \in Message /\ ids \subseteq Requested(chan[q])
    BY <1>1, <1>2, <1>3, HeadOfQueue DEF TypeOK
  <2> QED BY <1>1, <1>2, <1>3, <2>1, MessageFields DEF AsksForNewer
<1>5. /\ Transmit(q, out)
      /\ UNCHANGED <<state, ms, ddSeq, headers, requests, adjList, nbrList,
                     upLinks, lsdb, rx, now>>
  <2>1. ids \ Held(lsdb[r]) = {}
    BY <1>4
  <2> QED BY <2>1 DEF ReceiveRequest
<1>6. Update(lsas) \in Message /\ Update(lsas).type = "UPDATE" /\ Update(lsas).lsas = lsas
  <2>1. lsas \in Database
    BY <1>1, <1>2 DEF PhaseTypes, Database
  <2> QED BY <2>1, MessageMade DEF Update
<1>7. out[p] = <<Update(lsas)>> /\ \A o \in Pair : o # p => out[o] = <<>>
  BY <1>1, OnlyTo
<1> HIDE DEF out, lsas, ids
<1>8. /\ out[p] \in Seq(Message) /\ DDs(out[p]) = {} /\ Updates(out[p]) = {lsas}
      /\ LateUpdates(out[p]) = {lsas} /\ Requested(out[p]) = {} /\ OnePerTurn(out[p])
  BY <1>6, <1>7, SingleQueue
<1>9. /\ \A o \in Pair : o # p /\ o # q => Untouched(o)
      /\ chan'[q] = Tail(chan[q])
  <2>1. out[q] = <<>> /\ \A o \in Pair : o # p /\ o # q => out[o] = <<>>
    BY <1>1, <1>7
  <2>2. chan'[q] = Tail(chan[q])
    BY <1>1, <1>2, <1>3, <1>5, <2>1, TakenFrom
  <2>3. \A o \in Pair : o # p /\ o # q => Untouched(o)
    BY <1>1, <1>2, <1>3, <1>5, <2>1, UnusedLink
  <2> QED BY <2>2, <2>3
<1>10. /\ DDs(chan'[p]) = DDs(chan[p])
       /\ Updates(chan'[p]) = Updates(chan[p]) \cup {lsas}
       /\ Requested(chan'[p]) = Requested(chan[p])
       /\ LateUpdates(chan'[p]) = LateUpdates(chan[p]) \cup {lsas}
       /\ OnePerTurn(chan[p]) => OnePerTurn(chan'[p])
  <2>1. /\ DDs(chan'[p]) = DDs(chan[p]) \cup DDs(out[p])
        /\ Updates(chan'[p]) = Updates(chan[p]) \cup Updates(out[p])
        /\ Requested(chan'[p]) = Requested(chan[p]) \cup Requested(out[p])
        /\ LateUpdates(chan'[p]) = LateUpdates(out[p]) \cup
             (IF DDs(out[p]) = {} THEN LateUpdates(chan[p]) ELSE {})
        /\ OnePerTurn(chan'[p]) <=>
             /\ OnePerTurn(chan[p]) /\ OnePerTurn(out[p])
             /\ \A k \in DDs(chan[p]), l \in DDs(out[p]) : k.I = 1 /\ l.I = 0
    BY <1>1, <1>2, <1>3, <1>5, <1>7, <1>8, TakesAndSends
  <2> QED BY <1>8, <2>1
<1>11. /\ DDs(chan'[q]) = DDs(chan[q])
       /\ Updates(chan'[q]) = Updates(chan[q])
       /\ Requested(chan[q]) = Requested(chan'[q]) \cup ids
       /\ LateUpdates(chan'[q]) = LateUpdates(chan[q])
       /\ OnePerTurn(chan[q]) => OnePerTurn(chan'[q])
  BY <1>1, <1>2, <1>3, <1>9, TakesHead DEF ids
<1>12. \A o \in Pair : Steady(o)
  BY <1>5, <1>9, <1>10, <1>11 DEF Steady, Untouched
<1>13. Remembered
  BY <1>5 DEF Remembered
<1>14. Supplies(p, ids)
  BY <1>1, <1>3, <1>5, <1>9, <1>10, <1>11 DEF Supplies, Untouched, lsas
<1> QED BY <1>1, <1>2, <1>4, <1>12, <1>13, <1>14, AllSteady DEF DataMoves

(* An update that is taken is still on its way, in hand.                   *)
LEMMA UpdateTaken ==
  ASSUME Coherent, NEW r, NEW n, <<r, n>> \in Pair, ReceiveUpdate(r, n)
  PROVE  InOrderOfPhases' /\ DataMoves
<1> DEFINE p == <<r, n>>
           q == <<n, r>>
           lsas == Head(chan[q]).lsas
<1>1. /\ p \in Pair /\ q \in Pair /\ q # p /\ Reverse(q) = p
      /\ \A o \in Pair : Reverse(o) = p => o = q
  <2>1. p \in Pair /\ q \in Pair /\ q # p /\ Reverse(q) = p /\ Reverse(p) = q
    BY PairReverse DEF Reverse
  <2> QED BY <2>1, PairEnds
<1>2. TypeOK /\ PhaseTypes /\ InOrderOfPhases
  BY DEF Coherent
<1>3. /\ chan[q] # <<>> /\ Head(chan[q]).type = "UPDATE" /\ state[p] >= EXCHANGE
      /\ rx.at = <<>> /\ rx'.at = p /\ rx'.lsas = lsas
      /\ Transmit(q, Silent)
      /\ UNCHANGED <<state, ms, ddSeq, headers, requests, adjList, nbrList,
                     upLinks, lsdb, now>>
  BY DEF ReceiveUpdate, Arrived, AtRest, Resting, nbrVars, ownVars
<1>4. \A o \in Pair : Silent[o] = <<>>
  BY DEF Silent
<1>5. \A o \in Pair : o # q => Untouched(o)
  BY <1>2, <1>3, <1>4, UnusedLink
<1>6. chan'[q] = Tail(chan[q])
  BY <1>1, <1>2, <1>3, <1>4, TakenFrom
<1>7. /\ DDs(chan'[q]) = DDs(chan[q])
      /\ Updates(chan[q]) = Updates(chan'[q]) \cup {lsas}
      /\ Requested(chan'[q]) = Requested(chan[q])
      /\ LateUpdates(chan'[q]) \subseteq LateUpdates(chan[q])
      /\ OnePerTurn(chan[q]) => OnePerTurn(chan'[q])
  BY <1>1, <1>2, <1>3, <1>6, TakesHead
<1> HIDE DEF lsas, p, q
<1>8. \A o \in Pair : OnWay(o)' = OnWay(o)
  <2>1. OnWay(q) = Updates(chan[q])
    BY <1>1, <1>3, NoEmptyPair DEF OnWay
  <2>2. OnWay(q)' = Updates(chan'[q]) \cup {lsas}
    BY <1>1, <1>3 DEF OnWay, Reverse
  <2>3. ASSUME NEW o \in Pair, o # q PROVE OnWay(o)' = OnWay(o)
    <3>1. Reverse(o) # p /\ Reverse(o) \in Pair /\ Reverse(o)' = Reverse(o)
      BY <1>1, <2>3, PairEnds DEF Reverse
    <3>2. rx.at # Reverse(o) /\ rx'.at # Reverse(o)
      BY <1>3, <3>1, NoEmptyPair
    <3>3. Updates(chan'[o]) = Updates(chan[o])
      BY <1>5, <2>3 DEF Untouched
    <3> QED BY <3>1, <3>2, <3>3 DEF OnWay
  <2> QED BY <1>7, <2>1, <2>2, <2>3
<1>9. \A o \in Pair : Steady(o)
  BY <1>3, <1>5, <1>7 DEF Steady, Untouched
<1>10. Remembered
  BY <1>3 DEF Remembered
<1>11. ASSUME NEW o \in Pair PROVE IdleAt(o)
  <2>1. CASE o # q
    BY <1>2, <1>3, <1>5, <1>8, <2>1, SameIsIdle DEF Untouched
  <2>2. CASE o = q
    <3>1. state[q] \in DOWN..FULL /\ state[p] \in DOWN..FULL
      BY <1>1, <1>2 DEF PhaseTypes
    <3> QED BY <1>1, <1>3, <1>7, <1>8, <2>2, <3>1 DEF IdleAt
  <2> QED BY <2>1, <2>2
<1> QED BY <1>2, <1>3, <1>9, <1>10, <1>11, AllSteady DEF DataMoves, Idle

(* Below EXCHANGE a router is not asked for anything, and a neighbour that *)
(* is ahead has its summary on the way.                                    *)
LEMMA BelowExchange ==
  ASSUME PhaseTypes, InOrderOfPhases, NEW p \in Pair, state[p] < EXCHANGE
  PROVE  /\ state[Reverse(p)] < LOADING
         /\ state[Reverse(p)] >= EXCHANGE => DDs(chan[Reverse(p)]) # {}
<1> DEFINE q == Reverse(p)
<1>1. q \in Pair /\ state[p] \in DOWN..FULL /\ state[q] \in DOWN..FULL
  BY PairEnds DEF PhaseTypes
<1>2. CASE p \in Leading
  <2>1. InPhase(p, q)
    BY <1>2 DEF InOrderOfPhases
  <2> QED BY <1>1, <2>1 DEF InPhase, Opening, SlaveInExchange, BothInExchange, SlaveDone, BothDone
<1>3. CASE p \notin Leading
  <2>1. InPhase(q, p)
    BY <1>3, PhaseOfPair
  <2> QED BY <1>1, <2>1 DEF InPhase, Opening, SlaveInExchange, BothInExchange, SlaveDone, BothDone
<1> QED BY <1>2, <1>3

(* What is dropped below EXCHANGE is not needed there.                     *)
LEMMA PacketDropped ==
  ASSUME Coherent, NEW r, NEW n, <<r, n>> \in Pair, Dropped(r, n)
  PROVE  InOrderOfPhases' /\ DataMoves
<1> DEFINE p == <<r, n>>
           q == <<n, r>>
           m == Head(chan[q])
<1>1. /\ p \in Pair /\ q \in Pair /\ q # p /\ Reverse(q) = p /\ Reverse(p) = q
  BY PairReverse DEF Reverse
<1>2. /\ TypeOK /\ PhaseTypes /\ InOrderOfPhases
      /\ \A o \in Pair : AsksForNewer(o)
  BY DEF Coherent, Synchronising
<1>3. /\ chan[q] # <<>> /\ m.type \in {"REQUEST", "UPDATE", "ACK"}
      /\ m.type # "ACK" => state[p] < EXCHANGE
      /\ Transmit(q, Silent)
      /\ UNCHANGED <<state, ms, ddSeq, headers, requests, adjList, nbrList,
                     upLinks, lsdb, rx, now>>
  BY DEF Dropped, nbrVars, ownVars
<1>4. \A o \in Pair : Silent[o] = <<>>
  BY DEF Silent
<1>5. \A o \in Pair : o # q => Untouched(o)
  BY <1>2, <1>3, <1>4, UnusedLink
<1>6. chan'[q] = Tail(chan[q])
  BY <1>1, <1>2, <1>3, <1>4, TakenFrom
<1>7. /\ DDs(chan'[q]) = DDs(chan[q])
      /\ Updates(chan[q]) = Updates(chan'[q]) \cup (IF m.type = "UPDATE" THEN {m.lsas} ELSE {})
      /\ Requested(chan[q]) = Requested(chan'[q]) \cup (IF m.type = "REQUEST" THEN m.ids ELSE {})
      /\ LateUpdates(chan[q]) = LateUpdates(chan'[q]) \cup
           (IF m.type = "UPDATE" /\ DDs(chan'[q]) = {} THEN {m.lsas} ELSE {})
      /\ OnePerTurn(chan[q]) => OnePerTurn(chan'[q])
  BY <1>1, <1>2, <1>3, <1>6, TakesHead
<1>8. state[p] \in DOWN..FULL /\ state[q] \in DOWN..FULL
  BY <1>1, <1>2 DEF PhaseTypes
<1>9. m.type # "ACK" => /\ state[q] < LOADING
                        /\ state[q] >= EXCHANGE => DDs(chan[q]) # {}
  BY <1>1, <1>2, <1>3, BelowExchange
<1>10. \A o \in Pair : Steady(o)
  BY <1>3, <1>5, <1>7 DEF Steady, Untouched
<1>11. Remembered
  BY <1>3 DEF Remembered
<1> HIDE DEF m, p, q
<1>12. Requested(chan'[q]) = Requested(chan[q])
  <2>1. CASE m.type = "REQUEST"
    <3>1. Requested(chan[q]) = {}
      BY <1>1, <1>2, <1>8, <1>9, <2>1 DEF AsksForNewer
    <3> QED BY <1>7, <3>1
  <2>2. CASE m.type # "REQUEST"
    BY <1>7, <2>2
  <2> QED BY <2>1, <2>2
<1>13. ASSUME NEW o \in Pair, o # q PROVE IdleAt(o)
  <2>1. OnWay(o)' = OnWay(o)
    BY <1>3, <1>5, <1>13, SameOnWay
  <2> QED BY <1>2, <1>3, <1>5, <1>13, <2>1, SameIsIdle DEF Untouched
<1>14. IdleAt(q)
  <2>1. /\ OnWay(q)' \subseteq OnWay(q)
        /\ \A u \in OnWay(q) : u \in OnWay(q)' \/ state[p] < EXCHANGE
    <3>1. /\ OnWay(q) = Updates(chan[q]) \cup (IF rx.at = p THEN {rx.lsas} ELSE {})
          /\ OnWay(q)' = Updates(chan'[q]) \cup (IF rx.at = p THEN {rx.lsas} ELSE {})
      BY <1>1, <1>3 DEF OnWay, Reverse
    <3> QED BY <1>3, <1>7, <3>1
  <2>2. /\ LateUpdates(chan'[q]) \subseteq LateUpdates(chan[q])
        /\ state[q] >= EXCHANGE /\ state[p] < EXCHANGE =>
             LateUpdates(chan'[q]) = LateUpdates(chan[q])
    BY <1>3, <1>7, <1>9
  <2> QED BY <1>1, <1>3, <1>8, <1>12, <2>1, <2>2 DEF IdleAt
<1> QED BY <1>2, <1>3, <1>10, <1>11, <1>13, <1>14, AllSteady DEF DataMoves, Idle

LEMMA AckTaken ==
  ASSUME Coherent, NEW r, NEW n, <<r, n>> \in Pair, ReceiveAck(r, n)
  PROVE  InOrderOfPhases' /\ DataMoves
<1>1. /\ TypeOK /\ chan[<<n, r>>] # <<>> /\ Head(chan[<<n, r>>]).type = "ACK"
      /\ Transmit(<<n, r>>, Silent)
      /\ UNCHANGED <<state, ms, ddSeq, headers, requests, adjList, nbrList,
                     upLinks, lsdb, rx, now>>
  BY DEF ReceiveAck, Arrived, Coherent, ownVars
<1>2. ASSUME NEW o \in Pair PROVE Untouched(o)
  <2>1. Silent[o] = <<>>
    BY DEF Silent
  <2> QED BY <1>1, <2>1, InertLink
<1>3. Remembered
  BY <1>1 DEF Remembered
<1> QED BY <1>1, <1>2, <1>3, QuietStep

LEMMA AbortedByAging ==
  ASSUME Coherent, NEW r, AgingAborts(r)
  PROVE  InOrderOfPhases' /\ DataMoves
<1>1. UNCHANGED <<state, ms, ddSeq, headers, requests, adjList, nbrList,
                  upLinks, lsdb, rx, now, chan>>
  BY DEF AgingAborts, nbrVars, ownVars
<1>2. \A o \in Pair : Untouched(o)
  BY <1>1 DEF Untouched
<1>3. Remembered
  BY <1>1 DEF Remembered
<1> QED BY <1>1, <1>2, <1>3, QuietStep

LEMMA NothingHappens ==
  ASSUME Coherent, UNCHANGED vars
  PROVE  InOrderOfPhases' /\ DataMoves
<1>1. UNCHANGED <<state, ms, ddSeq, headers, requests, adjList, nbrList,
                  upLinks, lsdb, rx, now, chan>>
  BY DEF vars, nbrVars, ownVars
<1>2. \A o \in Pair : Untouched(o)
  BY <1>1 DEF Untouched
<1>3. Remembered
  BY <1>1 DEF Remembered
<1> QED BY <1>1, <1>2, <1>3, QuietStep

-----------------------------------------------------------------------------
(* Updates in hand, and new instances.                                     *)

(* What flooding leaves on a link, when it sends u there, and when not.    *)
LEMMA CarriesUpdate ==
  ASSUME TypeOK, NEW o \in Pair, NEW out, Transmit(<<>>, out),
         NEW u \in Database, out[o] = <<Update(u)>>
  PROVE  /\ Carries(o, {u})
         /\ DDs(chan'[o]) = DDs(chan[o])
         /\ OnePerTurn(chan[o]) => OnePerTurn(chan'[o])
<1> DEFINE c == chan[o]
           d == out[o]
           e == chan'[o]
<1>1. Update(u) \in Message /\ Update(u).type = "UPDATE" /\ Update(u).lsas = u
  BY MessageMade DEF Update
<1>2. /\ d \in Seq(Message) /\ DDs(d) = {} /\ Updates(d) = {u}
      /\ LateUpdates(d) = {u} /\ Requested(d) = {} /\ OnePerTurn(d)
  BY <1>1, SingleQueue
<1>3. c \in Seq(Message) /\ e = c \o d
  BY NoEmptyPair DEF Transmit, TypeOK
<1> HIDE DEF c, d, e
<1>4. /\ DDs(e) = DDs(c) \cup DDs(d)
      /\ Updates(e) = Updates(c) \cup Updates(d)
      /\ Requested(e) = Requested(c) \cup Requested(d)
      /\ LateUpdates(e) = LateUpdates(d) \cup
           (IF DDs(d) = {} THEN LateUpdates(c) ELSE {})
      /\ OnePerTurn(e) <=>
           /\ OnePerTurn(c) /\ OnePerTurn(d)
           /\ \A k \in DDs(c), l \in DDs(d) : k.I = 1 /\ l.I = 0
  BY <1>2, <1>3, ConcatQueues
<1>5. /\ DDs(e) = DDs(c) /\ (OnePerTurn(c) => OnePerTurn(e))
      /\ Updates(e) = Updates(c) \cup {u} /\ Requested(e) = Requested(c)
      /\ LateUpdates(e) = LateUpdates(c) \cup {u}
  BY <1>2, <1>4
<1> QED BY <1>5 DEF Carries, c, e

LEMMA CarriesNothing ==
  ASSUME TypeOK, NEW o \in Pair, NEW out, Transmit(<<>>, out),
         out[o] = <<>> \/ \E b \in Router : out[o] = <<Ack(b)>>
  PROVE  /\ Carries(o, {})
         /\ DDs(chan'[o]) = DDs(chan[o])
         /\ OnePerTurn(chan[o]) => OnePerTurn(chan'[o])
<1>1. \A b \in Router : Ack(b) \in Inert
  BY MessageMade DEF Inert, Ack
<1>2. out[o] = <<>> \/ \E m \in Inert : out[o] = <<m>>
  BY <1>1
<1>3. Untouched(o)
  BY <1>2, InertLink, NoEmptyPair
<1> QED BY <1>3 DEF Untouched, Carries

(* What the branches for an LSA in hand share.                             *)
LEMMA InHandFacts ==
  ASSUME Coherent, NEW r, NEW n, <<r, n>> \in Pair, NEW a \in Router,
         NextInUpdate(r, n, a)
  PROVE  LET p == <<r, n>>
             q == <<n, r>>
         IN
         /\ p \in Pair /\ q \in Pair /\ Reverse(p) = q /\ r \in Router /\ n \in Router
         /\ p[1] = r /\ p[2] = n
         /\ rx.at = p /\ rx.lsas \in OnWay(q) /\ rx.lsas \in Database
         /\ rx.lsas[a] # None /\ rx.lsas[a] \in Nat /\ lsdb[r][a] \in Int
         /\ lsdb[n][a] \in Int
         /\ rx.lsas[a] <= lsdb[n][a]
         /\ state[p] >= EXCHANGE
         /\ a \in requests[p] => lsdb[r][a] < rx.lsas[a]
         /\ TypeOK /\ PhaseTypes /\ InOrderOfPhases
         /\ \A o \in Pair : AsksForNewer(o)
         /\ \A o \in Pair : state[o] >= EXCHANGE => o[2] \in adjList[o[1]]
         /\ \A o \in Pair : requests[o] # {} => state[o] = LOADING
<1> DEFINE p == <<r, n>>
           q == <<n, r>>
<1>1. /\ p \in Pair /\ q \in Pair /\ Reverse(p) = q /\ Reverse(q) = p
      /\ r \in Router /\ n \in Router /\ q[1] = n
  BY PairReverse, PairType DEF Reverse
<1>2. /\ TypeOK /\ PhaseTypes /\ InOrderOfPhases /\ InHandInExchange
      /\ \A o \in Pair : AsksForNewer(o) /\ SendsItsOwn(o)
  BY DEF Coherent, Synchronising
<1>3. /\ rx.at = p /\ rx.lsas[a] # None /\ rx.lsas \in Database
      /\ rx.lsas[a] \in Nat /\ lsdb[r][a] \in Int /\ lsdb[n][a] \in Int
  <2>1. rx.at = p /\ rx.lsas[a] # None
    BY DEF NextInUpdate, Held
  <2>2. rx.lsas \in Database
    BY <1>2 DEF TypeOK
  <2>3. rx.lsas[a] \in Nat
    BY <2>1, <2>2 DEF Database
  <2>4. lsdb[r] \in Database /\ lsdb[n] \in Database
    BY <1>1, <1>2 DEF TypeOK
  <2> QED BY <2>1, <2>2, <2>3, <2>4, DatabaseValues
<1>4. rx.lsas \in OnWay(q)
  BY <1>1, <1>3 DEF OnWay
<1>5. rx.lsas[a] <= lsdb[n][a]
  BY <1>1, <1>2, <1>4 DEF SendsItsOwn
<1>6. state[p] >= EXCHANGE
  BY <1>1, <1>2, <1>3 DEF InHandInExchange
<1>7. a \in requests[p] => lsdb[r][a] < rx.lsas[a]
  BY <1>1, <1>2, <1>3, <1>4 DEF AsksForNewer
<1>8. ASSUME NEW o \in Pair, state[o] >= EXCHANGE PROVE o[2] \in adjList[o[1]]
  <2>1. state[o] \in DOWN..FULL /\ Mutual(o)
    BY <1>2 DEF PhaseTypes, InOrderOfPhases
  <2> QED BY <1>8, <2>1 DEF Mutual
<1>9. \A o \in Pair : requests[o] # {} => state[o] = LOADING
  BY <1>2 DEF AsksForNewer
<1> QED BY <1>1, <1>2, <1>3, <1>4, <1>5, <1>6, <1>7, <1>8, <1>9

(* What a router asked for is news when it comes.                          *)
LEMMA NothingUnexpected ==
  ASSUME Coherent, NEW r, NEW n, <<r, n>> \in Pair, NEW a \in Router,
         UnexpectedLSA(r, n, a)
  PROVE  FALSE
<1>1. /\ NextInUpdate(r, n, a) /\ ~News(r, a, rx.lsas[a]) /\ a \in requests[<<r, n>>]
  BY DEF UnexpectedLSA
<1>2. rx.lsas[a] # None /\ lsdb[r][a] < rx.lsas[a] /\ rx.lsas[a] \in Nat /\ lsdb[r][a] \in Int
  BY <1>1, InHandFacts, ZenonT(60)
<1> QED BY <1>1, <1>2 DEF News

(* Nothing but the data moves.                                             *)
LEMMA AdvanceIsSteady ==
  ASSUME PhaseTypes, InOrderOfPhases, Remembered, UNCHANGED <<state, ddSeq, ms, headers>>,
         \A o \in Pair : /\ DDs(chan'[o]) = DDs(chan[o])
                         /\ OnePerTurn(chan[o]) => OnePerTurn(chan'[o])
  PROVE  InOrderOfPhases'
<1>1. \A o \in Pair : Steady(o)
  BY DEF Steady
<1> QED BY <1>1, AllSteady

(* News is taken up and goes on to whoever has not asked for it.           *)
LEMMA LSAInstalled ==
  ASSUME Coherent, NEW r, NEW n, <<r, n>> \in Pair, NEW a \in Router,
         InstallLSA(r, n, a)
  PROVE  InOrderOfPhases' /\ DataMoves
<1> DEFINE p == <<r, n>>
           P == Flooded(r, n, a)
           lsa == Only(a, rx.lsas[a])
           out == [q \in Pair |->
                    IF q = <<r, n>> THEN <<Ack(a)>> ELSE ToEach(P, Update(lsa))[q]]
<1>1. NextInUpdate(r, n, a) /\ TakesUp(r, n, a)
  BY DEF InstallLSA, TakesUp
<1>2. /\ p \in Pair /\ r \in Router /\ n \in Router /\ p[1] = r /\ p[2] = n
      /\ rx.at = p
      /\ rx.lsas[a] # None /\ rx.lsas[a] \in Nat /\ lsdb[r][a] \in Int
      /\ rx.lsas[a] <= lsdb[n][a]
      /\ state[p] >= EXCHANGE
      /\ TypeOK /\ PhaseTypes /\ InOrderOfPhases
      /\ \A o \in Pair : AsksForNewer(o)
      /\ \A o \in Pair : state[o] >= EXCHANGE => o[2] \in adjList[o[1]]
      /\ \A o \in Pair : requests[o] # {} => state[o] = LOADING
  BY <1>1, InHandFacts, ZenonT(60)
<1>3. /\ rx' = [rx EXCEPT !.lsas[a] = None]
      /\ lsdb[r][a] < rx.lsas[a]
      /\ requests' = [o \in Pair |-> IF o \in Waiting(r, n, a)
                                     THEN requests[o] \ {a} ELSE requests[o]]
      /\ lsdb' = [lsdb EXCEPT ![r][a] = rx.lsas[a]]
      /\ Transmit(<<>>, out)
      /\ UNCHANGED <<state, ms, ddSeq, headers, adjList, nbrList, upLinks, now>>
  BY DEF InstallLSA, TakesUp, News
<1>4. /\ rx'.at = rx.at /\ rx'.lsas = [rx.lsas EXCEPT ![a] = None]
  BY <1>2, <1>3 DEF TypeOK
<1>5. /\ lsdb'[r][a] = rx.lsas[a]
      /\ \A s, b \in Router : s # r \/ b # a => lsdb'[s][b] = lsdb[s][b]
      /\ \A s, b \in Router : lsdb[s][b] \in Int
  BY <1>2, <1>3, DatabaseValues DEF PhaseTypes, Database
<1>6. P \subseteq {o \in Pair : o[1] = r} /\ p \notin P
  BY <1>2 DEF Flooded, Waiting
<1>7. lsa \in Database
  BY <1>2, DatabaseType
<1> HIDE DEF P, lsa
<1>8. ASSUME NEW o \in Pair
      PROVE  /\ Carries(o, IF o \in P THEN {lsa} ELSE {})
             /\ DDs(chan'[o]) = DDs(chan[o])
             /\ OnePerTurn(chan[o]) => OnePerTurn(chan'[o])
  <2>1. out[o] = IF o = p THEN <<Ack(a)>> ELSE IF o \in P THEN <<Update(lsa)>> ELSE <<>>
    BY DEF ToEach
  <2> HIDE DEF out
  <2>2. CASE o \in P
    <3>1. out[o] = <<Update(lsa)>>
      BY <1>6, <2>1, <2>2
    <3> QED BY <1>2, <1>3, <1>7, <2>2, <3>1, CarriesUpdate
  <2>3. CASE o \notin P
    <3>1. out[o] = <<>> \/ out[o] = <<Ack(a)>>
      BY <2>1, <2>3
    <3> QED BY <1>2, <1>3, <2>3, <3>1, CarriesNothing
  <2> QED BY <2>2, <2>3
<1>9. ASSUME NEW o \in Pair
      PROVE  /\ requests'[o] \subseteq requests[o]
             /\ o[1] # r => requests'[o] = requests[o]
             /\ o[1] = r => a \notin requests'[o]
  <2>1. requests'[o] = IF o \in Waiting(r, n, a) THEN requests[o] \ {a} ELSE requests[o]
    BY <1>3
  <2>2. o[1] # r => o \notin Waiting(r, n, a)
    BY DEF Waiting
  <2>3. o[1] = r /\ a \in requests[o] => o \in Waiting(r, n, a)
    <3>1. a \in requests[o] => state[o] = LOADING
      BY <1>2
    <3> QED BY <1>2, <3>1 DEF Waiting
  <2> QED BY <2>1, <2>2, <2>3
<1>10. ASSUME NEW o \in Pair, o[1] = r, state[o] >= EXCHANGE, o \notin P
       PROVE  \/ lsdb'[r][a] <= lsdb[o[2]][a]
              \/ o # rx.at /\ a \in requests[o]
  <2>1. o[2] = n \/ a \in requests[o]
    BY <1>2, <1>10 DEF P, Flooded, Waiting
  <2>2. o = <<o[1], o[2]>>
    BY PairIsTuple
  <2> QED BY <1>2, <1>5, <1>10, <2>1, <2>2
<1>11. Advances(r, a, P)
  <2>1. \A s \in Router, b \in Router :
          IF s = r /\ b = a THEN lsdb'[s][b] >= lsdb[s][b] ELSE lsdb'[s][b] = lsdb[s][b]
    BY <1>2, <1>3, <1>5
  <2>2. \A o \in Pair : Carries(o, IF o \in P THEN {Only(a, lsdb'[r][a])} ELSE {})
    BY <1>5, <1>8 DEF lsa
  <2>3. rx.lsas[a] <= lsdb'[r][a]
    BY <1>2, <1>5
  <2> QED BY <1>2, <1>3, <1>4, <1>6, <1>9, <1>10, <2>1, <2>2, <2>3 DEF Advances
<1>12. Remembered
  BY <1>3 DEF Remembered
<1>13. InOrderOfPhases'
  BY <1>2, <1>3, <1>8, <1>12, AdvanceIsSteady
<1>14. P \in SUBSET Pair
  BY <1>6
<1> QED BY <1>2, <1>11, <1>13, <1>14 DEF DataMoves

(* The same instance, and an older one, are put aside.                     *)
LEMMA EqualTakenUp ==
  ASSUME Coherent, NEW r, NEW n, <<r, n>> \in Pair, NEW a \in Router,
         EqualLSA(r, n, a)
  PROVE  InOrderOfPhases' /\ DataMoves
<1> DEFINE p == <<r, n>>
           out == To(p, <<Ack(a)>>)
<1>1. NextInUpdate(r, n, a) /\ TakesUp(r, n, a)
  BY DEF EqualLSA, TakesUp
<1>2. /\ p \in Pair /\ r \in Router /\ n \in Router /\ p[1] = r /\ p[2] = n
      /\ rx.at = p /\ rx.lsas[a] <= lsdb[n][a] /\ lsdb[r][a] \in Int
      /\ TypeOK /\ PhaseTypes /\ InOrderOfPhases
  BY <1>1, InHandFacts
<1>3. /\ rx' = [rx EXCEPT !.lsas[a] = None]
      /\ lsdb[r][a] = rx.lsas[a] /\ a \notin requests[p]
      /\ Transmit(<<>>, out)
      /\ UNCHANGED <<state, ms, ddSeq, headers, requests, lsdb, adjList, nbrList,
                     upLinks, now>>
  BY DEF EqualLSA, TakesUp
<1>4. /\ rx'.at = rx.at /\ rx'.lsas = [rx.lsas EXCEPT ![a] = None]
  BY <1>2, <1>3 DEF TypeOK
<1>5. \A s, b \in Router : lsdb[s][b] \in Int
  BY DatabaseValues, <1>2 DEF PhaseTypes
<1>6. ASSUME NEW o \in Pair
      PROVE  /\ Carries(o, {})
             /\ DDs(chan'[o]) = DDs(chan[o])
             /\ OnePerTurn(chan[o]) => OnePerTurn(chan'[o])
  <2>1. out[o] = <<>> \/ out[o] = <<Ack(a)>>
    BY <1>2, OnlyTo
  <2> HIDE DEF out
  <2> QED BY <1>2, <1>3, <2>1, CarriesNothing
<1>7. Advances(r, a, {})
  <2>1. ASSUME NEW o \in Pair, o[1] = r, state[o] >= EXCHANGE
        PROVE  lsdb'[r][a] <= lsdb[o[2]][a] \/ (o # rx.at /\ lsdb'[r][a] = lsdb[r][a])
    BY <1>2, <1>3, <2>1
  <2>2. \A s \in Router, b \in Router :
          IF s = r /\ b = a THEN lsdb'[s][b] >= lsdb[s][b] ELSE lsdb'[s][b] = lsdb[s][b]
    BY <1>3, <1>5
  <2>3. rx.lsas[a] <= lsdb'[r][a] /\ rx.at[1] = r
    BY <1>2, <1>3
  <2>4. \A o \in Pair : o[1] = r /\ a \in requests'[o] =>
          o # rx.at /\ lsdb'[r][a] = lsdb[r][a]
    BY <1>2, <1>3
  <2> QED BY <1>3, <1>4, <1>6, <2>1, <2>2, <2>3, <2>4 DEF Advances
<1>8. Remembered
  BY <1>3 DEF Remembered
<1>9. InOrderOfPhases'
  BY <1>2, <1>3, <1>6, <1>8, AdvanceIsSteady
<1> QED BY <1>2, <1>7, <1>9 DEF DataMoves

LEMMA OlderTakenUp ==
  ASSUME Coherent, NEW r, NEW n, <<r, n>> \in Pair, NEW a \in Router,
         OlderLSA(r, n, a)
  PROVE  InOrderOfPhases' /\ DataMoves
<1> DEFINE p == <<r, n>>
           lsa == Only(a, lsdb[r][a])
           out == To(p, <<Update(lsa)>>)
<1>1. NextInUpdate(r, n, a) /\ TakesUp(r, n, a)
  BY DEF OlderLSA, TakesUp
<1>2. /\ p \in Pair /\ r \in Router /\ n \in Router /\ p[1] = r /\ p[2] = n
      /\ rx.at = p /\ rx.lsas[a] \in Nat /\ lsdb[r][a] \in Int
      /\ TypeOK /\ PhaseTypes /\ InOrderOfPhases
  BY <1>1, InHandFacts
<1>3. /\ rx' = [rx EXCEPT !.lsas[a] = None]
      /\ rx.lsas[a] < lsdb[r][a] /\ a \notin requests[p]
      /\ Transmit(<<>>, out)
      /\ UNCHANGED <<state, ms, ddSeq, headers, requests, lsdb, adjList, nbrList,
                     upLinks, now>>
  BY DEF OlderLSA, TakesUp
<1>4. /\ rx'.at = rx.at /\ rx'.lsas = [rx.lsas EXCEPT ![a] = None]
  BY <1>2, <1>3 DEF TypeOK
<1>5. \A s, b \in Router : lsdb[s][b] \in Int
  BY DatabaseValues, <1>2 DEF PhaseTypes
<1>6. lsa \in Database
  <2>1. lsdb[r][a] \in Nat \cup {None}
    BY <1>2 DEF PhaseTypes, Database
  <2> QED BY <2>1, DatabaseType
<1> HIDE DEF lsa
<1>7. ASSUME NEW o \in Pair
      PROVE  /\ Carries(o, IF o \in {p} THEN {lsa} ELSE {})
             /\ DDs(chan'[o]) = DDs(chan[o])
             /\ OnePerTurn(chan[o]) => OnePerTurn(chan'[o])
  <2>1. out[o] = IF o = p THEN <<Update(lsa)>> ELSE <<>>
    BY <1>2, OnlyTo
  <2> HIDE DEF out, p
  <2>2. CASE o = p
    BY <1>2, <1>3, <1>6, <2>1, <2>2, CarriesUpdate
  <2>3. CASE o # p
    BY <1>2, <1>3, <2>1, <2>3, CarriesNothing
  <2> QED BY <2>2, <2>3
<1>8. Advances(r, a, {p})
  <2>1. \A s \in Router, b \in Router :
          IF s = r /\ b = a THEN lsdb'[s][b] >= lsdb[s][b] ELSE lsdb'[s][b] = lsdb[s][b]
    BY <1>3, <1>5
  <2>2. rx.lsas[a] <= lsdb'[r][a] /\ rx.at[1] = r
    BY <1>2, <1>3
  <2>3. \A o \in Pair : o[1] = r /\ a \in requests'[o] =>
          o # rx.at /\ lsdb'[r][a] = lsdb[r][a]
    BY <1>2, <1>3
  <2>4. \A o \in Pair : Carries(o, IF o \in {p} THEN {Only(a, lsdb'[r][a])} ELSE {})
    BY <1>3, <1>7 DEF lsa
  <2> QED BY <1>2, <1>3, <1>4, <2>1, <2>2, <2>3, <2>4 DEF Advances
<1>9. Remembered
  BY <1>3 DEF Remembered
<1>10. InOrderOfPhases'
  BY <1>2, <1>3, <1>7, <1>9, AdvanceIsSteady
<1>11. {p} \in SUBSET Pair
  BY <1>2
<1> QED BY <1>2, <1>8, <1>10, <1>11 DEF DataMoves

(* The end of the loop: all that leaves a router's hands is an empty list, *)
(* and LOADING ends with nothing left to wait for.                         *)
LEMMA UpdateFinished ==
  ASSUME Coherent, NEW r, NEW n, <<r, n>> \in Pair, FinishUpdate(r, n)
  PROVE  InOrderOfPhases' /\ DataMoves
<1> DEFINE p == <<r, n>>
           q == <<n, r>>
<1>1. /\ p \in Pair /\ q \in Pair /\ q # p /\ Reverse(q) = p
      /\ \A o \in Pair : Reverse(o) = p => o = q
  <2>1. p \in Pair /\ q \in Pair /\ q # p /\ Reverse(q) = p /\ Reverse(p) = q
    BY PairReverse DEF Reverse
  <2> QED BY <2>1, PairEnds
<1>2. TypeOK /\ PhaseTypes /\ InOrderOfPhases
  BY DEF Coherent
<1>3. /\ rx.at = p /\ Held(rx.lsas) = {} /\ rx' = Resting
      /\ state' = [state EXCEPT ![p] =
                     IF LoadingDone(p) /\ @ = LOADING THEN FULL ELSE @]
      /\ UNCHANGED <<ms, ddSeq, headers, requests, adjList, nbrList, upLinks,
                     lsdb, now, chan>>
  BY DEF FinishUpdate, ownVars
<1>4. rx.lsas = Empty
  BY <1>2, <1>3 DEF TypeOK, Database, Held, Empty
<1>5. \A o \in Pair : /\ state[o] \in DOWN..FULL /\ state'[o] \in DOWN..FULL
                      /\ requests[o] # {} => state'[o] = state[o]
                      /\ \/ state'[o] = state[o]
                         \/ state[o] = LOADING /\ state'[o] = FULL
  BY <1>2, <1>3 DEF PhaseTypes, LoadingDone
<1>6. \A o \in Pair : Untouched(o)
  BY <1>3 DEF Untouched
<1> HIDE DEF p, q
<1>7. ASSUME NEW o \in Pair
      PROVE  /\ OnWay(o)' \subseteq OnWay(o)
             /\ \A u \in OnWay(o) : u \in OnWay(o)' \/ u = Empty
  <2>1. Reverse(o) \in Pair /\ rx'.at = <<>> /\ chan' = chan
    BY <1>3, PairEnds DEF Resting
  <2>2. OnWay(o)' = Updates(chan[o])
    BY <2>1, NoEmptyPair DEF OnWay, Reverse
  <2>3. OnWay(o) \subseteq Updates(chan[o]) \cup {Empty} /\ Updates(chan[o]) \subseteq OnWay(o)
    BY <1>4 DEF OnWay
  <2> QED BY <2>2, <2>3
<1>8. ASSUME NEW o \in Pair PROVE IdleAt(o)
  <2>1. /\ headers'[o] = headers[o] /\ chan'[o] = chan[o]
        /\ state[o] >= EXCHANGE => state'[o] >= EXCHANGE
        /\ state'[o] >= EXCHANGE => state[o] >= EXCHANGE
        /\ state'[o] <= EXCHANGE <=> state[o] <= EXCHANGE
        /\ requests[o] # {} => state'[o] = state[o]
    BY <1>3, <1>5
  <2> QED BY <1>7, <2>1 DEF IdleAt
<1>9. \A o \in Pair : Steady(o)
  BY <1>3, <1>5, <1>6 DEF Steady, Untouched
<1>10. Remembered
  BY <1>3 DEF Remembered
<1> QED BY <1>2, <1>3, <1>8, <1>9, <1>10, AllSteady DEF DataMoves, Idle

(* A new instance of a router's own LSA goes to every router it exchanges  *)
(* a database with, all of them adjacent.                                  *)
LEMMA NewInstance ==
  ASSUME Coherent, NEW r \in Router, CostChanged(r)
  PROVE  InOrderOfPhases' /\ DataMoves
<1> DEFINE P == FloodOwn(r, r) \cap Pair
           lsa == Only(r, NextOwn(r))
           out == ToEach(FloodOwn(r, r), Update(lsa))
<1>1. /\ TypeOK /\ PhaseTypes /\ InOrderOfPhases /\ InstancesAreMade
      /\ \A o \in Pair : AsksForNewer(o)
  BY DEF Coherent, Synchronising
<1>2. /\ rx.at = <<>> /\ Transmit(<<>>, out) /\ Originate(r)
      /\ upLinks' = [upLinks EXCEPT ![r] = Neighbours(r)]
      /\ UNCHANGED <<state, ms, ddSeq, headers, requests, nbrList, adjList, rx, now>>
  BY DEF CostChanged, AtRest, Resting
<1>3. lsa \in Database /\ NextOwn(r) \in Nat /\ NextOwn(r) = lsdb[r][r] + 1
  BY <1>1, NextOwnType DEF NextOwn
<1>4. /\ lsdb'[r][r] = NextOwn(r)
      /\ \A s, b \in Router : s # r \/ b # r => lsdb'[s][b] = lsdb[s][b]
      /\ \A s, b \in Router : lsdb[s][b] \in Int
  <2>1. \A s, b \in Router : lsdb[s][b] \in Int
    BY <1>1, DatabaseValues DEF PhaseTypes
  <2>2. lsdb' = [lsdb EXCEPT ![r][r] = NextOwn(r)]
    BY <1>2 DEF Originate, NextOwn
  <2> QED BY <1>1, <2>1, <2>2 DEF PhaseTypes, Database
<1>5. ASSUME NEW o \in Pair
      PROVE  /\ Carries(o, IF o \in P THEN {lsa} ELSE {})
             /\ DDs(chan'[o]) = DDs(chan[o])
             /\ OnePerTurn(chan[o]) => OnePerTurn(chan'[o])
  <2>1. out[o] = IF o \in P THEN <<Update(lsa)>> ELSE <<>>
    BY DEF ToEach
  <2> HIDE DEF out, P, lsa
  <2>2. CASE o \in P
    BY <1>1, <1>2, <1>3, <2>1, <2>2, CarriesUpdate
  <2>3. CASE o \notin P
    BY <1>1, <1>2, <2>1, <2>3, CarriesNothing
  <2> QED BY <2>2, <2>3
<1>6. ASSUME NEW o \in Pair, o[1] = r PROVE r \notin requests[o]
  <2>1. o[2] \in Router /\ lsdb[o[2]][r] <= lsdb[r][r]
    BY <1>1, PairEnds DEF InstancesAreMade, Made
  <2>2. r \in requests[o] => lsdb[r][r] < lsdb[o[2]][r]
    BY <1>1, <1>6 DEF AsksForNewer
  <2> QED BY <1>4, <2>1, <2>2
<1>7. ASSUME NEW o \in Pair, o[1] = r, state[o] >= EXCHANGE PROVE o \in P
  <2>1. state[o] \in DOWN..FULL /\ Mutual(o)
    BY <1>1 DEF PhaseTypes, InOrderOfPhases
  <2>2. o[2] \in adjList[r] /\ o = <<r, o[2]>> /\ o[2] # r
    BY <1>7, <2>1, PairEnds DEF Mutual
  <2> QED BY <2>2 DEF FloodOwn
<1>8. P \subseteq {o \in Pair : o[1] = r}
  BY DEF FloodOwn
<1> HIDE DEF P
<1>9. Advances(r, r, P)
  <2>1. \A s \in Router, b \in Router :
          IF s = r /\ b = r THEN lsdb'[s][b] >= lsdb[s][b] ELSE lsdb'[s][b] = lsdb[s][b]
    BY <1>3, <1>4
  <2>2. \A o \in Pair : Carries(o, IF o \in P THEN {Only(r, lsdb'[r][r])} ELSE {})
    BY <1>4, <1>5
  <2>3. rx.at \notin Pair
    BY <1>2, NoEmptyPair
  <2>4. \A o \in Pair : o[1] = r => r \notin requests'[o]
    BY <1>2, <1>6
  <2> HIDE DEF lsa, out
  <2> QED BY <1>2, <1>7, <1>8, <2>1, <2>2, <2>3, <2>4 DEF Advances
<1>10. Remembered
  <2>1. \A o \in Pair : o[2] \in upLinks[o[1]] => o[2] \in upLinks'[o[1]]
    <3> SUFFICES ASSUME NEW o \in Pair, o[2] \in upLinks[o[1]]
                 PROVE  o[2] \in upLinks'[o[1]]
      OBVIOUS
    <3>1. o[1] \in Router /\ o[2] \in Router /\ o = <<o[1], o[2]>>
      BY PairEnds
    <3>2. o[1] = r => o[2] \in Neighbours(r)
      BY <3>1 DEF Neighbours
    <3> QED BY <1>1, <1>2, <3>1, <3>2 DEF PhaseTypes
  <2> QED BY <1>2, <2>1 DEF Remembered
<1>11. InOrderOfPhases'
  BY <1>1, <1>2, <1>5, <1>10, AdvanceIsSteady
<1>12. P \in SUBSET Pair
  BY <1>8
<1> QED BY <1>9, <1>11, <1>12 DEF DataMoves

-----------------------------------------------------------------------------
(* Every step, when nothing is lost, sent again or given up.               *)

LEMMA PacketMoves ==
  ASSUME Coherent, NEW r, NEW n, <<r, n>> \in Pair, Receive(r, n)
  PROVE  InOrderOfPhases' /\ DataMoves
<1>1. CASE ReceiveHelloTwoWay(r, n)
  BY <1>1, HelloTwoWay
<1>2. CASE ReceiveHelloOneWay(r, n)
  BY <1>2, HelloOneWay
<1>3. CASE DDIgnored(r, n)
  BY <1>3, DDNeverIgnored
<1>4. CASE NegotiateAsSlave(r, n)
  BY <1>4, SlaveNegotiated
<1>5. CASE NegotiateAsMaster(r, n)
  BY <1>5, MasterNegotiated
<1>6. CASE RolesUndecided(r, n)
  BY <1>6, StillUndecided
<1>7. CASE DDOutOfTurn(r, n)
  BY <1>7, DDNeverOutOfTurn
<1>8. CASE DDProcessed(r, n)
  BY <1>8, SummaryTaken
<1>9. CASE ReceiveRequest(r, n)
  BY <1>9, AnswerSent
<1>10. CASE ReceiveUpdate(r, n)
  BY <1>10, UpdateTaken
<1>11. CASE Dropped(r, n)
  BY <1>11, PacketDropped
<1>12. CASE ReceiveAck(r, n)
  BY <1>12, AckTaken
<1> QED BY <1>1, <1>2, <1>3, <1>4, <1>5, <1>6, <1>7, <1>8, <1>9, <1>10, <1>11,
           <1>12 DEF Receive

LEMMA InHandMoves ==
  ASSUME Coherent, NEW r, NEW n, <<r, n>> \in Pair, WorkThrough(r, n)
  PROVE  InOrderOfPhases' /\ DataMoves
<1>1. CASE FinishUpdate(r, n)
  BY <1>1, UpdateFinished
<1>2. ASSUME NEW a \in Router, InstallLSA(r, n, a)
      PROVE  InOrderOfPhases' /\ DataMoves
  BY <1>2, LSAInstalled
<1>3. ASSUME NEW a \in Router, UnexpectedLSA(r, n, a)
      PROVE  InOrderOfPhases' /\ DataMoves
  BY <1>3, NothingUnexpected
<1>4. ASSUME NEW a \in Router, EqualLSA(r, n, a)
      PROVE  InOrderOfPhases' /\ DataMoves
  BY <1>4, EqualTakenUp
<1>5. ASSUME NEW a \in Router, OlderLSA(r, n, a)
      PROVE  InOrderOfPhases' /\ DataMoves
  BY <1>5, OlderTakenUp
<1> QED BY <1>1, <1>2, <1>3, <1>4, <1>5 DEF WorkThrough

(* Every step keeps the phases and is of one of the four kinds.            *)
LEMMA CoherentMoves ==
  ASSUME Events \subseteq {"hello", "aging"}, Coherent, [Next]_vars
  PROVE  InOrderOfPhases' /\ DataMoves
<1>1. "resend" \notin Events /\ "inactivity" \notin Events /\ "loss" \notin Events
  OBVIOUS
<1>2. CASE UNCHANGED vars
  BY <1>2, NothingHappens
<1>3. ASSUME NEW p \in Pair,
             \/ Receive(p[1], p[2]) \/ WorkThrough(p[1], p[2])
             \/ Timer(p[1], p[2]) \/ Lose(p)
      PROVE  InOrderOfPhases' /\ DataMoves
  <2>1. <<p[1], p[2]>> \in Pair
    BY PairEnds
  <2>2. ~Timer(p[1], p[2]) /\ ~Lose(p)
    BY <1>1 DEF Timer, AckTimerExpires, UpdTimerExpires, InactivityExpires, Lose
  <2> QED BY <1>3, <2>1, <2>2, PacketMoves, InHandMoves
<1>4. ASSUME NEW r \in Router, SendHellos(r) \/ CostChanged(r) \/ AgingAborts(r)
      PROVE  InOrderOfPhases' /\ DataMoves
  BY <1>4, HelloSent, NewInstance, AbortedByAging
<1> QED BY <1>2, <1>3, <1>4 DEF Next

LEMMA DataSynchronises ==
  ASSUME TypeOK, TypeOK', InHandInExchange, Synchronising, DataMoves
  PROVE  Synchronising'
<1>1. DataTypes
  BY DataTyped
<1>2. DataTypes'
  <2>1. TypeOK' => DataTypes'
    BY DataTyped, PTL
  <2> QED BY <2>1
<1>3. (rx.at \in Pair \/ rx.at = <<>>) /\ rx.lsas \in Database
  BY DEF TypeOK
<1>4. CASE Idle
  BY <1>1, <1>2, <1>4, IdleSynchronises
<1>5. ASSUME NEW r \in Router, NEW a \in Router, NEW P \in SUBSET Pair, Advances(r, a, P)
      PROVE  Synchronising'
  BY <1>1, <1>2, <1>3, <1>5, AdvanceSynchronises
<1>6. ASSUME NEW p \in Pair, Summarised(p) PROVE Synchronising'
  BY <1>1, <1>2, <1>6, SummarySynchronises
<1>7. ASSUME NEW p \in Pair, NEW ids \in SUBSET Router, Supplies(p, ids)
      PROVE  Synchronising'
  BY <1>1, <1>2, <1>7, SupplySynchronises
<1> QED BY <1>4, <1>5, <1>6, <1>7 DEF DataMoves

(* The invariants are inductive.                                           *)
LEMMA SynchronisingNext ==
  ASSUME Events \subseteq {"hello", "aging"}
  PROVE  /\ TypeOK /\ TypeOK'
         /\ HeardNeighbours /\ InstancesAreMade /\ InHandInExchange
         /\ InOrderOfPhases /\ Synchronising
         /\ [Next]_vars
         => InOrderOfPhases' /\ Synchronising'
<1> SUFFICES ASSUME TypeOK, TypeOK', HeardNeighbours, InstancesAreMade,
                    InHandInExchange, InOrderOfPhases, Synchronising, [Next]_vars
             PROVE  InOrderOfPhases' /\ Synchronising'
  OBVIOUS
<1>1. Coherent
  BY DEF Coherent, PhaseTypes, TypeOK
<1>2. InOrderOfPhases' /\ DataMoves
  BY <1>1, CoherentMoves
<1> QED BY <1>2, DataSynchronises

LEMMA SynchronisingInit == Init => InOrderOfPhases /\ Synchronising
<1> SUFFICES ASSUME Init PROVE InOrderOfPhases /\ Synchronising
  OBVIOUS
<1>1. \A p \in Pair : /\ state[p] = DOWN /\ ddSeq[p] = 0 /\ chan[p] = <<>>
                      /\ requests[p] = {} /\ rx.at \notin Pair
                      /\ p[2] \in upLinks[p[1]]
  <2>1. ASSUME NEW p \in Pair PROVE p[2] \in upLinks[p[1]]
    <3>1. p[1] \in Router /\ p[2] \in Router /\ <<p[1], p[2]>> \in Pair
      BY PairEnds
    <3> QED BY <3>1 DEF Init, Neighbours
  <2> QED BY <2>1, NoEmptyPair DEF Init, Resting
<1>2. \A p \in Pair : /\ DDs(chan[p]) = {} /\ Updates(chan[p]) = {}
                      /\ LateUpdates(chan[p]) = {} /\ Requested(chan[p]) = {}
                      /\ OnePerTurn(chan[p])
  BY <1>1, NoQueue
<1>3. \A p \in Pair : OnWay(p) = {}
  BY <1>1, <1>2, PairEnds DEF OnWay
<1>4. InOrderOfPhases
  <2>1. \A p \in Pair : Mutual(p) /\ Opening(p)
    BY <1>1, <1>2 DEF Mutual, Opening
  <2>2. now = 0
    BY DEF Init
  <2>3. \A p \in Leading : p \in Pair /\ Reverse(p) \in Pair
    BY PairEnds DEF Leading
  <2> QED BY <1>2, <2>1, <2>2, <2>3 DEF InOrderOfPhases, InPhase
<1>5. ASSUME NEW p \in Pair
      PROVE  CatchingUp(p) /\ AsksForNewer(p) /\ SendsItsOwn(p)
  <2>1. ~(state[p] >= EXCHANGE)
    BY <1>1
  <2>2. CatchingUp(p)
    BY <2>1 DEF CatchingUp
  <2>3. AsksForNewer(p)
    BY <1>1, <1>2 DEF AsksForNewer
  <2>4. SendsItsOwn(p)
    BY <1>3, <2>1 DEF SendsItsOwn
  <2> QED BY <2>2, <2>3, <2>4
<1> QED BY <1>4, <1>5 DEF Synchronising

(* With nothing on its way and every adjacency full, a router that will    *)
(* have the neighbour's instance has it.                                   *)
LEMMA QuietAgrees ==
  TypeOK /\ Synchronising => SynchronisedWhenQuiet
<1> SUFFICES ASSUME TypeOK, Synchronising, Quiet, rx = Resting PROVE Agreed
  BY DEF SynchronisedWhenQuiet
<1>1. \A p \in Pair : /\ state[p] = FULL /\ chan[p] = <<>> /\ rx.at \notin Pair
  BY NoEmptyPair DEF Quiet, Resting
<1>2. \A p \in Pair : /\ Requested(chan[p]) = {} /\ OnWay(p) = {}
  BY <1>1, NoQueue, PairEnds DEF OnWay
<1>3. ASSUME NEW p \in Pair, NEW a \in Router PROVE lsdb[p[1]][a] <= lsdb[p[2]][a]
  <2>1. Reverse(p) \in Pair /\ WillCatchUp(p, a)
    BY <1>1, PairEnds DEF Synchronising, CatchingUp
  <2> QED BY <1>1, <1>2, <2>1 DEF WillCatchUp, Due, Asked
<1>4. ASSUME NEW p \in Pair PROVE lsdb[p[1]] = lsdb[p[2]]
  <2>1. /\ Reverse(p) \in Pair /\ Reverse(p)[1] = p[2] /\ Reverse(p)[2] = p[1]
        /\ lsdb[p[1]] \in Database /\ lsdb[p[2]] \in Database
    BY PairEnds DEF TypeOK
  <2>2. \A a \in Router : lsdb[p[1]][a] = lsdb[p[2]][a]
    <3> SUFFICES ASSUME NEW a \in Router PROVE lsdb[p[1]][a] = lsdb[p[2]][a]
      OBVIOUS
    <3>1. lsdb[p[1]][a] <= lsdb[p[2]][a] /\ lsdb[p[2]][a] <= lsdb[p[1]][a]
      BY <1>3, <2>1
    <3>2. lsdb[p[1]][a] \in Int /\ lsdb[p[2]][a] \in Int
      BY <2>1, DatabaseValues
    <3> QED BY <3>1, <3>2
  <2> QED BY <2>1, <2>2 DEF Database
<1> QED BY <1>4 DEF Agreed

(* On links that lose nothing, when no timer sends a packet again and no   *)
(* neighbour is given up, two neighbours that are FULL with nothing on its *)
(* way hold the same database: whatever order the hellos, the descriptions *)
(* and the cost changes come in, and however the floods of other routers   *)
(* cross the exchange, no instance slips between the summary a router has  *)
(* sent, the requests it has yet to answer and the updates it floods.      *)
THEOREM QuietIsSynchronised ==
  ASSUME Events \subseteq {"hello", "aging"}
  PROVE  Spec => []SynchronisedWhenQuiet
<1>1. Init => InHandInExchange
  BY NothingInHand DEF Init
<1>2. /\ TypeOK /\ TypeOK'
      /\ HeardNeighbours /\ InstancesAreMade /\ InHandInExchange
      /\ InOrderOfPhases /\ Synchronising
      /\ [Next]_vars
      => InOrderOfPhases' /\ Synchronising'
  BY SynchronisingNext
<1> QED BY <1>1, <1>2, SynchronisingInit, QuietAgrees, InHandNext, HeardAgree,
           InstancesMade, TypeCorrect, PTL DEF Spec
=============================================================================
