--------------------------- MODULE OspfAdjacency ---------------------------
(***************************************************************************)
(* The OSPF agents of ns-2.35/ospf/ospf.cc on a network of point-to-point  *)
(* links: the hello protocol, the database exchange, flooding and          *)
(* acknowledgement of link state advertisements, and the timers that drive *)
(* them.  One action is one call the scheduler makes into an agent: a      *)
(* packet handed to OspfRouting::receiveMessage, an expired timer, the     *)
(* periodic hello, or a cost change.                                       *)
(*                                                                         *)
(* The simulator is single-threaded and every handler runs to completion.  *)
(* The one handler whose loop is modelled step by step is receiveUpdate:   *)
(* while rx names the update in hand, no other action is enabled.          *)
(*                                                                         *)
(* Abstractions.  An advertisement is its originator and its sequence      *)
(* number (all are router LSAs with LS_ID_ = advertising_router_); its     *)
(* link list is a function of the two.  LSage_ stays below LSRefreshTime.  *)
(* The routing table is recomputed in the same handler as every database   *)
(* change, so it is a function of lsdb.  A packet may be lost at any time: *)
(* a link down, a full queue, or a message recycled by the message centre. *)
(***************************************************************************)
EXTENDS Integers, Sequences, FiniteSets

CONSTANTS
  Router,        \* node ids; the larger id of a pair is the master
  Link,          \* the point-to-point links, as sets of two routers
  Events,        \* which timers and events of the environment a run explores
  Scripted,      \* the routers whose link costs the script changes
  DeadInterval,  \* how far the clock moves when an inactivity timer fires
  MaxNow, MaxDdSeq, MaxLsSeq, MaxRetrans, MaxQueue   \* bounds of a run

ASSUME RouterAssumption == Router \subseteq Nat /\ IsFiniteSet(Router)

ASSUME LinkAssumption ==
  \A l \in Link : \E a, b \in Router : a # b /\ l = {a, b}

ASSUME EventsAssumption ==
  Events \subseteq {"hello", "resend", "inactivity", "aging", "loss"}

ASSUME ScriptedAssumption == Scripted \subseteq Router

ASSUME BoundsAssumption ==
  /\ DeadInterval \in Nat \ {0}
  /\ MaxNow \in Nat /\ MaxDdSeq \in Nat /\ MaxLsSeq \in Nat
  /\ MaxRetrans \in Nat /\ MaxQueue \in Nat

-----------------------------------------------------------------------------
(* Neighbour states, in the order the code compares them.                  *)

DOWN == 0
ATTEMPT == 1
INIT == 2
TWO_WAY == 3
EX_START == 4
EXCHANGE == 5
LOADING == 6
FULL == 7

(* <<r, n>> indexes what router r keeps about its neighbour n, and the     *)
(* queue of packets on their way from r to n.                              *)
Pair == {p \in Router \X Router : p[1] # p[2] /\ {p[1], p[2]} \in Link}

Neighbours(r) == {n \in Router : <<r, n>> \in Pair}

(* A database maps each originator to the sequence number held, or None.   *)
None == -1
Database == [Router -> Nat \cup {None}]
Empty == [a \in Router |-> None]
Only(a, seq) == [Empty EXCEPT ![a] = seq]
Held(db) == {a \in Router : db[a] # None}

Hello == [type |-> "HELLO"]
DD(initial, master, seq, headers) ==
  [type |-> "DD", I |-> initial, MS |-> master, seq |-> seq, headers |-> headers]
InitialDD(seq) == DD(1, 1, seq, Empty)
Request(ids) == [type |-> "REQUEST", ids |-> ids]
Update(lsas) == [type |-> "UPDATE", lsas |-> lsas]
Ack(a) == [type |-> "ACK", adv |-> a]

Message ==
  {Hello}
    \cup [type : {"DD"}, I : {0, 1}, MS : {0, 1}, seq : Nat, headers : Database]
    \cup [type : {"REQUEST"}, ids : SUBSET Router]
    \cup [type : {"UPDATE"}, lsas : Database]
    \cup [type : {"ACK"}, adv : Router]

NoDD == [seq |-> 0, headers |-> Empty]
NoUpdates == [a \in Router |-> Empty]
NoCopies == [a \in Router |-> 0]
Resting == [at |-> <<>>, entry |-> DOWN, lsas |-> Empty]

VARIABLES
  state,      \* OspfNeighbour::state_
  ms,         \* masterSlave_: 1 when the router is the master of the pair
  ddSeq,      \* ddSeq_, 0 when invalid
  headers,    \* lsHeaderList_
  retrans,    \* lsRetransmissionList_: copies held per originator
  requests,   \* lsRequestList_
  dd,         \* OspfUnackPeer::DdSeq_ and the message it names
  req,        \* ReqSeq_: the request outstanding, {} when none
  upd,        \* UpdateMap_: last unacknowledged update per origin
  ackTimer,   \* is the DD and request retransmission timer pending
  updTimer,   \* is the update retransmission timer pending
  deadTimer,  \* is the inactivity timer pending
  nbrList,    \* neighbourIdList
  adjList,    \* adyacentsIdList
  upLinks,    \* the links of the router's own LSA in LS_STATUS_UP
  lsdb,       \* linkStateDatabase_
  aging,      \* originators whose LsAgingTimer is pending
  chan,       \* packets on each link, oldest first
  rx,         \* the update receiveUpdate is working through
  now,        \* simulation time, as far as DD sequence numbers see it
  halted      \* the process has called abort()

nbrVars == <<state, ms, ddSeq, headers, retrans, requests>>
ackVars == <<dd, req, upd, ackTimer, updTimer>>
ownVars == <<deadTimer, nbrList, adjList, upLinks, lsdb, aging>>
vars == <<nbrVars, ackVars, ownVars, chan, rx, now, halted>>

TypeOK ==
  /\ state \in [Pair -> DOWN..FULL]
  /\ ms \in [Pair -> {0, 1}]
  /\ ddSeq \in [Pair -> Nat]
  /\ headers \in [Pair -> Database]
  /\ retrans \in [Pair -> [Router -> Nat]]
  /\ requests \in [Pair -> SUBSET Router]
  /\ dd \in [Pair -> [seq : Nat, headers : Database]]
  /\ req \in [Pair -> SUBSET Router]
  /\ upd \in [Pair -> [Router -> Database]]
  /\ ackTimer \in [Pair -> BOOLEAN]
  /\ updTimer \in [Pair -> BOOLEAN]
  /\ deadTimer \in [Pair -> BOOLEAN]
  /\ nbrList \in [Router -> SUBSET Router]
  /\ adjList \in [Router -> SUBSET Router]
  /\ upLinks \in [Router -> SUBSET Router]
  /\ lsdb \in [Router -> Database]
  /\ aging \in [Router -> SUBSET Router]
  /\ chan \in [Pair -> Seq(Message)]
  /\ rx \in [at : Pair \cup {<<>>}, entry : DOWN..FULL, lsas : Database]
  /\ now \in Nat
  /\ halted \in BOOLEAN

(* OspfRouting::init: the database holds the router's own LSA, whose links *)
(* are up from the start, and that LSA's aging timer runs.                 *)
Init ==
  /\ state = [p \in Pair |-> DOWN]
  /\ ms = [p \in Pair |-> 0]
  /\ ddSeq = [p \in Pair |-> 0]
  /\ headers = [p \in Pair |-> Empty]
  /\ retrans = [p \in Pair |-> NoCopies]
  /\ requests = [p \in Pair |-> {}]
  /\ dd = [p \in Pair |-> NoDD]
  /\ req = [p \in Pair |-> {}]
  /\ upd = [p \in Pair |-> NoUpdates]
  /\ ackTimer = [p \in Pair |-> FALSE]
  /\ updTimer = [p \in Pair |-> FALSE]
  /\ deadTimer = [p \in Pair |-> FALSE]
  /\ nbrList = [r \in Router |-> {}]
  /\ adjList = [r \in Router |-> {}]
  /\ upLinks = [r \in Router |-> Neighbours(r)]
  /\ lsdb = [r \in Router |-> Only(r, 0)]
  /\ aging = [r \in Router |-> {r}]
  /\ chan = [p \in Pair |-> <<>>]
  /\ rx = Resting
  /\ now = 0
  /\ halted = FALSE

-----------------------------------------------------------------------------
(* Packets.  q is the queue a handler takes its packet from (<<>> when it  *)
(* is not run by a packet), out what it sends on each link, in order.      *)

Silent == [p \in Pair |-> <<>>]
To(p, msgs) == [Silent EXCEPT ![p] = msgs]
ToEach(P, m) == [p \in Pair |-> IF p \in P THEN <<m>> ELSE <<>>]

Transmit(q, out) ==
  chan' = [p \in Pair |-> (IF p = q THEN Tail(chan[p]) ELSE chan[p]) \o out[p]]

(* What a run leaves out: nothing is asked about a state beyond a bound.   *)
WithinBounds ==
  /\ \A p \in Pair :
       /\ Len(chan[p]) <= MaxQueue
       /\ ddSeq[p] <= MaxDdSeq
       /\ \A a \in Router : retrans[p][a] <= MaxRetrans
  /\ \A r \in Router : lsdb[r][r] <= MaxLsSeq

(* The scheduler calls the next handler when the last one has returned.    *)
Running == ~halted /\ WithinBounds
AtRest == rx = Resting /\ Running

(* Router r has a packet of type t from n at the head of the link.         *)
Arrived(r, n, t) ==
  /\ chan[<<n, r>>] # <<>>
  /\ Head(chan[<<n, r>>]).type = t
  /\ AtRest

(* messageOut(OSPF_MSG_UPDATE) for every neighbour in P, for the update    *)
(* lsas of origin a: the map keeps the last one, the timer is rescheduled. *)
Unacked(u, P, a, lsas) ==
  [p \in Pair |-> IF p \in P THEN [u[p] EXCEPT ![a] = lsas] ELSE u[p]]
Armed(timer, P) == [p \in Pair |-> p \in P \/ timer[p]]

(* addLSARetrans of an LSA of each originator in A, for neighbours P.      *)
Listed(P, A) ==
  [p \in Pair |->
     IF p \in P
     THEN [a \in Router |-> retrans[p][a] + (IF a \in A THEN 1 ELSE 0)]
     ELSE retrans[p]]

(* Mutant of Unlisted: the copy is taken off twice.                        *)
UnlistedTwice(p, a) == [retrans[p] EXCEPT ![a] = @ - 2]

(* delLSARetrans takes one copy off, whatever its sequence number.         *)
Unlisted(p, a) == [retrans[p] EXCEPT ![a] = @ - 1]

(* Mutant of IncDDseq: only an invalid number is replaced.                 *)
IncDDseqOnce(seq) == IF seq = 0 THEN now + 1 ELSE seq

(* incDDseq: an invalid sequence number starts from the clock.             *)
IncDDseq(seq) == (IF seq = 0 THEN now ELSE seq) + 1

(* Mutants of News: the copy held is news again, or any other copy is.     *)
NewsOrEqual(r, a, seq) == seq # None /\ seq >= lsdb[r][a]
NewsIfDifferent(r, a, seq) == seq # None /\ seq # lsdb[r][a]

(* lookupLSA(hdr) is NO_EXIST or NEWER: the instance is news to r.         *)
News(r, a, seq) == seq # None /\ seq > lsdb[r][a]

-----------------------------------------------------------------------------
(* The neighbour data is reset three ways: AckManager_.cancelTimer and     *)
(* delAllLists, which spares the retransmission list (its test is          *)
(* inverted), are part of the first two.                                   *)

(* Mutant of CancelUnacked: the request is not forgotten.                  *)
CancelUnackedDD(p) ==
  /\ dd' = [dd EXCEPT ![p] = NoDD]
  /\ ackTimer' = [ackTimer EXCEPT ![p] = FALSE]
  /\ UNCHANGED req

CancelUnacked(p) ==
  /\ dd' = [dd EXCEPT ![p] = NoDD]
  /\ req' = [req EXCEPT ![p] = {}]
  /\ ackTimer' = [ackTimer EXCEPT ![p] = FALSE]

DelAllLists(p) ==
  /\ headers' = [headers EXCEPT ![p] = Empty]
  /\ requests' = [requests EXCEPT ![p] = {}]

(* SeqNumberMismatchEvent and BadLSReqEvent: back to EX_START as master    *)
(* with a new DD sequence number, out of the adjacency list.               *)
Restart(r, n, q) ==
  LET p == <<r, n>> IN
  /\ state' = [state EXCEPT ![p] = EX_START]
  /\ adjList' = [adjList EXCEPT ![r] = @ \ {n}]
  /\ CancelUnacked(p)
  /\ upd' = [upd EXCEPT ![p] = NoUpdates]
  /\ updTimer' = [updTimer EXCEPT ![p] = FALSE]
  /\ DelAllLists(p)
  /\ ddSeq' = [ddSeq EXCEPT ![p] = IncDDseq(@)]
  /\ ms' = [ms EXCEPT ![p] = 1]
  /\ Transmit(q, To(p, <<InitialDD(IncDDseq(ddSeq[p]))>>))

(* A new instance of r's own LSA, flooded by sendLSAToAdyacents to the     *)
(* adjacent routers but one, whatever the state of the adjacency.          *)
NextOwn(r) == lsdb[r][r] + 1

(* Mutant of Originate: flooded, but not put in the database.              *)
OriginateUnsaved(r) == UNCHANGED lsdb

Originate(r) == lsdb' = [lsdb EXCEPT ![r][r] = @ + 1]
FloodOwn(r, except) == {<<r, a>> : a \in adjList[r] \ {except}}

-----------------------------------------------------------------------------
(* The hello protocol.                                                     *)

(* sendHellos, every helloInterval.  The interval is far longer than a     *)
(* link's delay, so the previous hello has left the link.                  *)
SendHellos(r) ==
  /\ "hello" \in Events
  /\ AtRest
  /\ \A n \in Neighbours(r) :
       \A i \in DOMAIN chan[<<r, n>>] : chan[<<r, n>>][i] # Hello
  /\ state' = [p \in Pair |->
                 IF p[1] = r /\ state[p] = DOWN THEN ATTEMPT ELSE state[p]]
  /\ Transmit(<<>>, ToEach({<<r, n>> : n \in Neighbours(r)}, Hello))
  /\ UNCHANGED <<ms, ddSeq, headers, retrans, requests, ackVars, ownVars,
                 rx, now, halted>>

(* receiveHello up to the neighbour events: n is listed, the inactivity    *)
(* timer rescheduled, and if r's own LSA said the link was down it says up *)
(* again (changeRouterLSAState).  Returns in P the neighbours it goes to.  *)
LinkUp(r, n) == n \notin upLinks[r]

(* Mutant of Rescheduled: a timer that is idle stays idle.                 *)
RescheduledIfPending(p) == deadTimer

Rescheduled(p) == [deadTimer EXCEPT ![p] = TRUE]
UpFlood(r, n) == IF LinkUp(r, n) THEN FloodOwn(r, n) ELSE {}

HeardFrom(r, n) ==
  /\ nbrList' = [nbrList EXCEPT ![r] = @ \cup {n}]
  /\ deadTimer' = Rescheduled(<<r, n>>)
  /\ upLinks' = [upLinks EXCEPT ![r] = @ \cup {n}]
  /\ IF LinkUp(r, n)
     THEN /\ Originate(r)
          /\ aging' = [aging EXCEPT ![r] = @ \cup {n}]
     ELSE UNCHANGED <<lsdb, aging>>
  /\ retrans' = Listed(UpFlood(r, n), {r})
  /\ upd' = Unacked(upd, UpFlood(r, n), r, Only(r, NextOwn(r)))
  /\ updTimer' = Armed(updTimer, UpFlood(r, n))
  /\ UNCHANGED <<dd, req, ackTimer, rx, now, halted>>

(* The hello carries a pointer to the sender's neighbour list, so what r   *)
(* reads is that list as it is when the hello arrives.  Two-way: a router  *)
(* at or below INIT starts the database exchange.                          *)
ReceiveHelloTwoWay(r, n) ==
  LET p == <<r, n>>
      starts == state[p] <= INIT
      first == IncDDseq(ddSeq[p])
  IN
  /\ Arrived(r, n, "HELLO")
  /\ r \in nbrList[n]
  /\ HeardFrom(r, n)
  /\ adjList' = [adjList EXCEPT ![r] = @ \cup {n}]
  /\ IF starts
     THEN /\ state' = [state EXCEPT ![p] = EX_START]
          /\ ddSeq' = [ddSeq EXCEPT ![p] = first]
          /\ ms' = [ms EXCEPT ![p] = 1]
     ELSE UNCHANGED <<state, ddSeq, ms>>
  /\ Transmit(<<n, r>>,
       [q \in Pair |->
          IF q = p /\ starts THEN <<InitialDD(first)>>
          ELSE ToEach(UpFlood(r, n), Update(Only(r, NextOwn(r))))[q]])
  /\ UNCHANGED <<headers, requests>>

(* One-way: the neighbour has forgotten r; an exchange under way is        *)
(* dropped, but not the packets it awaits an answer for.                   *)
ReceiveHelloOneWay(r, n) ==
  LET p == <<r, n>> IN
  /\ Arrived(r, n, "HELLO")
  /\ r \notin nbrList[n]
  /\ HeardFrom(r, n)
  /\ state' = [state EXCEPT ![p] = INIT]
  /\ IF state[p] >= TWO_WAY
     THEN /\ DelAllLists(p)
          /\ adjList' = [adjList EXCEPT ![r] = @ \ {n}]
     ELSE UNCHANGED <<headers, requests, adjList>>
  /\ Transmit(<<n, r>>, ToEach(UpFlood(r, n), Update(Only(r, NextOwn(r)))))
  /\ UNCHANGED <<ms, ddSeq>>

(* inactivityTimerEvent: no hello from n for routerDeadInterval.           *)
InactivityExpires(r, n) ==
  LET p == <<r, n>>
      P == IF n \in upLinks[r] THEN FloodOwn(r, n) ELSE {}
  IN
  /\ "inactivity" \in Events
  /\ deadTimer[p]
  /\ AtRest
  /\ now + DeadInterval <= MaxNow
  /\ now' = now + DeadInterval
  /\ deadTimer' = [deadTimer EXCEPT ![p] = FALSE]
  /\ state' = [state EXCEPT ![p] = DOWN]
  /\ DelAllLists(p)
  /\ ms' = [ms EXCEPT ![p] = 0]
  /\ ddSeq' = [ddSeq EXCEPT ![p] = 0]
  /\ adjList' = [adjList EXCEPT ![r] = @ \ {n}]
  /\ nbrList' = [nbrList EXCEPT ![r] = @ \ {n}]
  /\ CancelUnacked(p)
  /\ upLinks' = [upLinks EXCEPT ![r] = @ \ {n}]
  /\ IF n \in upLinks[r]
     THEN /\ Originate(r)
          /\ aging' = [aging EXCEPT ![r] = @ \ {n}]
     ELSE UNCHANGED <<lsdb, aging>>
  /\ retrans' = Listed(P, {r})
  /\ upd' = Unacked([upd EXCEPT ![p] = NoUpdates], P, r, Only(r, NextOwn(r)))
  /\ updTimer' = Armed([updTimer EXCEPT ![p] = FALSE], P)
  /\ Transmit(<<>>, ToEach(P, Update(Only(r, NextOwn(r)))))
  /\ UNCHANGED <<rx, halted>>

-----------------------------------------------------------------------------
(* Database description packets: receiveDD.  A master that has left        *)
(* EX_START first takes the packet as an acknowledgement of its own        *)
(* (messageIn(OSPF_MSG_DD)); with nothing outstanding it cancels ackTimer. *)

TakenAsAck(p) == ms[p] = 1 /\ state[p] # EX_START

DDAfter(p, m) ==
  IF TakenAsAck(p) /\ dd[p].seq = m.seq THEN NoDD ELSE dd[p]

CancelsAckTimer(p, m) ==
  TakenAsAck(p) /\ DDAfter(p, m) = NoDD /\ req[p] = {}

(* TimerHandler::cancel aborts the process when the timer is not pending.  *)
(* Nothing follows a halted state, so what the handler would have done     *)
(* after the call is of no consequence; it is not kept apart.              *)
AcceptDD(r, n) ==
  LET p == <<r, n>> IN
  /\ Arrived(r, n, "DD")
  /\ halted' = (CancelsAckTimer(p, Head(chan[<<n, r>>])) /\ ~ackTimer[p])

AckDD(p, m) ==
  /\ dd' = [dd EXCEPT ![p] = DDAfter(p, m)]
  /\ ackTimer' = [ackTimer EXCEPT ![p] = @ /\ ~CancelsAckTimer(p, m)]

DDIgnored(r, n) ==
  LET p == <<r, n>> IN
  /\ AcceptDD(r, n)
  /\ state[p] <= ATTEMPT
  /\ AckDD(p, Head(chan[<<n, r>>]))
  /\ Transmit(<<n, r>>, Silent)
  /\ UNCHANGED <<nbrVars, req, upd, updTimer, ownVars, rx, now>>

(* In INIT the packet shows two-way connectivity: the router moves to      *)
(* EX_START with a new sequence number and says so before it reads on.     *)
StartSeq(p) == IF state[p] = INIT THEN IncDDseq(ddSeq[p]) ELSE ddSeq[p]
StartDD(p) == IF state[p] = INIT THEN <<InitialDD(StartSeq(p))>> ELSE <<>>

Negotiating(r, n) ==
  /\ AcceptDD(r, n)
  /\ state[<<r, n>>] \in {INIT, EX_START}
  /\ adjList' = [adjList EXCEPT
       ![r] = IF state[<<r, n>>] = INIT THEN @ \cup {n} ELSE @]
  /\ UNCHANGED <<requests, req, upd, updTimer, deadTimer, nbrList, upLinks,
                 lsdb, aging, rx, now>>

(* Mutant of IsSlave: the ids are not compared.                            *)
IsSlaveOfAny(r, n, m) == m.I = 1 /\ m.MS = 1

IsSlave(r, n, m) == m.I = 1 /\ m.MS = 1 /\ n > r

(* Mutant of IsMaster: one number too high.                                *)
IsMasterOnNextReply(r, n, m) ==
  m.I = 0 /\ m.MS = 0 /\ n < r /\ m.seq = StartSeq(<<r, n>>) + 1

IsMaster(r, n, m) ==
  m.I = 0 /\ m.MS = 0 /\ n < r /\ m.seq = StartSeq(<<r, n>>)

(* NegDoneEvent: enter EXCHANGE with the database as summary list and an   *)
(* empty retransmission list.                                              *)
NegDone(r, n) ==
  /\ state' = [state EXCEPT ![<<r, n>>] = EXCHANGE]
  /\ headers' = [headers EXCEPT ![<<r, n>>] = lsdb[r]]
  /\ retrans' = [retrans EXCEPT ![<<r, n>>] = NoCopies]

NegotiateAsSlave(r, n) ==
  LET p == <<r, n>>
      m == Head(chan[<<n, r>>])
  IN
  /\ Negotiating(r, n)
  /\ IsSlave(r, n, m)
  /\ AckDD(p, m)
  /\ NegDone(r, n)
  /\ ms' = [ms EXCEPT ![p] = 0]
  /\ ddSeq' = [ddSeq EXCEPT ![p] = m.seq]
  /\ Transmit(<<n, r>>, To(p, Append(StartDD(p), DD(0, 0, m.seq, lsdb[r]))))

NegotiateAsMaster(r, n) ==
  LET p == <<r, n>>
      m == Head(chan[<<n, r>>])
      next == IncDDseq(StartSeq(p))
  IN
  /\ Negotiating(r, n)
  /\ IsMaster(r, n, m)
  /\ NegDone(r, n)
  /\ ms' = [ms EXCEPT ![p] = 1]
  /\ ddSeq' = [ddSeq EXCEPT ![p] = next]
  /\ dd' = [dd EXCEPT ![p] = [seq |-> next, headers |-> lsdb[r]]]
  /\ ackTimer' = [ackTimer EXCEPT ![p] = TRUE]
  /\ Transmit(<<n, r>>, To(p, Append(StartDD(p), DD(0, 1, next, lsdb[r]))))

RolesUndecided(r, n) ==
  LET p == <<r, n>>
      m == Head(chan[<<n, r>>])
  IN
  /\ Negotiating(r, n)
  /\ ~IsSlave(r, n, m) /\ ~IsMaster(r, n, m)
  /\ AckDD(p, m)
  /\ state' = [state EXCEPT ![p] = EX_START]
  /\ ms' = [ms EXCEPT ![p] = IF state[p] = INIT THEN 1 ELSE @]
  /\ ddSeq' = [ddSeq EXCEPT ![p] = StartSeq(p)]
  /\ Transmit(<<n, r>>, To(p, StartDD(p)))
  /\ UNCHANGED <<headers, retrans>>

(* In EXCHANGE a packet is out of step, a duplicate, or the next one.      *)
Mismatch(p, m) == ~(m.MS # ms[p] /\ m.I = 0)
Duplicate(p, m) ==
  (ms[p] = 1 /\ m.seq < ddSeq[p]) \/ (ms[p] = 0 /\ m.seq = ddSeq[p])
InOrder(p, m) ==
  (ms[p] = 1 /\ m.seq = ddSeq[p]) \/ (ms[p] = 0 /\ m.seq > ddSeq[p])

InStep(p, m) == state[p] = EXCHANGE /\ ~Mismatch(p, m)

(* SeqNumberMismatchEvent, or managePacketDuplicated: a slave sends back   *)
(* the very packet it received, a master drops it.                         *)
DDOutOfTurn(r, n) ==
  LET p == <<r, n>>
      m == Head(chan[<<n, r>>])
  IN
  /\ AcceptDD(r, n)
  /\ state[p] >= EXCHANGE
  /\ ~(InStep(p, m) /\ InOrder(p, m))
  /\ IF InStep(p, m) /\ Duplicate(p, m)
     THEN /\ AckDD(p, m)
          /\ Transmit(<<n, r>>, To(p, IF ms[p] = 0 THEN <<m>> ELSE <<>>))
          /\ UNCHANGED <<state, ms, ddSeq, headers, requests, req, upd,
                         updTimer, adjList>>
     ELSE Restart(r, n, <<n, r>>)
  /\ UNCHANGED <<retrans, deadTimer, nbrList, upLinks, lsdb, aging, rx, now>>

(* Mutant of Wanted: an LSA that is not in the database is overlooked.     *)
WantedIfHeld(r, n, m) ==
  LET newer == {a \in Held(lsdb[r]) : News(r, a, m.headers[a])} IN
  IF newer = {} THEN requests[<<r, n>>] ELSE newer

(* processPacket and ExchangeDoneEvent: request what the peer's summary    *)
(* has newer; with nothing to request the adjacency is full.  An empty     *)
(* list of news leaves the request list as it was.                         *)
Wanted(r, n, m) ==
  LET newer == {a \in Router : News(r, a, m.headers[a])} IN
  IF newer = {} THEN requests[<<r, n>>] ELSE newer

DDProcessed(r, n) ==
  LET p == <<r, n>>
      m == Head(chan[<<n, r>>])
      wanted == Wanted(r, n, m)
      ask == IF wanted = {} THEN <<>> ELSE <<Request(wanted)>>
  IN
  /\ AcceptDD(r, n)
  /\ InStep(p, m)
  /\ InOrder(p, m)
  /\ requests' = [requests EXCEPT ![p] = wanted]
  /\ ddSeq' = [ddSeq EXCEPT ![p] = IF ms[p] = 1 THEN IncDDseq(@) ELSE m.seq]
  /\ state' = [state EXCEPT ![p] = IF wanted = {} THEN FULL ELSE LOADING]
  /\ dd' = [dd EXCEPT ![p] = DDAfter(p, m)]
  /\ req' = [req EXCEPT ![p] = IF wanted = {} THEN @ ELSE wanted]
  /\ ackTimer' = [ackTimer EXCEPT
       ![p] = wanted # {} \/ (@ /\ ~CancelsAckTimer(p, m))]
  /\ Transmit(<<n, r>>, To(p,
       IF ms[p] = 1 THEN ask ELSE <<DD(0, 0, m.seq, headers[p])>> \o ask))
  /\ UNCHANGED <<ms, headers, retrans, upd, updTimer, ownVars, rx, now>>

-----------------------------------------------------------------------------
(* Link state requests: receiveRequest answers with one update, or fails   *)
(* on the first LSA it does not hold.                                      *)

ReceiveRequest(r, n) ==
  LET p == <<r, n>>
      ids == Head(chan[<<n, r>>]).ids
      missing == ids \ Held(lsdb[r])
      found == {a \in ids : \A b \in missing : a < b}
      lsas == [a \in Router |-> IF a \in ids THEN lsdb[r][a] ELSE None]
  IN
  /\ Arrived(r, n, "REQUEST")
  /\ state[p] >= EXCHANGE
  /\ retrans' = Listed({p}, found)
  /\ IF missing = {}
     THEN /\ upd' = Unacked(upd, {p}, r, lsas)
          /\ updTimer' = Armed(updTimer, {p})
          /\ Transmit(<<n, r>>, To(p, <<Update(lsas)>>))
          /\ UNCHANGED <<state, ms, ddSeq, headers, requests, dd, req, ackTimer,
                         adjList>>
     ELSE Restart(r, n, <<n, r>>)
  /\ UNCHANGED <<deadTimer, nbrList, upLinks, lsdb, aging, rx, now, halted>>

(* A request or an update finds the adjacency down, or an acknowledgement  *)
(* finds nothing to acknowledge: the packet is dropped.                    *)
Dropped(r, n) ==
  LET p == <<r, n>>
      m == Head(chan[<<n, r>>])
  IN
  /\ chan[<<n, r>>] # <<>>
  /\ m.type \in {"REQUEST", "UPDATE", "ACK"}
  /\ AtRest
  /\ state[p] < EXCHANGE \/ (m.type = "ACK" /\ retrans[p][m.adv] = 0)
  /\ Transmit(<<n, r>>, Silent)
  /\ UNCHANGED <<nbrVars, ackVars, ownVars, rx, now, halted>>

-----------------------------------------------------------------------------
(* Link state updates: receiveUpdate.  The advertisements are taken in the *)
(* order of the list, which is the order of their originators.             *)

ReceiveUpdate(r, n) ==
  /\ Arrived(r, n, "UPDATE")
  /\ state[<<r, n>>] >= EXCHANGE
  /\ rx' = [at |-> <<r, n>>, entry |-> state[<<r, n>>],
            lsas |-> Head(chan[<<n, r>>]).lsas]
  /\ Transmit(<<n, r>>, Silent)
  /\ UNCHANGED <<nbrVars, ackVars, ownVars, now, halted>>

(* r takes up the LSA of a received from n.                                *)
NextInUpdate(r, n, a) ==
  /\ rx.at = <<r, n>>
  /\ a \in Held(rx.lsas)
  /\ \A b \in Held(rx.lsas) : a <= b
  /\ Running

TakesUp(r, n, a) ==
  /\ NextInUpdate(r, n, a)
  /\ rx' = [rx EXCEPT !.lsas[a] = None]
  /\ UNCHANGED <<deadTimer, nbrList, upLinks, now>>

(* sendFlooding: neighbours in the exchange that wait for this LSA stop    *)
(* waiting, the sender included; the other adjacent ones get a copy.       *)
Waiting(r, n, a) ==
  {p \in Pair :
     /\ p[1] = r /\ p[2] \in adjList[r]
     /\ state[p] >= EXCHANGE
     /\ p[2] = n \/ (state[p] < FULL /\ a \in requests[p])}
Flooded(r, n, a) ==
  {p \in Pair :
     /\ p[1] = r /\ p[2] \in adjList[r]
     /\ state[p] >= EXCHANGE}
  \ Waiting(r, n, a)

InstallLSA(r, n, a) ==
  LET P == Flooded(r, n, a)
      lsa == Only(a, rx.lsas[a])
  IN
  /\ TakesUp(r, n, a)
  /\ News(r, a, rx.lsas[a])
  /\ requests' = [p \in Pair |-> IF p \in Waiting(r, n, a)
                                 THEN requests[p] \ {a} ELSE requests[p]]
  /\ retrans' = Listed(P, {a})
  /\ upd' = Unacked(upd, P, a, lsa)
  /\ updTimer' = Armed(updTimer, P)
  /\ lsdb' = [lsdb EXCEPT ![r][a] = rx.lsas[a]]
  /\ aging' = [aging EXCEPT ![r] = @ \cup {a}]
  /\ Transmit(<<>>, [q \in Pair |->
       IF q = <<r, n>> THEN <<Ack(a)>> ELSE ToEach(P, Update(lsa))[q]])
  /\ UNCHANGED <<state, ms, ddSeq, headers, dd, req, ackTimer, adjList, halted>>

(* No newer than the copy held, and yet r asked for it.                    *)
UnexpectedLSA(r, n, a) ==
  /\ NextInUpdate(r, n, a)
  /\ ~News(r, a, rx.lsas[a])
  /\ a \in requests[<<r, n>>]
  /\ Restart(r, n, <<>>)
  /\ rx' = Resting
  /\ UNCHANGED <<retrans, deadTimer, nbrList, upLinks, lsdb, aging, now, halted>>

(* messageIn(OSPF_MSG_ACK): the last copy came off the retransmission      *)
(* list, so every update is taken as acknowledged and the timer cancelled. *)
LastCopy(p, a) == Unlisted(p, a) = NoCopies

(* Mutant of ClearsUpdates: any acknowledgement clears the map.            *)
ClearsUpdatesAlways(p, a) == retrans[p][a] > 0

ClearsUpdates(p, a) == retrans[p][a] > 0 /\ LastCopy(p, a)

AckUpdates(p, a) ==
  /\ halted' = (ClearsUpdates(p, a) /\ ~updTimer[p])
  /\ retrans' = [retrans EXCEPT
                   ![p] = IF retrans[p][a] > 0 THEN Unlisted(p, a) ELSE @]
  /\ upd' = [upd EXCEPT ![p] = IF ClearsUpdates(p, a) THEN NoUpdates ELSE @]
  /\ updTimer' = [updTimer EXCEPT ![p] = @ /\ ~ClearsUpdates(p, a)]

(* The same instance: an implicit acknowledgement if r had sent it too.    *)
EqualLSA(r, n, a) ==
  /\ TakesUp(r, n, a)
  /\ rx.lsas[a] = lsdb[r][a]
  /\ a \notin requests[<<r, n>>]
  /\ AckUpdates(<<r, n>>, a)
  /\ Transmit(<<>>, To(<<r, n>>, <<Ack(a)>>))
  /\ UNCHANGED <<state, ms, ddSeq, headers, requests, dd, req, ackTimer,
                 adjList, lsdb, aging>>

(* An older instance: the copy held goes back.                             *)
OlderLSA(r, n, a) ==
  LET p == <<r, n>>
      lsa == Only(a, lsdb[r][a])
  IN
  /\ TakesUp(r, n, a)
  /\ rx.lsas[a] < lsdb[r][a]
  /\ a \notin requests[p]
  /\ retrans' = Listed({p}, {a})
  /\ upd' = Unacked(upd, {p}, r, lsa)
  /\ updTimer' = Armed(updTimer, {p})
  /\ Transmit(<<>>, To(p, <<Update(lsa)>>))
  /\ UNCHANGED <<state, ms, ddSeq, headers, requests, dd, req, ackTimer,
                 adjList, lsdb, aging, halted>>

(* Mutant of LoadingDone: any update ends LOADING.                         *)
LoadingDoneAtOnce(p) == rx.entry = LOADING

(* After the loop: LOADING ends when the request list is empty.            *)
LoadingDone(p) == rx.entry = LOADING /\ requests[p] = {}

FinishUpdate(r, n) ==
  LET p == <<r, n>>
      done == LoadingDone(p)
  IN
  /\ rx.at = p
  /\ Held(rx.lsas) = {}
  /\ Running
  /\ halted' = (done /\ dd[p] = NoDD /\ ~ackTimer[p])
  /\ rx' = Resting
  /\ state' = [state EXCEPT ![p] = IF done /\ @ = LOADING THEN FULL ELSE @]
  /\ req' = [req EXCEPT ![p] = IF done THEN {} ELSE @]
  /\ ackTimer' = [ackTimer EXCEPT ![p] = @ /\ ~(done /\ dd[p] = NoDD)]
  /\ UNCHANGED <<ms, ddSeq, headers, retrans, requests, dd, upd, updTimer,
                 ownVars, chan, now>>

-----------------------------------------------------------------------------
(* Link state acknowledgements: receiveAck.                                *)

ReceiveAck(r, n) ==
  LET p == <<r, n>>
      a == Head(chan[<<n, r>>]).adv
  IN
  /\ Arrived(r, n, "ACK")
  /\ state[p] >= EXCHANGE
  /\ retrans[p][a] > 0
  /\ AckUpdates(p, a)
  /\ Transmit(<<n, r>>, Silent)
  /\ UNCHANGED <<state, ms, ddSeq, headers, requests, dd, req, ackTimer,
                 ownVars, rx, now>>

-----------------------------------------------------------------------------
(* Retransmission: both timers run resendMessages, which sends again the   *)
(* description packet, or else the request, or else every update, and      *)
(* restarts the timer of what it sent.  The timer that expired stays idle  *)
(* unless it is that one.                                                  *)

Pending(p) == {a \in Router : upd[p][a] # Empty}

Unanswered(p) ==
  IF dd[p] # NoDD THEN <<DD(0, 1, dd[p].seq, dd[p].headers)>>
  ELSE IF req[p] # {} THEN <<Request(req[p])>>
  ELSE <<>>

(* The updates of UpdateMap_, in the order of their origins.               *)
Rank(p, a) == Cardinality({b \in Pending(p) : b <= a})
PendingAt(p, i) == CHOOSE a \in Pending(p) : Rank(p, a) = i
UpdatesDue(p) ==
  [i \in 1..Cardinality(Pending(p)) |-> Update(upd[p][PendingAt(p, i)])]

ResendMessages(p, ack, up) ==
  /\ Transmit(<<>>, To(p,
       IF Unanswered(p) # <<>> THEN Unanswered(p) ELSE UpdatesDue(p)))
  /\ ackTimer' = [ackTimer EXCEPT ![p] = ack \/ Unanswered(p) # <<>>]
  /\ updTimer' = [updTimer EXCEPT
       ![p] = up \/ (Unanswered(p) = <<>> /\ Pending(p) # {})]
  /\ UNCHANGED <<nbrVars, dd, req, upd, ownVars, rx, now, halted>>

AckTimerExpires(r, n) ==
  /\ "resend" \in Events
  /\ ackTimer[<<r, n>>]
  /\ AtRest
  /\ ResendMessages(<<r, n>>, FALSE, updTimer[<<r, n>>])

UpdTimerExpires(r, n) ==
  /\ "resend" \in Events
  /\ updTimer[<<r, n>>]
  /\ AtRest
  /\ ResendMessages(<<r, n>>, ackTimer[<<r, n>>], FALSE)

-----------------------------------------------------------------------------
(* The rest of the environment.                                            *)

(* linkStateChanged, called when the script changes a link cost: a new     *)
(* instance of the router's LSA built from the node's links, which are all *)
(* up, sent to every adjacent router.                                      *)
CostChanged(r) ==
  LET P == FloodOwn(r, r)
      lsa == Only(r, NextOwn(r))
  IN
  /\ r \in Scripted
  /\ AtRest
  /\ NextOwn(r) <= MaxLsSeq
  /\ Originate(r)
  /\ upLinks' = [upLinks EXCEPT ![r] = Neighbours(r)]
  /\ retrans' = Listed(P, {r})
  /\ upd' = Unacked(upd, P, r, lsa)
  /\ updTimer' = Armed(updTimer, P)
  /\ Transmit(<<>>, ToEach(P, Update(lsa)))
  /\ UNCHANGED <<state, ms, ddSeq, headers, requests, dd, req, ackTimer,
                 deadTimer, nbrList, adjList, aging, rx, now, halted>>

(* ageLSA on an LSA that is not in the database: incLSage reports an error *)
(* and aborts.                                                             *)
AgingAborts(r) ==
  /\ "aging" \in Events
  /\ \E a \in aging[r] : lsdb[r][a] = None
  /\ AtRest
  /\ halted' = TRUE
  /\ UNCHANGED <<nbrVars, ackVars, ownVars, chan, rx, now>>

(* A packet is lost.                                                       *)
Lose(p) ==
  /\ "loss" \in Events
  /\ chan[p] # <<>>
  /\ AtRest
  /\ Transmit(p, Silent)
  /\ UNCHANGED <<nbrVars, ackVars, ownVars, rx, now, halted>>

-----------------------------------------------------------------------------

Receive(r, n) ==
  \/ ReceiveHelloTwoWay(r, n)
  \/ ReceiveHelloOneWay(r, n)
  \/ DDIgnored(r, n)
  \/ NegotiateAsSlave(r, n)
  \/ NegotiateAsMaster(r, n)
  \/ RolesUndecided(r, n)
  \/ DDOutOfTurn(r, n)
  \/ DDProcessed(r, n)
  \/ ReceiveRequest(r, n)
  \/ ReceiveUpdate(r, n)
  \/ Dropped(r, n)
  \/ ReceiveAck(r, n)

WorkThrough(r, n) ==
  \/ \E a \in Router : \/ InstallLSA(r, n, a)
                       \/ UnexpectedLSA(r, n, a)
                       \/ EqualLSA(r, n, a)
                       \/ OlderLSA(r, n, a)
  \/ FinishUpdate(r, n)

Timer(r, n) ==
  \/ AckTimerExpires(r, n)
  \/ UpdTimerExpires(r, n)
  \/ InactivityExpires(r, n)

Next ==
  \/ \E p \in Pair : \/ Receive(p[1], p[2])
                      \/ WorkThrough(p[1], p[2])
                      \/ Timer(p[1], p[2])
                      \/ Lose(p)
  \/ \E r \in Router : SendHellos(r) \/ CostChanged(r) \/ AgingAborts(r)

Spec == Init /\ [][Next]_vars

(* A link delivers what is on it, a handler returns, and the hello timer   *)
(* restarts itself at every expiry.                                        *)
Fairness ==
  /\ \A p \in Pair : /\ WF_vars(Receive(p[1], p[2]))
                      /\ WF_vars(WorkThrough(p[1], p[2]))
  /\ \A r \in Router : WF_vars(SendHellos(r))

FairSpec == Spec /\ Fairness

-----------------------------------------------------------------------------
(* Safety.                                                                 *)

Reverse(p) == <<p[2], p[1]>>

(* Whatever was lost, repeated or restarted, two routers in the database   *)
(* exchange agree on who leads it: the router with the larger id is the    *)
(* master, from NegDoneEvent until the exchange is torn down.              *)
HigherIdIsMaster ==
  \A p \in Pair : state[p] >= EXCHANGE => (ms[p] = 1 <=> p[1] > p[2])

(* A master in EXCHANGE awaits the answer to its current sequence number,  *)
(* and a slave in EXCHANGE at the same time is exactly one number behind:  *)
(* while no neighbour is declared dead, no stale packet can have moved one *)
(* of the two alone.                                                       *)
ExchangeInLockstep ==
  \A p \in Pair :
    state[p] = EXCHANGE /\ ms[p] = 1 =>
      /\ dd[p].seq = ddSeq[p]
      /\ state[Reverse(p)] = EXCHANGE => ddSeq[p] = ddSeq[Reverse(p)] + 1

(* While no neighbour is declared dead, the branch of receiveDD for a      *)
(* duplicate packet, with the slave's echo, is never taken: a repeated     *)
(* description packet finds its receiver out of EXCHANGE, or with other    *)
(* flags, and restarts the exchange.                                       *)
RepeatsAreNeverDuplicates ==
  \A p \in Pair :
    LET q == Reverse(p) IN
    chan[q] # <<>> /\ Head(chan[q]).type = "DD" /\ InStep(p, Head(chan[q]))
      => ~Duplicate(p, Head(chan[q]))

(* The retransmission timer of description packets and requests runs       *)
(* exactly while one of them is unanswered, through every cancellation,    *)
(* expiry and restart; the update timer only while an update is kept.      *)
TimersCoverAwaited ==
  \A p \in Pair :
    /\ ackTimer[p] <=> (dd[p] # NoDD \/ req[p] # {})
    /\ updTimer[p] => Pending(p) # {}

(* A router in LOADING has a request outstanding, so its timer will ask    *)
(* again; a router that reached FULL has had everything it asked for.      *)
LoadingAwaitsAnswer ==
  \A p \in Pair :
    /\ state[p] = LOADING => req[p] # {}
    /\ state[p] = FULL => requests[p] = {}

(* While a flooded LSA is unacknowledged the message centre's number of    *)
(* the update to repeat is still in UpdateMap_.                            *)
UnackedUpdatesKept ==
  \A p \in Pair : state[p] >= EXCHANGE /\ retrans[p] # NoCopies => Pending(p) # {}

(* The four records of a neighbour being heard never disagree: its state   *)
(* is INIT or above, its inactivity timer runs, hellos list it, and only   *)
(* then is it adjacent; and a link advertised down has a silent neighbour. *)
HeardNeighbours ==
  \A p \in Pair :
    /\ deadTimer[p] <=> state[p] >= INIT
    /\ deadTimer[p] <=> p[2] \in nbrList[p[1]]
    /\ p[2] \in adjList[p[1]] => deadTimer[p]
    /\ p[2] \notin upLinks[p[1]] => ~deadTimer[p]

(* When nothing is on its way, nothing is unacknowledged and every         *)
(* adjacency is full, neighbours hold the same database.                   *)
Quiet ==
  \A p \in Pair : chan[p] = <<>> /\ retrans[p] = NoCopies /\ state[p] = FULL
Agreed == \A p \in Pair : lsdb[p[1]] = lsdb[p[2]]
SynchronisedWhenQuiet == Quiet /\ rx = Resting => Agreed

(* Every instance anywhere - in a database, in an update on its way, in    *)
(* hand or kept for retransmission - is one its originator has made and    *)
(* put in its own database.                                                *)
Made(db) == \A a \in Router : db[a] <= lsdb[a][a]

InstancesAreMade ==
  /\ \A r \in Router : Made(lsdb[r])
  /\ \A p \in Pair : \A a \in Router : Made(upd[p][a])
  /\ \A p \in Pair : \A i \in DOMAIN chan[p] :
       chan[p][i].type = "UPDATE" => Made(chan[p][i].lsas)
  /\ Made(rx.lsas)

-----------------------------------------------------------------------------
(* Liveness, and the abstract specification.                               *)

(* On links that lose nothing the routers come up by themselves, even when *)
(* the script changes costs meanwhile: every adjacency reaches FULL and    *)
(* stays there, every LSA is acknowledged and the databases agree.         *)
BringUpConverges ==
  <>[](\A p \in Pair : state[p] = FULL /\ retrans[p] = NoCopies /\ Agreed)

(* Flooding stops: after the last change the copies die out, each one      *)
(* acknowledged, and the databases agree.                                  *)
FloodingSettles == <>[](Quiet /\ Agreed)

(* Only an originator makes new instances of its LSA, and no router ever   *)
(* goes back to an older one, whatever is lost, repeated or overtaken.     *)
Replicas == INSTANCE LinkStateReplicas WITH Router <- Router, lsdb <- lsdb
ImplementsReplicas == Replicas!Spec

(* The same of every step, from wherever the routers start.                *)
InstancesOnlyAdvance == [][Replicas!Next]_lsdb

-----------------------------------------------------------------------------
(* What the documentation of the code says, and the code does not do: each *)
(* has a counterexample.                                                   *)

(* timer-handler.h, of TimerHandler::cancel: "must be pending".  In runs   *)
(* without LSA aging this is the only way to abort.                        *)
CancelledTimersArePending == ~halted

(* ospf.h, of adyacentsIdList: "my adyacents neighbour's (2-way            *)
(* conectivity)".                                                          *)
AdjacentWhenTwoWay ==
  \A p \in Pair : state[p] >= TWO_WAY => p[2] \in adjList[p[1]]

(* ospf.cc, of resendMessages, which the update timer runs: "resend all    *)
(* unack messages to the peer peerId".  An update is sent again only if    *)
(* the timer still runs.                                                   *)
UnackedUpdatesAreTimed ==
  \A p \in Pair : Pending(p) # {} => updTimer[p]

(* ospf.cc, of createLSA, which starts the aging timer: "called by         *)
(* OspfRouting when a LSA is create or inserted in the database".          *)
AgedLSAsAreHeld ==
  \A r \in Router : aging[r] \subseteq Held(lsdb[r])
=============================================================================
