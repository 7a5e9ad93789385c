----------------------------- MODULE LsRouting -----------------------------
(***************************************************************************)
(* The link state protocol of linkstate/: LsRouting, its message history   *)
(* and its LsRetransmissionManager at every router, and the               *)
(* LsMessageCenter that all of them share.                                 *)
(*                                                                         *)
(* A packet carries the id of a stored message, or is an acknowledgement.  *)
(* Advertisements and topology maps take their ids from one counter, here  *)
(* 1, 2, 3, ... for the odd numbers of the code; the acknowledgements take *)
(* theirs from another, which nothing depends on.                          *)
(*                                                                         *)
(* Costs never change (cost-changed does nothing in this protocol), so a   *)
(* record of the database is the set of neighbours its origin has a link   *)
(* up to.  Messages buffered by a handler are sent before it returns to    *)
(* the scheduler, once the routes are installed: rtObject compute-routes   *)
(* calls send-updates.  That procedure also ends the simulation when a     *)
(* destination it had a route for has none left (exited).                  *)
(***************************************************************************)
EXTENDS Integers, Sequences, FiniteSets

CONSTANTS
  Router,
  Adjacent,    \* the ordered pairs of peers
  Started,     \* routers whose first update is everywhere at the beginning
  Down,        \* the links that are down at the beginning
  MaxSize,     \* max_size: four times the number of nodes
  MaxChanges,  \* bound: links that go down or come up
  MaxUpdates,  \* bound: periodic updates
  MaxLost,     \* bound: packets lost on links that are up
  MaxQueue     \* bound: packets between two routers that leave room to repeat

ASSUME RouterAssumption == Router \subseteq Nat /\ IsFiniteSet(Router)
ASSUME AdjacentAssumption ==
  /\ Adjacent \subseteq {e \in Router \X Router : e[1] # e[2]}
  /\ \A e \in Adjacent : <<e[2], e[1]>> \in Adjacent
ASSUME StartedAssumption == Started \subseteq Router
ASSUME DownAssumption ==
  Down \subseteq Adjacent /\ \A e \in Down : <<e[2], e[1]>> \in Down
ASSUME BoundAssumption == {MaxSize, MaxChanges, MaxUpdates, MaxLost, MaxQueue} \subseteq Nat

VARIABLES
  up,          \* the links that are up, as ordered pairs
  db,          \* linkStateDatabase_ of each router
  lsaHistory,  \* the last advertisement of each origin a router has seen
  tpmHistory,  \* the last topology map of each peer
  unacked,     \* tpmSeq_ and lsaMap_ of each peer
  timer,       \* the peers whose retransmission timer is pending
  made,        \* the last id given: current_lsa_id
  messages,    \* the advertisements and maps ever made, by id
  chan,        \* packets between peers, in order
  routed,      \* the topology the routing table was computed from
  exited,      \* the simulation has ended with a Tcl error
  changes, updates, lost

routing == <<db, lsaHistory, tpmHistory, routed, exited>>
storage == <<made, messages>>
counts == <<changes, updates, lost>>
vars == <<up, db, lsaHistory, tpmHistory, unacked, timer, made, messages, chan, routed,
          exited, changes, updates, lost>>

Reverse2(e) == <<e[2], e[1]>>
UpPeers(r, links) == {n \in Router : <<r, n>> \in links}
Position(S, n) == Cardinality({m \in S : m <= n})
Ascending(S) == [i \in 1..Cardinality(S) |-> CHOOSE n \in S : Position(S, n) = i]

Record == [seq : Nat, links : SUBSET Router]
NoRecord == [seq |-> 0, links |-> {}]

None == 0
LSA(o, s, ls) == [type |-> "LSA", origin |-> o, seq |-> s, links |-> ls, content |-> TRUE]
TPM(r, s) == [type |-> "TPM", origin |-> r, seq |-> s]
(* What regenAndSend makes: the list it copies never gets into the message. *)
Regenerated(o, s) == [type |-> "LSA", origin |-> o, seq |-> s, content |-> FALSE]

Message ==
  [type : {"LSA"}, origin : Router, seq : Nat, links : SUBSET Router, content : {TRUE}]
    \cup [type : {"LSA"}, origin : Router, seq : Nat, content : {FALSE}]
    \cup [type : {"TPM"}, origin : Router, seq : Nat]

Stored(id) == id > made - MaxSize

Named(id) == [type |-> "message", id |-> id]
Ack(type, o, s) == [type |-> type, origin |-> o, seq |-> s]
Packet == [type : {"message"}, id : Nat]
            \cup [type : {"LSAACK", "TPMACK"}, origin : Router, seq : Nat]

NothingUnacked == [tpm |-> None, lsa |-> [o \in {} |-> None]]

-----------------------------------------------------------------------------
(* initialize: a router knows its own links, and what those that have      *)
(* started have flooded.                                                   *)
FirstId(o) == Position(Started, o)
InitRecord(r, o) ==
  IF r = o \/ o \in Started
  THEN [seq |-> IF o \in Started THEN FirstId(o) ELSE 0, links |-> UpPeers(o, Adjacent \ Down)]
  ELSE NoRecord

Init ==
  /\ up = Adjacent \ Down
  /\ db = [r \in Router |-> [o \in Router |-> InitRecord(r, o)]]
  /\ lsaHistory = [r \in Router |-> [o \in Router |->
                     IF o \in Started \ {r} THEN FirstId(o) ELSE None]]
  /\ tpmHistory = [r \in Router |-> [o \in Router |-> None]]
  /\ unacked = [e \in Adjacent |-> NothingUnacked]
  /\ timer = {}
  /\ made = Cardinality(Started)
  /\ messages = [i \in 1..Cardinality(Started) |->
                   LET o == Ascending(Started)[i]
                   IN LSA(o, i, UpPeers(o, Adjacent \ Down))]
  /\ chan = [e \in Adjacent |-> <<>>]
  /\ routed = [r \in Router |-> [o \in Router |-> InitRecord(r, o).links]]
  /\ exited = FALSE
  /\ changes = 0 /\ updates = 0 /\ lost = 0

-----------------------------------------------------------------------------
(* The destinations a routing table has a path to: those in every set that *)
(* has the router in it and is closed under the links of the topology.     *)
Reached(r, topology) ==
  {d \in Router : \A S \in SUBSET Router :
     r \in S /\ (\A o \in S : topology[o] \subseteq S) => d \in S}

Links(records) == [o \in Router |-> records[o].links]

(* computeRoutes and the installation of what it finds at some routers:    *)
(* the branch of compute-routes for a destination without a route reads    *)
(* the name of the protocol the route would be by, and there is none.      *)
ComputeRoutes(computing, records) ==
  /\ routed' = [r \in Router |-> IF r \in computing THEN Links(records[r]) ELSE routed[r]]
  /\ exited' = \E r \in computing :
                 ~(Reached(r, routed[r]) \subseteq Reached(r, Links(records[r])))

(* messageOut and sendMessage: sent[e] are the ids that go out on e, for   *)
(* messages of all, with what was unacked and pending before.  What a      *)
(* handler sends to one peer goes out in the order it was made.            *)
MessageOut(pending, ids, all) ==
  LET tpms == {id \in ids : all[id].type = "TPM"}
      lsas == ids \ tpms
      OfOrigin(o) == CHOOSE id \in lsas : all[id].origin = o
      origins == {all[id].origin : id \in lsas}
  IN [tpm |-> IF tpms = {} THEN pending.tpm ELSE CHOOSE id \in tpms : TRUE,
      lsa |-> [o \in DOMAIN pending.lsa \cup origins |->
                 IF o \in origins THEN [id |-> OfOrigin(o), seq |-> all[OfOrigin(o)].seq]
                 ELSE pending.lsa[o]]]

SendRecorded(sent, pending, timers, all) ==
  /\ unacked' = [e \in Adjacent |-> MessageOut(pending[e], sent[e], all)]
  /\ timer' = timers \cup {e \in Adjacent : sent[e] # {}}

Packets(ids) == [i \in DOMAIN ids |-> Named(ids[i])]
Enqueue(queues, sent) ==
  [e \in Adjacent |-> queues[e] \o Packets(Ascending(sent[e]))]

(* sendLinkStates: a new advertisement of a router's own links, for every  *)
(* peer whose link is up.  Its id becomes the number of the own record.    *)
PeriodicUpdate(r) ==
  LET id == made + 1
      all == Append(messages, LSA(r, id, db[r][r].links))
      sent == [e \in Adjacent |-> IF e[1] = r /\ e \in up THEN {id} ELSE {}]
  IN /\ updates < MaxUpdates
     /\ updates' = updates + 1
     /\ made' = id
     /\ messages' = all
     /\ db' = [db EXCEPT ![r][r].seq = id]
     /\ SendRecorded(sent, unacked, timer, all)
     /\ chan' = Enqueue(chan, sent)
     /\ UNCHANGED <<up, lsaHistory, tpmHistory, routed, exited, changes, lost>>

(* cancelTimer, for both ends of a link that is down.                      *)
Cancelled(e, down) == e \in down \/ Reverse2(e) \in down

(* linkStateChanged at both ends of a link, in one event of the simulator: *)
(* an advertisement to every peer and, if the link has come up, the        *)
(* topology map to the peer at its other end.                              *)
LinkChanges(link) ==
  LET now == IF link \in up THEN up \ {link, Reverse2(link)} ELSE up \cup {link, Reverse2(link)}
      comesUp == link \in now
      ends == {link[1], link[2]}
      first == made + 1
      second == first + IF comesUp THEN 2 ELSE 1
      IdOf(r) == IF r = link[1] THEN first ELSE second
      Made(r) == IF comesUp
                 THEN <<LSA(r, IdOf(r), UpPeers(r, now)), TPM(r, IdOf(r) + 1)>>
                 ELSE <<LSA(r, IdOf(r), UpPeers(r, now))>>
      all == messages \o Made(link[1]) \o Made(link[2])
      sent == [e \in Adjacent |->
                 IF e[1] \notin ends \/ e \notin now THEN {}
                 ELSE IF e[2] \in ends /\ comesUp THEN {IdOf(e[1]), IdOf(e[1]) + 1}
                 ELSE {IdOf(e[1])}]
      records == [r \in Router |->
                    IF r \in ends
                    THEN [db[r] EXCEPT ![r] = [seq |-> IdOf(r), links |-> UpPeers(r, now)]]
                    ELSE db[r]]
  IN /\ changes < MaxChanges
     /\ changes' = changes + 1
     /\ up' = now
     /\ made' = second + (second - first) - 1
     /\ messages' = all
     /\ db' = records
     /\ ComputeRoutes(ends, records)
     /\ SendRecorded(sent,
                     [e \in Adjacent |-> IF Cancelled(e, {link} \ now) THEN NothingUnacked
                                         ELSE unacked[e]],
                     {e \in timer : ~Cancelled(e, {link} \ now)}, all)
     /\ chan' = Enqueue(chan, sent)
     /\ UNCHANGED <<lsaHistory, tpmHistory, updates, lost>>

-----------------------------------------------------------------------------
(* isNewMessage: ids do not wrap around here.                              *)
IsNewMessage(history, m) == history[m.origin] < m.seq

(* A packet leaves a link, and other packets and an acknowledgement follow *)
(* it on other links.                                                      *)
Received(e) == [chan EXCEPT ![e] = Tail(@)]
Acked(e, ack) == [Received(e) EXCEPT ![Reverse2(e)] = Append(@, ack)]

(* receiveLSA, of an advertisement the router has seen or made itself.  An *)
(* acknowledgement names the message.                                      *)
OldLSA(e, m) == m.origin = e[2] \/ ~IsNewMessage(lsaHistory[e[2]], m)

(* Mutant of ReceiveOldLSA: only what is new is acknowledged.              *)
ReceiveOldLSANoAck(e, id) ==
  /\ OldLSA(e, messages[id])
  /\ chan' = Received(e)
  /\ UNCHANGED <<up, routing, unacked, timer, storage, counts>>

ReceiveOldLSA(e, id) ==
  /\ OldLSA(e, messages[id])
  /\ chan' = Acked(e, Ack("LSAACK", messages[id].origin, id))
  /\ UNCHANGED <<up, routing, unacked, timer, storage, counts>>

(* Mutant of Forwards: only to the peers that know already.                *)
ForwardsBack(e, id) ==
  [f \in Adjacent |->
     IF f[1] = e[2] /\ f \in up /\ f[2] \in {e[1], messages[id].origin}
     THEN {id} ELSE {}]

(* receiveLSA: a new one goes on to the peers, and into the database if    *)
(* its message has contents.                                               *)
Forwards(e, id) ==
  [f \in Adjacent |->
     IF f[1] = e[2] /\ f \in up /\ f[2] \notin {e[1], messages[id].origin}
     THEN {id} ELSE {}]

ReceiveNewLSA(e, id) ==
  LET m == messages[id]
      r == e[2]
      records == [db EXCEPT ![r][m.origin] = [seq |-> m.seq, links |-> m.links]]
  IN /\ ~OldLSA(e, m)
     /\ lsaHistory' = [lsaHistory EXCEPT ![r][m.origin] = m.seq]
     /\ SendRecorded(Forwards(e, id), unacked, timer, messages)
     /\ chan' = Enqueue(Acked(e, Ack("LSAACK", m.origin, id)), Forwards(e, id))
     /\ IF m.content
        THEN /\ db' = records
             /\ IF records[r][m.origin].links # db[r][m.origin].links
                THEN ComputeRoutes({r}, records)
                ELSE UNCHANGED <<routed, exited>>
        ELSE UNCHANGED <<db, routed, exited>>
     /\ UNCHANGED <<up, tpmHistory, storage, counts>>

ReceiveLSA(e, id) ==
  /\ messages[id].type = "LSA"
  /\ ReceiveOldLSA(e, id) \/ ReceiveNewLSA(e, id)

(* receiveTopo.  The message points to the database of its sender, so what *)
(* is read is what the sender knows by now.  An advertisement with every   *)
(* record that was newer goes to the other peers.                          *)
Newer(r, s) == {o \in Router \ {r} : db[r][o].seq < db[s][o].seq}
Regenerate(r, s) ==
  [i \in 1..Cardinality(Newer(r, s)) |->
     LET o == Ascending(Newer(r, s))[i]
     IN Regenerated(o, db[s][o].seq)]

ReceiveTopo(e, id) ==
  LET m == messages[id]
      s == e[1]
      r == e[2]
      acked == Acked(e, Ack("TPMACK", s, m.seq))
      all == messages \o Regenerate(r, s)
      sent == [f \in Adjacent |->
                 IF f[1] = r /\ f \in up /\ f[2] # s
                 THEN {made + Position(Newer(r, s), o) : o \in Newer(r, s) \ {f[2]}} ELSE {}]
      records == [db EXCEPT ![r] = [o \in Router |->
                    IF o \in Newer(r, s) THEN db[s][o] ELSE db[r][o]]]
  IN /\ m.type = "TPM"
     /\ IF IsNewMessage(tpmHistory[r], m)
        THEN /\ tpmHistory' = [tpmHistory EXCEPT ![r][m.origin] = m.seq]
             /\ db' = records
             /\ IF Newer(r, s) # {} THEN ComputeRoutes({r}, records)
                ELSE UNCHANGED <<routed, exited>>
             /\ made' = made + Cardinality(Newer(r, s))
             /\ messages' = all
             /\ SendRecorded(sent, unacked, timer, all)
             /\ chan' = Enqueue(acked, sent)
        ELSE /\ chan' = acked
             /\ UNCHANGED <<tpmHistory, db, routed, exited, storage, unacked, timer>>
     /\ UNCHANGED <<up, lsaHistory, counts>>

(* A message that has been recycled is not found: nothing is answered.     *)
ReceiveRecycled(e) ==
  /\ chan' = Received(e)
  /\ UNCHANGED <<up, routing, unacked, timer, storage, counts>>

(* Mutant of Erased: the wrong constant for an invalid id.                 *)
ErasedInvalid(pending, m) ==
  IF m.type = "TPMACK"
  THEN [pending EXCEPT !.tpm = IF @ = m.seq THEN -1 ELSE @]
  ELSE [pending EXCEPT !.lsa = [o \in {p \in DOMAIN @ : ~(p = m.origin /\ @[p].seq = m.seq)}
                                  |-> @[o]]]

(* Mutant of Erased: an advertisement of the right origin will do.         *)
ErasedAnySeq(pending, m) ==
  IF m.type = "TPMACK"
  THEN [pending EXCEPT !.tpm = IF @ = m.seq THEN None ELSE @]
  ELSE [pending EXCEPT !.lsa = [o \in DOMAIN @ \ {m.origin} |-> @[o]]]

(* ackIn: what has been answered is erased, and the timer with the last.   *)
(* Acknowledgements that answer nothing are ignored.                       *)
Erased(pending, m) ==
  IF m.type = "TPMACK"
  THEN [pending EXCEPT !.tpm = IF @ = m.seq THEN None ELSE @]
  ELSE [pending EXCEPT !.lsa = [o \in {p \in DOMAIN @ : ~(p = m.origin /\ @[p].seq = m.seq)}
                                  |-> @[o]]]

(* Mutant of ReceiveAck: any acknowledgement cancels the timer.            *)
ReceiveAckCancels(e, m) ==
  LET f == Reverse2(e)
  IN /\ chan' = Received(e)
     /\ IF unacked[f] = NothingUnacked THEN UNCHANGED <<unacked, timer>>
        ELSE /\ unacked' = [unacked EXCEPT ![f] = Erased(unacked[f], m)]
             /\ timer' = timer \ {f}
     /\ UNCHANGED <<up, routing, storage, counts>>

ReceiveAck(e, m) ==
  LET f == Reverse2(e)
      left == Erased(unacked[f], m)
  IN /\ chan' = Received(e)
     /\ IF unacked[f] = NothingUnacked THEN UNCHANGED <<unacked, timer>>
        ELSE /\ unacked' = [unacked EXCEPT ![f] = left]
             /\ timer' = IF left = NothingUnacked THEN timer \ {f} ELSE timer
     /\ UNCHANGED <<up, routing, storage, counts>>

ReceiveMessage(e) ==
  /\ chan[e] # <<>>
  /\ LET m == Head(chan[e])
     IN IF m.type = "message"
        THEN IF Stored(m.id) THEN ReceiveLSA(e, m.id) \/ ReceiveTopo(e, m.id)
             ELSE ReceiveRecycled(e)
        ELSE ReceiveAck(e, m)

(* resendMessages: the timer is set again whatever there was to resend.    *)
Resends(pending) ==
  LET origins == Ascending(DOMAIN pending.lsa)
  IN (IF pending.tpm = None THEN <<>> ELSE <<pending.tpm>>)
       \o [i \in DOMAIN origins |-> pending.lsa[origins[i]].id]

ResendMessages(e) ==
  /\ e \in timer
  /\ Len(chan[e]) + Len(chan[Reverse2(e)]) + Len(Resends(unacked[e])) <= MaxQueue
  /\ chan' = [chan EXCEPT ![e] = @ \o Packets(Resends(unacked[e]))]
  /\ UNCHANGED <<up, routing, unacked, timer, storage, counts>>

(* A packet is lost: any on a link that is down, some on the others.       *)
Lose(e) ==
  /\ chan[e] # <<>>
  /\ IF e \in up THEN lost < MaxLost /\ lost' = lost + 1 ELSE lost' = lost
  /\ chan' = Received(e)
  /\ UNCHANGED <<up, routing, unacked, timer, storage, changes, updates>>

Next ==
  /\ ~exited
  /\ \/ \E r \in Router : PeriodicUpdate(r)
     \/ \E e \in Adjacent : LinkChanges(e)
     \/ \E e \in Adjacent : ReceiveMessage(e)
     \/ \E e \in Adjacent : ResendMessages(e)
     \/ \E e \in Adjacent : Lose(e)

Spec == Init /\ [][Next]_vars

(* A packet that is not lost arrives and a pending timer expires.          *)
Fairness ==
  \A e \in Adjacent :
    /\ WF_vars(~exited /\ ReceiveMessage(e))
    /\ WF_vars(~exited /\ ResendMessages(e))
FairSpec == Spec /\ Fairness

-----------------------------------------------------------------------------
TypeOK ==
  /\ up \subseteq Adjacent /\ timer \subseteq Adjacent
  /\ db \in [Router -> [Router -> Record]]
  /\ lsaHistory \in [Router -> [Router -> Nat]]
  /\ tpmHistory \in [Router -> [Router -> Nat]]
  /\ routed \in [Router -> [Router -> SUBSET Router]]
  /\ messages \in Seq(Message) /\ made = Len(messages)
  /\ DOMAIN unacked = Adjacent
  /\ \A e \in Adjacent :
       /\ unacked[e].tpm \in 0..made
       /\ DOMAIN unacked[e].lsa \subseteq Router
       /\ \A o \in DOMAIN unacked[e].lsa :
            /\ unacked[e].lsa[o].id \in 1..made
            /\ messages[unacked[e].lsa[o].id].origin = o
  /\ chan \in [Adjacent -> Seq(Packet)]
  /\ \A e \in Adjacent : \A i \in DOMAIN chan[e] :
       chan[e][i].type = "message" => chan[e][i].id \in 1..made
  /\ exited \in BOOLEAN
  /\ {changes, updates, lost} \subseteq Nat

(* The retransmission timer of a peer is pending exactly while it has      *)
(* something to acknowledge: the last acknowledgement cancels the timer,   *)
(* and TimerHandler::cancel aborts on one that is not pending.             *)
TimersCoverUnacked == \A e \in Adjacent : e \in timer <=> unacked[e] # NothingUnacked

(* What a router knows of an origin, a peer with a link up either knows,   *)
(* or has been sent and has yet to acknowledge, in an advertisement or a   *)
(* topology map: lost packets, failures and links that come up again do    *)
(* not stop news on its way.  A regenerated advertisement does, when it    *)
(* meets the proper one at a link that has just come up (SeenIsKnown).     *)
NewsIsPending ==
  exited \/ \A e \in up : \A o \in Router \ {e[2]} :
    \/ db[e[1]][o].seq <= db[e[2]][o].seq
    \/ o \in DOMAIN unacked[e].lsa
    \/ unacked[e].tpm # None

(* When no packet is on its way and no acknowledgement is awaited, routers *)
(* that can reach each other have the same record of every origin that has *)
(* advertised itself.                                                      *)
Quiet == \A e \in Adjacent : chan[e] = <<>> /\ unacked[e] = NothingUnacked
AgreeWhenQuiet ==
  Quiet /\ ~exited =>
    \A r, o \in Router : o \in Reached(r, [n \in Router |-> UpPeers(n, up)])
                         /\ db[o][o].seq # 0 => db[r][o] = db[o][o]

(* The routing table comes from the topology in the database: no handler   *)
(* changes the one without the other.                                      *)
RoutesAreCurrent == \A r \in Router : routed[r] = Links(db[r])

(* Once no link changes and no packet is lost, everything sent is          *)
(* acknowledged and no router sends any more.                              *)
UpdatesEnd == <>[](exited \/ Quiet)

-----------------------------------------------------------------------------
(* What the comments of the code expect, and the code does not do: each    *)
(* has a counterexample.                                                   *)

(* What has been recorded as seen has been read: the database holds the    *)
(* advertisement, or a later one.                                          *)
SeenIsKnown == \A r, o \in Router : lsaHistory[r][o] <= db[r][o].seq

(* A record is only ever replaced by a newer one of the same origin.       *)
DatabasesAdvance == [][\A r, o \in Router : db[r][o].seq <= db'[r][o].seq]_vars

(* An advertisement that a peer has yet to acknowledge is still stored, so *)
(* that its repetition can be read.                                        *)
UnackedAreStored ==
  \A e \in Adjacent : \A o \in DOMAIN unacked[e].lsa : Stored(unacked[e].lsa[o].id)

(* A destination that is out of reach gets its route deleted, and the      *)
(* simulation goes on.                                                     *)
RoutesAreDeleted == ~exited
=============================================================================
