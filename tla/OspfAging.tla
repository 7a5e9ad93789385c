----------------------------- MODULE OspfAging -----------------------------
(***************************************************************************)
(* The age of one router LSA at every router that holds it: LsAgingManager *)
(* and OspfRouting::ageLSA, with the handlers that age decides in, which   *)
(* are receiveUpdate (through lookupLSA) and receiveAck, and repetition.   *)
(* All adjacencies are FULL and no packet is lost.                         *)
(*                                                                         *)
(* Ages are in parts of a second.  Flooding adds the delay of the link to  *)
(* an age; the answer to an older instance does not, nor did the request   *)
(* by which a router got its first copy.  So an age need not be a whole    *)
(* number of seconds, and ageLSA compares with ==.                         *)
(*                                                                         *)
(* A round is one second: every pending timer expires once in it, in any   *)
(* order with the packets.  A timer that is rescheduled in a round expires *)
(* next in the following one.  A flood takes less than a round, with its   *)
(* repetitions, which follow every 2 ms.                                   *)
(*                                                                         *)
(* The contents of a packet are those of a stored message, so when its     *)
(* receiver floods the LSA in it, the sender's copy ages too.  Equal       *)
(* updates on one link are taken to be the same message.                   *)
(***************************************************************************)
EXTENDS Integers, Sequences, FiniteSets

CONSTANTS
  Router,
  Originator,   \* of the LSA
  Adjacent,     \* the ordered pairs of adjacent routers
  Second,       \* parts of a second
  Delay,        \* infTransDelay of a link, in parts
  RefreshTime,  \* LS_REFRESH_TIME, in parts
  MaxAge,       \* MAX_AGE
  MaxAgeDiff,   \* MAX_AGE_DIFF
  InitSeqs,     \* sequence numbers the LSA may begin with
  MaxSeq,       \* bound: the last one given by a change
  WraparoundThreshold,  \* OSPF_WRAPAROUND_THRESHOLD
  MaxQueue,     \* bound: packets between two routers at which
                \* nothing is repeated
  MaxRound      \* bound: rounds

ASSUME AgingAssumption ==
  /\ IsFiniteSet(Router) /\ Originator \in Router
  /\ Adjacent \subseteq {e \in Router \X Router : e[1] # e[2]}
  /\ \A e \in Adjacent : <<e[2], e[1]>> \in Adjacent
  /\ {Second, RefreshTime, MaxAge, MaxAgeDiff} \subseteq Nat \ {0}
  /\ Router \subseteq Nat /\ InitSeqs \subseteq 0..MaxSeq
  /\ {Delay, MaxSeq, MaxQueue, MaxRound} \subseteq Nat
  /\ WraparoundThreshold \in Nat /\ MaxSeq < WraparoundThreshold

(* An instance: links stands for the link list, the changes it reflects.   *)
Instance == [seq : 0..MaxSeq, age : Nat, links : Nat]
NoLSA == [held |-> FALSE]

Update(ls) == [type |-> "update", lsa |-> ls]
Ack == [type |-> "ack"]
Message == {Ack} \cup [type : {"update"}, lsa : Instance]

VARIABLES
  db,       \* the copy of the LSA each router holds
  timer,    \* the routers whose LsAgingTimer for it is pending
  due,      \* those whose timer has yet to expire in this round
  retrans,  \* copies of the LSA on the retransmission list for a neighbour
  upd,      \* UpdateMap_ of a neighbour: updates by their originNodeId_
  chan,     \* packets on the links, in order
  changes,  \* how often the originator's links have changed
  round

vars == <<db, timer, due, retrans, upd, chan, changes, round>>

Neighbours(r) == {n \in Router : <<r, n>> \in Adjacent}
Holds(r) == db[r] # NoLSA
Quiet == \A e \in Adjacent : chan[e] = <<>>
Acked == \A e \in Adjacent : retrans[e] = 0

NoUpdates == [o \in {} |-> NoLSA]

-----------------------------------------------------------------------------
(* Bring-up is over: everyone has the originator's instance, and its age   *)
(* contains the delay of a link if it was flooded rather than requested.   *)
Init ==
  /\ \E s \in InitSeqs : \E age \in [Router -> {0, Delay}] :
       /\ age[Originator] = 0
       /\ db = [r \in Router |-> [seq |-> s, age |-> age[r], links |-> 0]]
  /\ timer = Router
  /\ due = Router
  /\ retrans = [e \in Adjacent |-> 0]
  /\ upd = [e \in Adjacent |-> NoUpdates]
  /\ chan = [e \in Adjacent |-> <<>>]
  /\ changes = 0
  /\ round = 0

(* Mutant of CreateLSA: only a timer that is pending is set again.         *)
CreateLSAIfPending(r) ==
  /\ timer' = timer
  /\ due' = due \ {r}

(* createLSA: the timer is set to one second from now.                     *)
CreateLSA(r) ==
  /\ timer' = timer \cup {r}
  /\ due' = due \ {r}

(* sendFlooding and sendLSAToAdyacents: the LSA, aged by the delay of the  *)
(* link, to every neighbour but one.                                       *)
Flood(r, ls, except) ==
  [e \in Adjacent |-> IF e[1] = r /\ e[2] # except
                      THEN <<Update([ls EXCEPT !.age = @ + Delay])>> ELSE <<>>]
NoPackets == [e \in Adjacent |-> <<>>]
Reply(r, n, m) == [NoPackets EXCEPT ![<<r, n>>] = <<m>>]

(* Packets are sent, an update with a copy on the retransmission list and  *)
(* in UpdateMap_, where it replaces the last one with the same origin.     *)
(* Links and stored are the links and UpdateMap_ before.                   *)
Recorded(e, sent) == \E i \in DOMAIN sent[e] : sent[e][i].type = "update"

Transmit(links, copies, stored, sent, origin) ==
  /\ chan' = [e \in Adjacent |-> links[e] \o sent[e]]
  /\ retrans' = [e \in Adjacent |-> copies[e] + IF Recorded(e, sent) THEN 1 ELSE 0]
  /\ upd' = [e \in Adjacent |->
       IF Recorded(e, sent)
       THEN [o \in DOMAIN stored[e] \cup {origin} |->
               IF o = origin THEN Head(sent[e]).lsa ELSE stored[e][o]]
       ELSE stored[e]]

Received(e) == [chan EXCEPT ![e] = Tail(@)]

-----------------------------------------------------------------------------
(* ageLSA, every second.                                                   *)

Expires(r) == r \in due /\ due' = due \ {r}

RefreshDue(r) ==
  r = Originator /\ Holds(r) /\ db[r].age = RefreshTime

(* The new instance takes its sequence number from itself, a header just   *)
(* made, instead of from the instance in the database.                     *)
Refreshed(r) == [seq |-> 0, age |-> 0, links |-> db[r].links]

RefreshLSA(r) ==
  /\ Expires(r)
  /\ RefreshDue(r)
  /\ db' = [db EXCEPT ![r] = Refreshed(r)]
  /\ Transmit(chan, retrans, upd, Flood(r, Refreshed(r), r), Originator)
  /\ UNCHANGED <<timer, changes, round>>

(* The removal at MaxAge waits for acknowledgements of the LSA, in vain:   *)
(* the timer is not set again.                                             *)
AtMaxAge(r) == Holds(r) /\ db[r].age = MaxAge

Unacked(r) == \E n \in Neighbours(r) : retrans[<<r, n>>] > 0

RemoveLSA(r) ==
  /\ Expires(r)
  /\ ~RefreshDue(r) /\ AtMaxAge(r)
  /\ db' = IF Unacked(r) THEN db ELSE [db EXCEPT ![r] = NoLSA]
  /\ timer' = timer \ {r}
  /\ UNCHANGED <<retrans, upd, chan, changes, round>>

(* incLSage: the first LSA in the list is aged, if there is one.           *)
AgeLSA(r) ==
  /\ Expires(r)
  /\ ~RefreshDue(r) /\ ~AtMaxAge(r)
  /\ db' = [db EXCEPT ![r] = IF Holds(r) THEN [db[r] EXCEPT !.age = @ + Second] ELSE NoLSA]
  /\ UNCHANGED <<timer, retrans, upd, chan, changes, round>>

-----------------------------------------------------------------------------
(* Mutant of Lookup: equal instances are taken for newer ones.             *)
LookupNotOlder(r, ls) ==
  IF ~Holds(r) THEN "NO_EXIST" ELSE IF ls.seq < db[r].seq THEN "OLDER" ELSE "NEWER"

(* Mutant of Lookup: ages are not compared.                                *)
LookupSeq(r, ls) ==
  IF ~Holds(r) THEN "NO_EXIST"
  ELSE IF ls.seq < db[r].seq THEN "OLDER"
  ELSE IF ls.seq > db[r].seq THEN "NEWER" ELSE "EQUALS"

(* lookupLSA: which of two instances is newer, the one received or the     *)
(* one held.                                                               *)
Lookup(r, ls) ==
  LET old == db[r] IN
  IF ~Holds(r) THEN "NO_EXIST"
  ELSE IF ls.seq < old.seq THEN "OLDER"
  ELSE IF ls.seq > old.seq THEN "NEWER"
  ELSE IF ls.age = MaxAge THEN "NEWER"
  ELSE IF old.age = MaxAge THEN "OLDER"
  ELSE IF old.age - ls.age > MaxAgeDiff THEN "NEWER"
  ELSE "EQUALS"

Arrives(s, r, type) ==
  /\ <<s, r>> \in Adjacent
  /\ chan[<<s, r>>] # <<>>
  /\ Head(chan[<<s, r>>]).type = type

(* It is flooded first, which leaves the delay in the message it came in   *)
(* and so in the copy installed.  An LSA at MaxAge that is not held would  *)
(* only be acknowledged; none arrives while all adjacencies are FULL.      *)
FloodedTo(s, r) == Neighbours(r) \ {s}
Aged(s, r, ls) ==
  IF FloodedTo(s, r) = {} THEN ls ELSE [ls EXCEPT !.age = @ + Delay]

AgedOnLink(s, r, ls) ==
  [Received(<<s, r>>) EXCEPT ![<<s, r>>] =
    [i \in DOMAIN @ |-> IF @[i] = Update(ls) THEN Update(Aged(s, r, ls)) ELSE @[i]]]
AgedInStore(s, r, ls) ==
  [upd EXCEPT ![<<s, r>>] =
    [o \in DOMAIN @ |-> IF @[o] = ls THEN Aged(s, r, ls) ELSE @[o]]]

InstallLSA(s, r) ==
  /\ Arrives(s, r, "update")
  /\ LET ls == Head(chan[<<s, r>>]).lsa IN
     /\ Lookup(r, ls) \in {"NO_EXIST", "NEWER"}
     /\ ~(Lookup(r, ls) = "NO_EXIST" /\ ls.age = MaxAge)
     /\ db' = [db EXCEPT ![r] = Aged(s, r, ls)]
     /\ Transmit(AgedOnLink(s, r, ls), retrans, AgedInStore(s, r, ls),
                 [Flood(r, ls, s) EXCEPT ![<<r, s>>] = <<Ack>>], Originator)
  /\ CreateLSA(r)
  /\ UNCHANGED <<changes, round>>

(* Mutant of OneLess: the list is not looked up first.                     *)
OneLessAlways(e) == [retrans EXCEPT ![e] = @ - 1]

(* One copy is taken off the list, if there is one; with the last one the  *)
(* updates are no longer repeated.                                         *)
OneLess(e) == [retrans EXCEPT ![e] = IF @ > 0 THEN @ - 1 ELSE 0]

Repeated(e) == [upd EXCEPT ![e] = IF retrans[e] = 1 THEN NoUpdates ELSE @]

(* The same instance is acknowledged, and is itself an acknowledgement.    *)
EqualLSA(s, r) ==
  /\ Arrives(s, r, "update")
  /\ Lookup(r, Head(chan[<<s, r>>]).lsa) = "EQUALS"
  /\ Transmit(Received(<<s, r>>), OneLess(<<r, s>>), Repeated(<<r, s>>),
              Reply(r, s, Ack), Originator)
  /\ UNCHANGED <<db, timer, due, changes, round>>

(* The test that discards an older one unanswered is of the instance held. *)
(* Numbers start again at every refresh, so none gets to the threshold.    *)
Discarded(held) == held.age = MaxAge /\ held.seq = WraparoundThreshold

Answer(s, r) ==
  IF Discarded(db[r]) THEN NoPackets ELSE Reply(r, s, Update(db[r]))

(* An older one is answered by the instance held, at the age it has.       *)
OlderLSA(s, r) ==
  /\ Arrives(s, r, "update")
  /\ Lookup(r, Head(chan[<<s, r>>]).lsa) = "OLDER"
  /\ Transmit(Received(<<s, r>>), retrans, upd, Answer(s, r), r)
  /\ UNCHANGED <<db, timer, due, changes, round>>

ReceiveAck(s, r) ==
  /\ Arrives(s, r, "ack")
  /\ Transmit(Received(<<s, r>>), OneLess(<<r, s>>), Repeated(<<r, s>>), NoPackets, r)
  /\ UNCHANGED <<db, timer, due, changes, round>>

Deliver(s, r) ==
  InstallLSA(s, r) \/ EqualLSA(s, r) \/ OlderLSA(s, r) \/ ReceiveAck(s, r)

(* UpdateMap_ is a std::map: its updates in the order of their origins.    *)
Rank(e, o) == Cardinality({a \in DOMAIN upd[e] : a <= o})
OriginAt(e, i) == CHOOSE o \in DOMAIN upd[e] : Rank(e, o) = i
UpdatesDue(e) ==
  [i \in 1..Cardinality(DOMAIN upd[e]) |-> Update(upd[e][OriginAt(e, i)])]

(* The update timer: all updates of UpdateMap_ once more.                  *)
ResendUpdates(e) ==
  /\ DOMAIN upd[e] # {}
  /\ Len(chan[e]) + Len(chan[<<e[2], e[1]>>]) < MaxQueue
  /\ chan' = [chan EXCEPT ![e] = @ \o UpdatesDue(e)]
  /\ UNCHANGED <<db, timer, due, retrans, upd, changes, round>>

(* Mutant of Changed: the sequence number is not incremented.              *)
ChangedInPlace(ls) == [seq |-> ls.seq, age |-> 0, links |-> changes + 1]

(* linkStateChanged at the originator: update makes the next instance.     *)
(* When the originator's own LSA has been removed, front() of an empty     *)
(* list is read, and nothing is said of what follows.                      *)
Changed(ls) == [seq |-> ls.seq + 1, age |-> 0, links |-> changes + 1]

LinkStateChanged ==
  LET o == Originator IN
  /\ Holds(o)
  /\ db[o].seq < MaxSeq
  /\ changes' = changes + 1
  /\ db' = [db EXCEPT ![o] = Changed(@)]
  /\ Transmit(chan, retrans, upd, Flood(o, Changed(db[o]), o), o)
  /\ UNCHANGED <<timer, due, round>>

NextRound ==
  /\ due = {} /\ Quiet /\ Acked
  /\ round < MaxRound
  /\ round' = round + 1
  /\ due' = timer
  /\ UNCHANGED <<db, timer, retrans, upd, chan, changes>>

Next ==
  \/ \E r \in Router : RefreshLSA(r) \/ RemoveLSA(r) \/ AgeLSA(r)
  \/ \E e \in Adjacent : Deliver(e[1], e[2])
  \/ \E e \in Adjacent : ResendUpdates(e)
  \/ LinkStateChanged
  \/ NextRound

Spec == Init /\ [][Next]_vars

Fairness == \A e \in Adjacent : WF_vars(Deliver(e[1], e[2])) /\ WF_vars(ResendUpdates(e))
FairSpec == Spec /\ Fairness

-----------------------------------------------------------------------------
TypeOK ==
  /\ db \in [Router -> Instance \cup {NoLSA}]
  /\ due \subseteq timer /\ timer \subseteq Router
  /\ retrans \in [Adjacent -> Nat]
  /\ upd = [e \in Adjacent |-> upd[e]]
  /\ \A e \in Adjacent : /\ DOMAIN upd[e] \subseteq Router
                         /\ upd[e] \in [DOMAIN upd[e] -> Instance]
  /\ chan \in [Adjacent -> Seq(Message)]
  /\ changes \in Nat /\ round \in 0..MaxRound

(* When no packets are on the links and all is acknowledged, those who     *)
(* hold the LSA hold the same instance, contents and all: also after a     *)
(* refresh whose sequence number has started again, and after changes that *)
(* reuse the numbers of instances still held elsewhere.                    *)
AgreeWhenQuiet ==
  Quiet /\ Acked =>
    \A r, q \in Router : Holds(r) /\ Holds(q) =>
      db[r].seq = db[q].seq /\ db[r].links = db[q].links

(* While the LSA has not changed the refresh does work: where sequence     *)
(* numbers are equal, the difference of the ages tells, and no copy gets   *)
(* old.                                                                    *)
UnchangedIsRefreshed ==
  changes = 0 /\ (\A r \in Router : Holds(r) => db[r].seq = 0) =>
    \A r \in Router : Holds(r) => db[r].age < RefreshTime + 2 * Second

(* A held LSA is aged every second, or has reached MaxAge exactly.         *)
HeldAreAged ==
  \A r \in Router : Holds(r) => r \in timer \/ db[r].age = MaxAge

(* Flooding ends, with everything acknowledged, however ages and sequence  *)
(* numbers compare.                                                        *)
FloodsEnd == <>[](Quiet /\ Acked)

-----------------------------------------------------------------------------
(* What the comments of the code expect, and the code does not do: each    *)
(* has a counterexample.                                                   *)

(* No router has a newer instance than the originator: a refresh makes a   *)
(* new instance.                                                           *)
OriginatorIsNewest ==
  \A r \in Router : Holds(r) /\ Holds(Originator) =>
    db[r].seq <= db[Originator].seq

(* An LSA that has reached MaxAge is removed.                              *)
AgesAreBounded == \A r \in Router : Holds(r) => db[r].age <= MaxAge

(* A router holds its own LSA.                                             *)
OwnIsHeld == Holds(Originator)

(* The originator's database represents its own links.                     *)
OwnIsCurrent == Holds(Originator) => db[Originator].links = changes
=============================================================================
