# Specification of the routing agents of ns-hack

`ns-hack` is ns-2.35 with an OSPF routing agent (`ns-2.35/ospf/`, about 5,900
lines of C++, plus its Tcl glue in `tcl/rtglib/ns-rtProtoOSPF.tcl`). This
directory specifies that agent: the protocol that brings adjacencies up,
synchronises link state databases, floods changes and repeats what is lost; the
message center its packets point into; the aging of LSAs; the route computation.
It specifies too what the agent was made from and lives with: the link state
protocol of `linkstate/`, and the route object in `tcl/rtglib/route-proto.tcl`
that installs routes in a node. Most of the rest of the repository is the
unchanged simulator and the third-party packages it is distributed with.

Paths below are relative to `src/ns-allinone-2.35/ns-2.35/`.

## The system

| part | state it keeps | operations | where |
|---|---|---|---|
| hello protocol | `OspfNeighbour::state_`, `neighbourIdList`, `adyacentsIdList`, an inactivity timer per neighbour | `sendHellos`, `receiveHello`, `helloReceivedEvent`, `twoWayReceivedEvent`, `oneWayReceivedEvent`, `inactivityTimerEvent` | `ospf/ospf.cc` 1081-1187, 1834-1887, 2273-2340, 2866-3001 |
| database exchange | `masterSlave_`, `ddSeq_`, `lsHeaderList_`, `lsRequestList_` | `receiveDD`, `receiveRequest` and the events they raise | 2347-2481, 3044-3460, 3539-3550 |
| flooding | `lsRetransmissionList_` | `receiveUpdate`, `receiveAck`, `sendFlooding`, `sendLSAToAdyacents` | 2488-2776, 3008-3037, 3555-3639 |
| retransmission manager | `OspfUnackPeer`: `DdSeq_`, `ReqSeq_`, `UpdateMap_`, two timers | `messageOut`, `messageIn`, `cancelTimer`, `resendMessages` | 823-1068 |
| link state database | `linkStateDatabase_` | `insertLinkState`, `lookupLSA`, `delLSA`, `changeRouterLSAState`, `linkStateChanged` | 207-616, 1780-1818, 3646-3707 |
| LSA aging | a timer per originator, `LSage_` | `createLSA`, `cancelTimer`, `ageLSA` | 1199-1264, 3467-3533 |
| route computation | `routingTablePtr_` | `_computeRoutes`, `OspfPaths`, `OspfPathsTentative` | 54-198, 3713-3905 |
| message center | one store of messages per type, shared by all agents | `newMessage`, `retrieveMessagePtr`, `deleteMessage` | 625-812 |
| agent | addresses of the peers, the node's links | `recv`, `sendMessage`, `intfChanged`, `lookup` | `ospf/rtProtoOSPF.cc` |
| Tcl glue | the routes offered to the route object | `send-periodic-hello`, `cost-changed`, `install-routes` | `tcl/rtglib/ns-rtProtoOSPF.tcl` |
| LS protocol | database, `lsaHistory_`, `tpmHistory_`, `LsUnackPeer`, a buffer of messages, the shared `LsMessageCenter` | `sendLinkStates`, `linkStateChanged`, `receiveLSA`, `receiveTopo`, `ackIn`, `resendMessages` | `linkstate/ls.cc`, `rtProtoLS.cc` |
| route object | the best route to each destination and the protocol it came from | `compute-routes`, `intf-changed` | `tcl/rtglib/route-proto.tcl` |
| node | a classifier slot per destination, `routes_`, multipath classifiers | `add-routes`, `delete-routes` | `tcl/lib/ns-node.tcl` |

How they interact. The scheduler of the simulator is single-threaded: it calls
one handler at a time (a packet arriving at `rtProtoOSPF::recv`, an expired
timer, the hello command of the Tcl agent, a cost change made by the script) and
the handler runs to completion. A packet on a link carries only the number of a
message in the message center. `OspfRouting` calls the three timer managers,
which call it back when a timer expires; every change of the database recomputes
the routing table in the same handler, and `recv` installs the routes in Tcl when
`receiveMessage` returns true.

What is hard is not in a handler but between handlers: two routers negotiate
from packets that may be lost, repeated or left over from an exchange already
torn down; two timers share one resend function, and `TimerHandler::cancel`
aborts the whole process when the timer is idle; retransmission lists are
emptied by acknowledgements that name only an originator; a live neighbour is
recorded in five places; newer instances overtake older ones on other paths; a
stored message changes, or is recycled, while packets point to it; a Tcl handler
computes routes several times before it is done.
`PROJECT.json` lists these hazards at their lines, with the property that watches
each one.

## The modules

| module | what it models | abstract specification | proofs | TLC |
|---|---|---|---|---|
| `OspfAdjacency` | the OSPF agents and the links between them | `LinkStateReplicas` | `OspfAdjacencyProofs`, `OspfNeighbourProofs`, `OspfSynchronisationProofs` | `MCOspfAdjacency` (two routers, one link), `MCOspfFlooding` (a triangle, all adjacencies up) |
| `OspfMessageCenter` | the stores of messages and who names them | `MessagePassing` | `OspfMessageCenterProofs` | `MCOspfMessageCenter` |
| `OspfAging` | the age of one LSA at every router | | `OspfAgingProofs` | `MCOspfAging` |
| `OspfRoutes` | `_computeRoutes` at one router | shortest paths, as an operator | `OspfRoutesProofs` | `MCOspfRoutes` |
| `LsRouting` | the LS agents, their links and messages | | `LsRoutingProofs` | `MCLsRouting` |
| `RouteObject` | the route object and classifier of one node, for one destination | | `RouteObjectProofs` | `MCRouteObject` |

How they fit: `OspfAdjacency` lets packets carry their contents, which
`OspfMessageCenter` justifies (`ImplementsPassing`); it keeps ages below the
refresh, which `OspfAging` takes up; the database it agrees on is the input of
`OspfRoutes`, whose result is what the link state protocol of `RouteObject`
offers.

### OspfAdjacency

State is kept per ordered pair `p = <<r, n>>`: what router `r` keeps about its
neighbour `n`.

| variable | in the code |
|---|---|
| `state`, `ms`, `ddSeq`, `headers`, `retrans`, `requests` | the fields of `OspfNeighbour` |
| `dd`, `req`, `upd`, `ackTimer`, `updTimer` | `OspfUnackPeer` and the status of its two timers |
| `deadTimer` | the neighbour's `OspfInactivityTimer` |
| `nbrList`, `adjList` | `neighbourIdList`, `adyacentsIdList` |
| `upLinks` | the links of the router's own LSA in `LS_STATUS_UP` |
| `lsdb`, `aging` | `linkStateDatabase_`, and whose `LsAgingTimer` is pending |
| `chan` | the packets on the link, in order |
| `rx` | the update `receiveUpdate` is working through, with the neighbour state it read before its loop |
| `now`, `halted` | the clock as far as `incDDseq` reads it; `abort()` has been called |

One action is one handler, with everything it calls:

| action | handler |
|---|---|
| `SendHellos` | `sendHellos` |
| `ReceiveHelloTwoWay`, `ReceiveHelloOneWay` | `receiveHello` with `changeRouterLSAState`, then the two-way or the one-way event |
| `InactivityExpires` | `inactivityTimerEvent` |
| `DDIgnored`, `NegotiateAsSlave`, `NegotiateAsMaster`, `RolesUndecided`, `DDOutOfTurn`, `DDProcessed` | `receiveDD`, by the state of the neighbour and the packet |
| `ReceiveRequest` | `receiveRequest`, including `BadLSReqEvent` |
| `ReceiveUpdate`, then `InstallLSA`, `EqualLSA`, `OlderLSA` or `UnexpectedLSA` per advertisement, then `FinishUpdate` | `receiveUpdate`; nothing else is enabled while it runs |
| `ReceiveAck`, `Dropped` | `receiveAck`; the early returns of the three update handlers |
| `AckTimerExpires`, `UpdTimerExpires` | `resendMessages`, from either timer |
| `CostChanged` | `linkStateChanged` |
| `AgingAborts` | `ageLSA` of an LSA that is not held |
| `Lose` | a packet is lost |

What is abstracted:

* An LSA is its originator and its sequence number. Every LSA in the code is a
  router LSA with `LS_ID_ = advertising_router_`; its link list is a function of
  that pair. So a database, a summary, an update and `UpdateMap_` are functions
  from originators to sequence numbers.
* A packet carries its contents, where the code's packets carry the number of a
  message in the message center. A message recycled there is a lost packet. The
  hello is the exception: its contents is a pointer to the sender's neighbour
  list, so what the receiver reads is the list at the time of arrival, and the
  model does the same.
* A summary fits one description packet: `sendDD` always clears the M bit.
* `LSage_` stays below `LSRefreshTime`: nothing is refreshed or removed by age.
* A link or an interface that goes down is a link that loses packets, followed by
  the inactivity timer. `linkStateChanged` rebuilds the router's LSA with every
  link up, as the code does.
* The retransmission interval (2 ms) may be shorter than a link's delay, so those
  timers may fire at any time. The hello interval is far longer: a router's next
  hello waits until its last one has left the link.
* Clearing `UpdateMap_` in `messageIn` erases the element the loop stands on. The
  nodes of the tree the iterator then reads keep their successor links until they
  are reused, and nothing is allocated in between, so the loop empties the map;
  that is the outcome modelled.
* After `abort()` no action is enabled. Handlers that abort half-way are not cut
  in two, since nothing follows.

### LinkStateReplicas

One variable, `lsdb`. Only an originator makes a new instance of its LSA, one
number on; any other router only ever replaces its replica by an instance that is
newer and that the originator has made. Messages, timers, neighbours and losses
do not appear. `OspfAdjacency` has the same variable, so the refinement mapping
is the identity on it.

### OspfMessageCenter and MessagePassing

`store`, `current` are the storages and counters of the message center, `links`
the packets with the ids they carry, `record` the ids the retransmission manager
keeps (`DdSeq_`, `ReqSeq_`, `UpdateMap_`). A message's contents is its place in
the order of making. `MessagePassing` has no ids and no storage: packets and
records carry messages, which may be lost or forgotten at any time. The
refinement mapping looks up every id: a packet whose message is gone is a lost
packet (`Settle`). This is what makes "a message recycled there is a lost packet" in
`OspfAdjacency` right, and it needs that ids have not wrapped around.

| action | code |
|---|---|
| `Send` (`NewMessage`, to `Destinations`, with or without `Recording`) | the `send...` methods, with `newMessage`, which aborts on an id that is in use, and `messageOut` |
| `ReceiveMessage` | `receiveMessage`; acknowledgements are deleted once read |
| `Answered` | `messageIn`, `cancelTimer` |
| `Resend` | `resendMessages` |
| `Lose` | a packet is lost |

### OspfAging

One LSA, all adjacencies FULL, no loss: the age of the copies, their timers,
retransmission lists and updates. Ages are in parts of a second, since flooding
adds the delay of the link to an age. A round is a second, in which every pending
aging timer expires once. `RefreshLSA`, `RemoveLSA`, `AgeLSA` are the branches of
`ageLSA`; `Deliver` is `receiveUpdate` (`InstallLSA`, `EqualLSA`, `OlderLSA`)
or `receiveAck`; `ResendUpdates` is `resendMessages`; `LinkStateChanged` is a cost
change. When a receiver floods an advertisement it ages the one in the stored
message, so the copies on other links and in `UpdateMap_` age with it; the model
ages them all (`AgedOnLink`, `AgedInStore`). `links` is the number of changes the
copy's contents reflects, so that instances with equal numbers can differ. An older
advertisement is answered unless the copy held is at `MaxAge` with the number
`OSPF_WRAPAROUND_THRESHOLD` (`Discarded`). Numbers restart at every refresh, so it would
take 2^31 changes within half an hour to get there; `MaxSeq` is assumed to lie below,
and the proofs show that an older one is always answered (`OlderIsAnswered`).

### OspfRoutes

`Expand` is one pass over the links of the router just installed, `Pop` one
`popShortestPath` with `insertPath`; both tables are functions from topologies
and routers to a cost and a set of next hops. `NextTopology` starts the outer loop
again. A router may have no entry in the database (`NoLSA`), or a list that `delLSA` has
left empty (`Emptied`). The code asks for that where its own links are concerned; of a
router just installed it takes `front()` of the list, which is undefined: `pc` is then
`"undefined"`, and nothing is said of what follows.
`Distances` and `FirstHops`, the reference definition, know nothing of
tentative paths: `Distances` relaxes all links as often as there are routers,
each time over one link more, and a first hop is a neighbour on a shortest path.

### LsRouting

State per router (`db`, `lsaHistory`, `tpmHistory`, `routed`) and per ordered pair
of peers (`unacked`, `timer`, `chan`); the message center is `made` and `messages`,
of which the last `MaxSize` can be retrieved (`Stored`). `LinkChanges` is the
`linkStateChanged` of both ends of a link; `PeriodicUpdate` is `sendLinkStates`;
`ReceiveMessage` is `recv` with `receiveLSA`, `receiveTopo` or `ackIn`, and
`computeRoutes` with the installation of routes that follows it. A
topology map is a pointer to the live database of its sender, and is read as it is
on arrival. What is sent to several peers is sent in ascending order of their
addresses (`Ascending`). `Reached`, the routers that a router's links lead to, is
the smallest set that is closed under them, so that it can be reasoned about. When the installation finds a destination without a route that had
one, the simulation ends with a Tcl error (`exited`).

### RouteObject

One node and one destination. `offer` is what each of two protocols offers,
Direct and a link state protocol; `route` is the route object's own record;
`table` the slots of the classifier, and `routes_`. `RouteChanged` is
`route-changed` of the link state protocol, `IntfChanged` is `intf-changed`, which
lets each protocol look at the links and compute, and computes after each: the
order (link state first, as Tcl orders the two names) is that of the
code. `multiPath` is the `multiPath_` of the node, chosen in `Init`; slots are
counted, since a multipath classifier may hold a link several times. `AtOnce` says whether the link state protocol computes in that handler (LS)
or hears of the failure later (OSPF).

## The runs

| run | instance | question |
|---|---|---|
| `bring_up` | 2 routers, no loss, both may change costs at any moment, fair | does the adjacency always come up, stay up, and leave equal databases (`BringUpConverges`), and is a quiet network a synchronised one (`SynchronisedWhenQuiet`) |
| `lossy` | 2 routers, loss, both retransmission timers | `TypeOK`; do the ends agree on the master (`HigherIdIsMaster`) and the sequence number (`ExchangeInLockstep`); is a repeated packet ever taken for a duplicate (`RepeatsAreNeverDuplicates`); do the timers match what is unanswered (`TimersCoverAwaited`, `LoadingAwaitsAnswer`, `UnackedUpdatesKept`) |
| `churn` | 2 routers, inactivity, aging timers, cost changes | do the records of a live neighbour agree (`HeardNeighbours`), and do the databases implement the abstract ones (`ImplementsReplicas`) |
| `flooding` | 3 routers in a triangle, two new instances of one LSA, fair | does flooding end with everything acknowledged and equal databases (`FloodingSettles`), and does no database go back (`InstancesOnlyAdvance`, `InstancesAreMade`) |
| `timer_pending` | 2 routers, retransmission | violated: an idle timer is cancelled, which aborts |
| `message_center` | 4 types, 2 slots, storage for 2, 4 description packets, one message of each other type | do ids behave like the messages they name (`ImplementsPassing`), are the newest kept (`NewestAreKept`), is nothing refused in the first cycle of ids (`FirstCycleIsSafe`), does the storage keep its bounds (`TypeOK`) |
| `aging` | 3 routers in a line, changes, eighteen rounds, fair | do floods end (`FloodsEnd`) with equal copies (`AgreeWhenQuiet`), is every copy aged (`HeldAreAged`), is an LSA that has not changed refreshed everywhere (`UnchangedIsRefreshed`) |
| `lost_change` | 2 routers, one change after a refresh | violated: the originator loses a change of its own links |
| `routes` | 4 routers, many graphs, two topologies, fair | does the computation end (`ComputationEnds`) with all shortest paths of each topology (`RoutesAreShortest`); are the invariants it rests on right (`LinksFollowed`, `PathsAreReal`, `InstalledCostsAreFinal`); does it abort only where a path is one dearer than the greatest cost (`AbortsAtLimit`) |
| `ls_failures` | triangle, a link fails and comes up again, no loss | does news stay pending until known (`NewsIsPending`), do quiet routers agree (`AgreeWhenQuiet`) |
| `ls_updates` | triangle, a failure, a periodic update, a lost packet, fair | do timers cover what is unacknowledged (`TimersCoverUnacked`), is news pending until known (`NewsIsPending`), does it end (`UpdatesEnd`) |
| `route_object` | 4 links, LS and Direct, with multipath routing and without | is the best route installed after every handler (`BestIsInstalled`), no link that is down used (`DownLinksAreUnused`), a multipath classifier only made for several links (`MultipathForSeveral`) |

### Bounds

| constant | what it limits | why it is enough |
|---|---|---|
| `MaxQueue` | packets on one link | 9 in the liveness runs, where it is never reached, so it cannot end a behaviour; 2 in the others, where a third packet on a link adds nothing to the orders two packets can be in |
| `MaxDdSeq` | sequence numbers, that is, restarts of the exchange | 4 allows a first exchange, a repeated packet that restarts it and one more; 12 with a clock that jumps by `DeadInterval` |
| `MaxLsSeq` | instances of one LSA | 2 so that one instance overtakes another; 0 where only the exchange is asked about |
| `MaxRetrans` | copies of one LSA on a retransmission list | 2: the removal of one copy must leave another; 6 in the liveness runs, never reached |
| `MaxNow`, `DeadInterval` | expiries of inactivity timers | two in `churn`, so that both ends can forget each other |

Nothing is asked about states beyond a bound: `WithinBounds` is a guard of every
action. `CHECK_DEADLOCK` is off because the simulator does stop: when it aborts,
and in `flooding` when everything has settled; in the other modules too, when a
computation is over, ids or rounds have run out, or a Tcl error has ended it.

In the other modules:

| constant | what it limits | why it is enough |
|---|---|---|
| `MaxSize`, `Threshold`, `MaxMade` | a store of messages, the ids, the messages made | twice as many messages of one type as a store holds, so that every message that can be recycled is, and all ids are used once and none twice: after the wrap `newMessage` may fail (`InsertSucceeds`, below); the type is the one that may be recorded or not. The others are stored and numbered independently of it |
| `RefreshTime`, `MaxAge`, `MaxAgeDiff` | ages of an LSA | 8, 16 and 4 s in place of 1800, 3600 and 900: the same ratios, with a link delay of a quarter of a second, and far enough apart for the assumptions of the proofs ("Aging", below). `lost_change` needs no more than 3, 6 and 1.5 s |
| `MaxRound` | seconds | 18, past `MaxAge`, so that LSAs are removed |
| `InitSeqs`, `MaxSeq` | instances of the LSA | the refresh begins again at 0, so 0, 1 and 2 give it an older, an equal and a newer number; all are below `WraparoundThreshold`, which has the value it has in `utils.h` |
| `Databases` | the graphs of a run of `OspfRoutes` | all graphs of a family on four routers, each link up or down each way with costs that tie and that do not, none of them 0 (`ComputationEnds`, below); with unit costs also those where one LSA is missing, has been removed or is at `MAX_AGE` |
| `MaxCost` | `LS_MAX_COST` | 6: the paths of the graphs cost up to 7 or more, so that those at, one beyond and past the limit occur |
| `MaxChanges`, `MaxUpdates`, `MaxLost`, `MaxQueue` (LS) | link changes, updates, losses, packets on a link at which nothing is repeated | two changes let a link fail and come up again with packets of the failure still on their way. Two different links that fail leave a router of the triangle without routes, which ends the simulation, so a link that comes up again is all the second change adds; a third change, or four routers, is beyond TLC. That several links may fail is what `NewsStaysPending` and `DatabasesAgree` prove. With one update and one loss the largest instance takes a minute |
| `MaxSlots` | how often a multipath classifier holds a link | 3: a link that stays behind is added again, and again |

The runs of `LsRouting` start from a triangle, since fewer links would make a
destination unreachable with the first failure, which ends the simulation.
`NewsIsPending` is checked without losses in `ls_failures` and without recovered links
in `ls_updates`: where a recovered link meets an update, a failure elsewhere or a loss,
its topology map can carry something newer, and the regenerated advertisement without
contents (`SeenIsKnown`, below) breaks it. In `ls_failures` the maps bring nothing newer.

`SynchronisedWhenQuiet` is stated for a lossless network whose neighbours do not
fall silent and whose answers come before the retransmission timers expire. Outside
these conditions `AdjacentWhenTwoWay`, below, bites: an LSA that changes while a
restarted exchange has the neighbour off the adjacency list is never flooded to it.
With the inactivity timer among the events of two routers TLC finds them quiet and
different after 30 states, with the retransmission timers, which repeat a description
packet and so restart the exchange, after 35.

### Fairness

`FairSpec` asks that a packet on a link is delivered, that `receiveUpdate` goes
on, and that hellos are sent. The scheduler dispatches every scheduled event; a
link schedules the arrival of each packet it accepts; `send-periodic-hello`
schedules itself again before it returns. In `OspfAging` and `LsRouting` it also
asks that what is unacknowledged is sent again, since their timers are running
(`TimersCoverUnacked`), and in `OspfRoutes` that the loops go on. Nothing is assumed of cost changes,
losses or timers: `bring_up` and `flooding` have no retransmission, since on a
lossless link everything must come up without it.

### What the violations show

* **timer_pending.** `common/timer-handler.h:87` says of `cancel()` "must be
  pending". The update timer fires while a description packet or a request is also
  unanswered; `resendMessages` repeats that one and returns without restarting
  the update timer; the last acknowledgement then cancels an idle timer.
* **lost_change.** `ospf.cc:3476` says of the refresh "create new instance"; the
  variable declared there hides the LSA read before, so the sequence number starts
  again. A change of links after it gets a number the neighbours have seen
  before; they answer with the older copy, which the originator installs over
  its own LSA.

### Other disagreements

Met while modelling, stated as definitions in the modules, and each found violated
by TLC in a small instance, but not among the runs. They are why some hazards in
`PROJECT.json` have no property.

| definition | module, instance | what the code says, and does |
|---|---|---|
| `AdjacentWhenTwoWay` | `OspfAdjacency`, as `churn` | `ospf.h:1120` says the list holds neighbours with two-way connectivity; a restarted exchange takes one off until its next hello |
| `UnackedUpdatesAreTimed` | `OspfAdjacency`, as `timer_pending` | `ospf.cc:1009` says all unacknowledged messages are sent again; two early returns leave the updates out, and untimed |
| `AgedLSAsAreHeld` | `OspfAdjacency`, as `churn` | `ospf.cc:1207` says `createLSA` is called when an LSA is created or inserted; `changeRouterLSAState` calls it for a neighbour whose LSA may never have arrived, and its expiry aborts |
| `InsertSucceeds` | `OspfMessageCenter`, `MaxMade` above twice `Threshold` | a full store erases its smallest id; in the second cycle that is the newest message, ids of the first stay, and when the counter reaches them `newMessage` calls `ls_error` |
| `UnansweredAreStored` | `OspfMessageCenter`, as `message_center` | `ospf.cc:920` says of a message not yet acknowledged that it "must be in the messageCenter"; recycling does not look |
| `OriginatorIsNewest`, `OwnIsHeld` | `OspfAging`, as `aging` | what follows from the restarted sequence number: neighbours hold a newer instance than the originator, whose own LSA may get the age of their copy, never equal `LSRefreshTime` again, and be removed |
| `AgesAreBounded` | `OspfAging`, `MaxRound` past `MaxAge` | `ospf.cc:3520` removes an LSA whose age equals `MAX_AGE`; an age with a fraction of a second never does |
| `LinkStatesAreHeld` | `OspfRoutes`, as `routes` | `ospf.cc:3855` says "if we have the link state for the new node", but asks only for its list, which `delLSA` may have emptied, and takes the first of it |
| `ComputationEnds` | `OspfRoutes`, with links of cost 0 | `LS_MIN_COST` is 0, and two routers linked at that cost make one another tentative without end |
| `SeenIsKnown` | `LsRouting`, with recovered links | `regenAndSend` leaves the contents out of the message it makes; its receiver takes it for read and refuses the proper one |
| `UpdatesEnd` | `LsRouting`, with recovered links | `receiveLSA` acknowledges the id of a message, the sender compares the sequence number; a regenerated message has two different ones, and is repeated for ever |
| `NewsIsPending`, `AgreeWhenQuiet` | `LsRouting`, a link down from the start, one periodic update | the recovered link's topology map brings what is newer, and `regenAndSend` passes it on without its contents: routers that have seen it and not read it refuse the proper one, and stay behind |
| `DatabasesAdvance` | `LsRouting`, with a router that starts late | `ls.cc:360` accepts what is "more up-to-date than the old one", but compares with a history that topology maps do not update |
| `UnackedAreStored` | `LsRouting`, `MaxSize` small | the storage recycles an advertisement not yet acknowledged |
| `RoutesAreDeleted` | `LsRouting`, on a line of routers | `route-proto.tcl:194` says "delete any existing routes"; line 198 reads an array element that does not exist |

In `RouteObject` a multipath classifier keeps a direct link that goes down, comes up
and goes down again, where `doc/unicast.tex:395` says `nextHop_` contains the link that
will be used: `BestIsInstalled` and `DownLinksAreUnused` are weaker under `multiPath` for
that reason.

## The proofs

All are checked by TLAPS. Every safety invariant of the passing runs is proved for
every value of the constants; where a theorem needs a hypothesis, it is given here
with the reason.

`OspfAdjacencyProofs`, `OspfNeighbourProofs` and `OspfSynchronisationProofs` prove for every
finite set of routers, every network of point-to-point links among them, every
choice of events and every bound:

* `TypeCorrect`: `Spec => []TypeOK`. `TypeOK` is inductive. Most of the proof is
  arithmetic-free; the retransmission counts need that a handler takes a copy off
  only when there is one, and `UpdatesDue` needs that ranking the pending updates
  by originator numbers them 1 to n (`RankIsNumbering`, over `Cardinality`).
* `InstancesMade`: `Spec => []InstancesAreMade`. Inductive together with `TypeOK`.
  It looks at every place an instance can be, because each of them feeds another:
  the database the updates, the updates `rx` and `UpdateMap_`, these the links.
* `DatabasesOnlyAdvance`: `Spec => [][Replicas!Next]_lsdb`, and `Refinement`:
  `Spec => Replicas!Spec`. A step installs only what is in `rx`; that it has been
  made by its originator is `InstancesAreMade`, and without it a router could be
  handed an instance of its own LSA newer than the one it holds, which
  `Replicas!Learn` rules out. So the originator never learns its own LSA.

* `RolesAgree`: `Spec => []HigherIdIsMaster`. Not inductive by the shape of the
  handlers: one lemma per group of handlers shows `RolesKept`, that a neighbour in
  the exchange after a step was in it before, in the same role, or had its role
  settled by comparing the ids.
* `LoadingIsAnswered`: `Spec => []LoadingAwaitsAnswer`, inductive with `TypeOK`. The
  handlers that matter are `DDProcessed`, which sets the state and both request
  lists together, and `FinishUpdate`, which forgets the request only as it leaves `LOADING`.
* `HeardAgree`: `Spec => []HeardNeighbours`. Between the advertisements of an
  update other events of the same router are held back, but not those of others, so
  the invariant needs `InHandInExchange`: the neighbour whose update is in hand is in
  the exchange, hence heard.
* `TimersAreRight`: `Spec => []TimersCoverAwaited`. A request with an empty list would
  leave the timer running with nothing to repeat, so the invariant takes in
  `RequestsAsk`: no request on a link, or kept for repetition, is empty.
* `UpdatesAreKept`: `Spec => []UnackedUpdatesKept`. An LSA enters a retransmission list
  only together with an update of the manager, and an acknowledgement that empties
  `UpdateMap_` of an originator empties the retransmission list of it as well.
* `ExchangeLocked`: `Spec => []ExchangeInLockstep`, and `NoDuplicates`:
  `Spec => []RepeatsAreNeverDuplicates`, both assuming that the inactivity timer never
  fires: a neighbour declared dead starts its numbers from the clock again, and
  packets of the time before may carry the same ones. The assumption is needed:
  with timeouts, losses and repeats together TLC finds a duplicate after 29 steps,
  far more states than the runs have. The invariant `Lockstep`
  speaks of every description packet on a link between a master and its slave: none
  is ahead of the master (`NoneAhead`); a master in `EXCHANGE` has no initial packet
  left on its way, and the replies on theirs are to its current number
  (`MasterAhead`); no packet the slave has still to read carries the slave's number
  (`SlaveBehind`); an initial packet asks for replies not yet sent
  (`InitialsAreNew`); and both kinds of numbers rise along the queue. Every handler
  is then one of six moves at one neighbour (`Moves`) and calm at all others, and
  one lemma per move shows that `Lockstep` survives it.
* `QuietIsSynchronised`: `Spec => []SynchronisedWhenQuiet`, assuming that the only timers
  to expire are the hello and aging timers and that nothing is lost. Each part of the
  assumption is needed (see "Bounds" for the counterexamples), and it is what a network
  does whose links are up and whose delays are far below the retransmission and dead
  intervals: the answer always comes first. How the argument goes is below.

In `OspfAdjacencyProofs` the lemmas come first: pairs and databases, then one
`Type...` lemma per handler, then one `Made...` lemma per handler, and
`DatabaseStep`, which says of every action what it may do to the databases. The
assumptions are those of `OspfAdjacency`: routers are finitely many numbers and a
link joins two of them.

### Why quiet neighbours agree

`OspfSynchronisationProofs`. "Everything sent has arrived, so the databases are equal" is
no induction: what has to be known of every state in between is how each difference
between two databases will be made up. The invariant has two parts.

`InOrderOfPhases` follows a master and its slave through five phases (`Opening`,
`SlaveInExchange`, `BothInExchange`, `SlaveDone`, `BothDone`) and says which description
packets are on the way in each, and that two-way is mutual (`Mutual`): a router past
`INIT` is in its neighbour's hello list, and its neighbour in its own adjacency
list. It shows on the way that `DDIgnored`, `DDOutOfTurn` and `UnexpectedLSA` are never
taken, that no answer to a request is incomplete, and that the own link never goes
down, so that a hello never originates.

`Synchronising` has three parts for every pair. `CatchingUp`: of every LSA a router in
the exchange holds, its neighbour holds an instance as new; or the neighbour has yet to
take the router's summary, which names an instance as new; or an update with it is on the way and will not be dropped; or the neighbour has asked for it; or the
router has itself asked the neighbour, and its answer will be compared with what the
router holds. `AsksForNewer`: what a router waits for, its neighbour has newer, and
everything on its way from there is newer. `SendsItsOwn`: nothing on the way or in a
summary is newer than what its sender holds, and what follows a summary on a link is
not older than the summary. The second and third are what the first needs where a
flood crosses the exchange: the instance a router installs from a third one may have
been asked for from this one, may overtake its own summary, or may find the neighbour
not yet listening.

The proof does not take `Synchronising` through the twenty actions. Four kinds of
step change the data: `Idle` ones change no database and no request, `Advances` puts a
newer instance in one database and on some of its links, `Summarised` takes a summary
and asks for its news, `Supplies` answers a request. One lemma for each shows that
`Synchronising` survives it; one lemma for each action shows that it keeps
`InOrderOfPhases` and is of one of the four kinds (`CoherentMoves`). TLC has checked the
invariant first, on two routers and on a line of three. When all is quiet and full,
only the first way of catching up is left, and it holds in both directions
(`QuietAgrees`).

### The message center

`OspfMessageCenterProofs`. The first cycle of ids ends when as many messages of a
type have been made as there are ids.

* `TypeCorrect`: `Spec => []TypeOK`, for every number of messages, the later
  cycles of ids included: a store never holds more than `MaxSize` messages.
* `MessagesAreNeverMixedUp`: `Spec => Messages!Spec`, assuming that no more messages
  are made of a type than there are ids. The invariant says that the store of a type
  is a set of ids up to the last one given, each naming the message of that number,
  and that packets and records name no later one; then every step maps to a step of
  `MessagePassing`, most to a `Lose` or a `Settle` of what the recycled message was in.
* `NewestStay`: `Spec => []NewestAreKept`, under the same assumption, by `LatestAreKept`: the
  store of every type but the acknowledgements, which are deleted as they are read,
  holds the last `MaxSize` ids and no others. In the second cycle this is false
  (`InsertSucceeds`, above): the smallest id is then the newest message.
* `NothingFailsBefore` needs no assumption: until the ids of a type have been used
  once no insertion fails.

### Aging

`OspfAgingProofs`, for every network of routers and every refresh and removal time:

* `TypeCorrect`: `Spec => []TypeOK`. A handler takes a copy off a retransmission list
  only when there is one.
* `CopiesAreAged`: `Spec => []HeldAreAged`, and `OwnCopyIsAged`: the timer of the
  originator's own copy never stops. The invariant `Timed` adds two facts.
  `KeptAreUnacked`: what the retransmission manager keeps is on the neighbour's
  retransmission list, so nothing is sent again when all is acknowledged.
  `OriginatorAtRest`: when a timer is about to expire on an own copy at `MaxAge`,
  nothing is on its way and all is acknowledged. So `ageLSA` removes that copy, or
  refreshes it, and never stops its timer while keeping it.
* `RefreshReachesAll`: `Spec => []UnchangedIsRefreshed`, assuming `Connected`, `TimesApart`
  and that the LSA begins with sequence number 0, the one a refresh gives it. In
  `Calm` rounds nothing is sent and every copy is as old as the originator's, up to
  the delays of a flood (`Spread`). The age that expires is a whole number of
  seconds, so it meets `RefreshTime`, and the round is `Refreshing`: the new copies are young, their
  timers have been set again, the rest are about `RefreshTime` old, and every
  neighbour not yet reached has an update on its way. When the last one is
  acknowledged, `Connected` says that all have been reached, and all is calm again.
* `CopiesAgree`: `Spec => []AgreeWhenQuiet`, assuming `Connected` and `TimesFarApart`, for
  every number the LSA begins with and every order of changes. The difficulty is
  that "newer" is no order: it compares sequence numbers, and ages with a tolerance
  where these are equal, a refresh starts the numbers again, and a change then
  reuses numbers that others still hold. What saves it is a place in an order for
  each instance, by its number and, in a round with a refresh, by whether it has
  been made since (`Order`): with times far apart, `Lookup` goes along that order
  wherever it can meet both (`LookupOrder`). A round in which the originator has made no
  instance is `AtRest`: nothing is sent, and all copies are the same. In the others
  (`Busy`) the place a router has reached (`Level`) only rises, what is on its way is
  no further than its sender, and where a router is ahead of its neighbour there is
  an update on its way that says so, or the neighbour is the originator, behind by
  its own refresh, and will be answered when what it has sent arrives (`Reaches`).
  When all is quiet, no router is ahead of a neighbour, so all are level.

`Connected` says that links lead from the originator to everyone. `TimesApart` and
`TimesFarApart` say that a flood takes less than a second, which is what makes the
rounds of the model seconds, and that `MaxAgeDiff`, `RefreshTime` and `MaxAge` are some
seconds apart; `TimesApart` also that `RefreshTime` is a whole number of seconds. 900,
1800 and 3600 are, and so are the times of `aging`. TLC finds a counterexample
where the network is not connected, where `RefreshTime` is no whole number of seconds
(an age that steps over it is never refreshed) or below `MaxAgeDiff` (a refreshed
copy does not count as newer), and where a delay exceeds `MaxAgeDiff`. How many
seconds apart is what the proofs ask; `aging` passes with a `MaxAgeDiff` of a quarter of a
second too. TLC has checked both invariants on the network of `aging`.

### Routes

`OspfRoutesProofs`, for every database, every number of topologies and every order
in which equally short paths are popped:

* `TypeCorrect`, `CostsAreFinal`, `LinksAreFollowed`, `PathsExist`. `CostsAreFinal`
  rests on `InOrder`: every tentative path costs at least as much as the router
  expanded last, and no router in the table more than that. `LinksAreFollowed` and
  `PathsExist` follow a path from one table to the other.
* `ShortestRoutes`: `PositiveMetrics /\ Spec => []RoutesAreShortest`, that what is left in the routing
  table are the distances and all first hops of shortest paths. The computation
  leaves a table that is `Settled`: no link leads to a shorter path than the one in the
  table, or to one as short whose first hops are not in it (`HopsFollowed`), and every
  first hop in the table comes over a real last link (`RealPaths`). That a settled
  table is the distances (`SettledIsShortest`) takes an induction over costs and one
  over numbers of links. The library's induction theorems take an operator as a
  parameter; these two argue instead by the smallest element of the set of
  counterexamples (`SmallestOf`).
* `AbortsOnlyAtLimit`: `PositiveMetrics /\ Spec => []AbortsAtLimit`.

`PositiveMetrics` says that a link that is up costs more than nothing. It is needed: with
cost 0, which the code allows, the computation need not end (`ComputationEnds`,
above), and the neighbour at the other end of a link that costs nothing either way
is a first hop by `FirstHops` though its own path leads back.

### The link state protocol

`LsRoutingProofs`, for every network, every message storage and every order of
events, losses and repetitions included, with one lemma per handler:

* `TypeCorrect`: `Spec => []TypeOK`: packets, and what is unacknowledged, only ever name
  messages that have been made.
* `TimersAreCovered`: `Spec => []TimersCoverUnacked`.
* `RoutesFollowDatabase`: every handler that changes a database leaves the routes
  computed from it (`RoutesAreCurrent`).
* `NewsStaysPending`: `Spec => [](NoMapsMade => NewsIsPending)`, and `DatabasesAgree`:
  `Spec => [](NoMapsMade => AgreeWhenQuiet)`. `NoMapsMade` says that no topology map
  has been made, which `linkStateChanged` does exactly when a link comes up. Without
  it both are false: with a recovered link and an update TLC finds news that is not
  pending and quiet routers that differ, since a regenerated advertisement has no
  contents (`SeenIsKnown`, above); the run `ls_failures` checks both with a recovered
  link whose maps bring nothing newer.
  The invariant is `Flooding`. Records are what their originators made, and no one has a
  newer one than the originator (`RecordsAreMade`, `NumberedById`); what a packet or
  an unacknowledged advertisement says, its sender knows (`PacketsAreKnown`,
  `UnackedAreKnown`); and what the sender knows and the peer does not is
  unacknowledged, in its newest form (`NewsIsUnacked`). An acknowledgement removes
  only what the peer has, for the same reason. Every handler that sends does so
  through `SendRecorded`, and one lemma (`SendingFloods`) serves them all.
  When all is quiet, peers have the same records (`PeersAgree`), so the routers
  with the record of one router are a set that links do not lead out of, and
  `Reached` lies within it.

### The route object

`RouteObjectProofs`, for every set of links, every cost and preference:

* `TypeCorrect`, `BestRouteInstalled` and, for a protocol that computes at once and
  without multipath routing, `NoDownLinks`. `Installed` says that the classifier holds
  what the record says, without multipath routing nothing else, that the record is
  the best offer, and that there is none only if nothing is offered; the lemma
  `ComputedInstalls` shows that one computation restores it from any new offer, and
  the handlers are chains of computations.
* `MultipathOnlyForSeveral`: `Spec => MultipathForSeveral`, for finitely many links, so that they can
  be counted. `routes_` may fall below zero, since `delete-routes` counts down for
  links that were never counted; the invariant `Counted` is that it is at most one until
  a multipath classifier is in place, and that is what `add-routes` looks at.

### Model-checked only

Liveness under fairness (`BringUpConverges`, `FloodingSettles`, `FloodsEnd`,
`ComputationEnds`, `UpdatesEnd`), which TLAPS does not reach.

## Not modelled, and the plan

In order:

1. Losses under fairness: from which losses bring-up recovers. The first
   description packet is not retransmitted, so not from all.
2. The distance vector protocol (`Agent/rtProto/DV`) of `route-proto.tcl`.

Left out: multi-topology routes in the node (`compute-routes-mt`,
`add-routes-mt`), multicast routing, the formatting of routes for Tcl (`lookup`),
the rest of the simulator and the packages it is distributed with, example
scripts, tracing and drawing.
