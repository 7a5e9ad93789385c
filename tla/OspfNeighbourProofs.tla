------------------------ MODULE OspfNeighbourProofs ------------------------
(***************************************************************************)
(* Theorems about what a router keeps of a neighbour in OspfAdjacency, for *)
(* any finite set of routers and links and any bounds: who leads the       *)
(* database exchange, that a router in LOADING awaits an answer, that the  *)
(* records of a neighbour agree, that the timers of the retransmission     *)
(* manager match what is unanswered, that an update flooded but not        *)
(* acknowledged is kept, and, while no neighbour is declared dead, that a  *)
(* stale description packet moves nobody forward.                          *)
(***************************************************************************)
EXTENDS OspfAdjacencyProofs

USE DEF DOWN, ATTEMPT, INIT, TWO_WAY, EX_START, EXCHANGE, LOADING, FULL

-----------------------------------------------------------------------------
(* The roles of the database exchange.                                     *)

(* A neighbour is in the exchange after a step either because it was, in   *)
(* the same role, or because its role was settled by comparing the ids.    *)
RolesKept ==
  \A p \in Pair :
    state'[p] >= EXCHANGE =>
      \/ state[p] >= EXCHANGE /\ ms'[p] = ms[p]
      \/ ms'[p] = 1 <=> p[1] > p[2]

LEMMA RestartKeepsRoles ==
  ASSUME TypeOK, NEW r, NEW n, <<r, n>> \in Pair, NEW q, Restart(r, n, q)
  PROVE  RolesKept
<1>1. state \in [Pair -> DOWN..FULL] /\ ms \in [Pair -> {0, 1}]
  BY DEF TypeOK
<1> QED BY <1>1 DEF Restart, RolesKept

LEMMA ReceiveKeepsRoles ==
  ASSUME TypeOK, NEW r, NEW n, <<r, n>> \in Pair, Receive(r, n)
  PROVE  RolesKept
<1>1. /\ state \in [Pair -> DOWN..FULL] /\ ms \in [Pair -> {0, 1}]
      /\ r \in Nat /\ n \in Nat /\ r # n
  BY PairType DEF TypeOK
<1>2. CASE UNCHANGED <<state, ms>>
  BY <1>1, <1>2 DEF RolesKept
<1>3. CASE ReceiveHelloTwoWay(r, n)
  BY <1>1, <1>3 DEF ReceiveHelloTwoWay, RolesKept
<1>4. CASE ReceiveHelloOneWay(r, n)
  BY <1>1, <1>4 DEF ReceiveHelloOneWay, RolesKept
<1>5. CASE NegotiateAsSlave(r, n)
  <2>1. /\ state' = [state EXCEPT ![<<r, n>>] = EXCHANGE]
        /\ ms' = [ms EXCEPT ![<<r, n>>] = 0] /\ n > r
    BY <1>5 DEF NegotiateAsSlave, NegDone, IsSlave
  <2> QED BY <1>1, <2>1 DEF RolesKept
<1>6. CASE NegotiateAsMaster(r, n)
  <2>1. /\ state' = [state EXCEPT ![<<r, n>>] = EXCHANGE]
        /\ ms' = [ms EXCEPT ![<<r, n>>] = 1] /\ n < r
    BY <1>6 DEF NegotiateAsMaster, NegDone, IsMaster
  <2> QED BY <1>1, <2>1 DEF RolesKept
<1>7. CASE RolesUndecided(r, n)
  BY <1>1, <1>7 DEF RolesUndecided, RolesKept
<1>8. CASE DDOutOfTurn(r, n)
  BY <1>2, <1>8, RestartKeepsRoles DEF DDOutOfTurn
<1>9. CASE DDProcessed(r, n)
  BY <1>1, <1>9, SMTT(30) DEF DDProcessed, InStep, RolesKept
<1>10. CASE ReceiveRequest(r, n)
  BY <1>2, <1>10, RestartKeepsRoles DEF ReceiveRequest
<1>11. CASE \/ DDIgnored(r, n) \/ ReceiveUpdate(r, n) \/ Dropped(r, n)
            \/ ReceiveAck(r, n)
  BY <1>2, <1>11 DEF DDIgnored, ReceiveUpdate, Dropped, ReceiveAck, nbrVars
<1> QED BY <1>3, <1>4, <1>5, <1>6, <1>7, <1>8, <1>9, <1>10, <1>11 DEF Receive

LEMMA WorkThroughKeepsRoles ==
  ASSUME TypeOK, NEW r, NEW n, <<r, n>> \in Pair, WorkThrough(r, n)
  PROVE  RolesKept
<1>1. state \in [Pair -> DOWN..FULL] /\ ms \in [Pair -> {0, 1}]
  BY DEF TypeOK
<1>2. CASE FinishUpdate(r, n)
  BY <1>1, <1>2 DEF FinishUpdate, RolesKept
<1>3. ASSUME NEW a \in Router, UnexpectedLSA(r, n, a) PROVE RolesKept
  BY <1>3, RestartKeepsRoles DEF UnexpectedLSA
<1>4. ASSUME NEW a \in Router,
             InstallLSA(r, n, a) \/ EqualLSA(r, n, a) \/ OlderLSA(r, n, a)
      PROVE  RolesKept
  BY <1>1, <1>4 DEF InstallLSA, EqualLSA, OlderLSA, RolesKept
<1> QED BY <1>2, <1>3, <1>4 DEF WorkThrough

LEMMA RolesNext == TypeOK /\ [Next]_vars => RolesKept
<1> SUFFICES ASSUME TypeOK, [Next]_vars PROVE RolesKept
  OBVIOUS
<1>1. state \in [Pair -> DOWN..FULL] /\ ms \in [Pair -> {0, 1}]
  BY DEF TypeOK
<1>2. CASE UNCHANGED <<state, ms>>
  BY <1>1, <1>2 DEF RolesKept
<1>3. ASSUME NEW r, NEW n, <<r, n>> \in Pair, Timer(r, n) PROVE RolesKept
  <2>1. CASE InactivityExpires(r, n)
    BY <1>1, <2>1 DEF InactivityExpires, RolesKept
  <2> QED BY <1>2, <1>3, <2>1 DEF Timer, AckTimerExpires, UpdTimerExpires,
             ResendMessages, nbrVars
<1>4. ASSUME NEW r \in Router, SendHellos(r) PROVE RolesKept
  BY <1>1, <1>4 DEF SendHellos, RolesKept
<1>5. CASE UNCHANGED vars
  BY <1>2, <1>5 DEF vars, nbrVars
<1>6. CASE Next
  <2>1. ASSUME NEW p \in Pair, \/ Receive(p[1], p[2]) \/ WorkThrough(p[1], p[2])
                               \/ Timer(p[1], p[2])
        PROVE  RolesKept
    BY <1>3, <2>1, PairIsTuple, ReceiveKeepsRoles, WorkThroughKeepsRoles
  <2>2. ASSUME NEW p \in Pair, Lose(p) PROVE RolesKept
    BY <1>2, <2>2 DEF Lose, nbrVars
  <2>3. ASSUME NEW r \in Router, CostChanged(r) \/ AgingAborts(r) PROVE RolesKept
    BY <1>2, <2>3 DEF CostChanged, AgingAborts, nbrVars
  <2> QED BY <1>4, <1>6, <2>1, <2>2, <2>3 DEF Next
<1> QED BY <1>5, <1>6

(* Two routers in the database exchange agree on who leads it, for any     *)
(* network, any losses, repetitions and restarts: isSlave and isMaster     *)
(* decide by the ids, and no other handler changes the role of a router    *)
(* that stays in the exchange.                                             *)
THEOREM RolesAgree == Spec => []HigherIdIsMaster
<1>1. Init => HigherIdIsMaster
  BY DEF Init, HigherIdIsMaster
<1>2. HigherIdIsMaster /\ TypeOK /\ [Next]_vars => HigherIdIsMaster'
  <2> SUFFICES ASSUME HigherIdIsMaster, TypeOK, [Next]_vars
               PROVE  HigherIdIsMaster'
    OBVIOUS
  <2>1. RolesKept
    BY RolesNext
  <2> QED BY <2>1 DEF RolesKept, HigherIdIsMaster
<1> QED BY <1>1, <1>2, TypeCorrect, PTL DEF Spec

-----------------------------------------------------------------------------
(* A router in LOADING awaits an answer, and one in FULL has had them all. *)

LEMMA RestartAwaits ==
  ASSUME TypeOK, LoadingAwaitsAnswer, NEW r, NEW n, <<r, n>> \in Pair, NEW q,
         Restart(r, n, q)
  PROVE  LoadingAwaitsAnswer'
<1>1. /\ state \in [Pair -> DOWN..FULL] /\ req \in [Pair -> SUBSET Router]
      /\ requests \in [Pair -> SUBSET Router]
  BY DEF TypeOK
<1> QED BY <1>1 DEF Restart, CancelUnacked, DelAllLists, LoadingAwaitsAnswer

LEMMA ReceiveAwaits ==
  ASSUME TypeOK, LoadingAwaitsAnswer, NEW r, NEW n, <<r, n>> \in Pair,
         Receive(r, n)
  PROVE  LoadingAwaitsAnswer'
<1>1. /\ state \in [Pair -> DOWN..FULL] /\ req \in [Pair -> SUBSET Router]
      /\ requests \in [Pair -> SUBSET Router]
  BY DEF TypeOK
<1>2. CASE UNCHANGED <<state, req, requests>>
  BY <1>1, <1>2 DEF LoadingAwaitsAnswer
<1>3. CASE ReceiveHelloTwoWay(r, n)
  BY <1>1, <1>3 DEF ReceiveHelloTwoWay, HeardFrom, LoadingAwaitsAnswer
<1>4. CASE ReceiveHelloOneWay(r, n)
  BY <1>1, <1>4 DEF ReceiveHelloOneWay, HeardFrom, DelAllLists, LoadingAwaitsAnswer
<1>5. CASE NegotiateAsSlave(r, n) \/ NegotiateAsMaster(r, n)
  <2>1. /\ state' = [state EXCEPT ![<<r, n>>] = EXCHANGE]
        /\ UNCHANGED <<req, requests>>
    BY <1>5 DEF NegotiateAsSlave, NegotiateAsMaster, NegDone, Negotiating
  <2> QED BY <1>1, <2>1 DEF LoadingAwaitsAnswer
<1>6. CASE RolesUndecided(r, n)
  BY <1>1, <1>6 DEF RolesUndecided, Negotiating, LoadingAwaitsAnswer
<1>7. CASE DDOutOfTurn(r, n)
  BY <1>2, <1>7, RestartAwaits DEF DDOutOfTurn
<1>8. CASE DDProcessed(r, n)
  <2> DEFINE wanted == Wanted(r, n, Head(chan[<<n, r>>]))
  <2>1. /\ requests' = [requests EXCEPT ![<<r, n>>] = wanted]
        /\ state' = [state EXCEPT ![<<r, n>>] =
                       IF wanted = {} THEN FULL ELSE LOADING]
        /\ req' = [req EXCEPT ![<<r, n>>] = IF wanted = {} THEN @ ELSE wanted]
    BY <1>8 DEF DDProcessed
  <2> HIDE DEF wanted
  <2> QED BY <1>1, <2>1 DEF LoadingAwaitsAnswer
<1>9. CASE ReceiveRequest(r, n)
  BY <1>2, <1>9, RestartAwaits DEF ReceiveRequest
<1>10. CASE \/ DDIgnored(r, n) \/ ReceiveUpdate(r, n) \/ Dropped(r, n)
            \/ ReceiveAck(r, n)
  BY <1>2, <1>10 DEF DDIgnored, ReceiveUpdate, Dropped, ReceiveAck, nbrVars, ackVars
<1> QED BY <1>3, <1>4, <1>5, <1>6, <1>7, <1>8, <1>9, <1>10 DEF Receive

LEMMA WorkThroughAwaits ==
  ASSUME TypeOK, LoadingAwaitsAnswer, NEW r, NEW n, <<r, n>> \in Pair,
         WorkThrough(r, n)
  PROVE  LoadingAwaitsAnswer'
<1>1. /\ state \in [Pair -> DOWN..FULL] /\ req \in [Pair -> SUBSET Router]
      /\ requests \in [Pair -> SUBSET Router]
  BY DEF TypeOK
<1>2. CASE FinishUpdate(r, n)
  BY <1>1, <1>2 DEF FinishUpdate, LoadingDone, LoadingAwaitsAnswer
<1>3. ASSUME NEW a \in Router, UnexpectedLSA(r, n, a) PROVE LoadingAwaitsAnswer'
  BY <1>3, RestartAwaits DEF UnexpectedLSA
<1>4. ASSUME NEW a \in Router, InstallLSA(r, n, a) PROVE LoadingAwaitsAnswer'
  <2>1. /\ UNCHANGED <<state, req>>
        /\ \A p \in Pair : requests'[p] \subseteq requests[p]
    BY <1>4 DEF InstallLSA
  <2> QED BY <2>1 DEF LoadingAwaitsAnswer
<1>5. ASSUME NEW a \in Router, EqualLSA(r, n, a) \/ OlderLSA(r, n, a)
      PROVE  LoadingAwaitsAnswer'
  BY <1>5 DEF EqualLSA, OlderLSA, LoadingAwaitsAnswer
<1> QED BY <1>2, <1>3, <1>4, <1>5 DEF WorkThrough

LEMMA AwaitsNext ==
  TypeOK /\ LoadingAwaitsAnswer /\ [Next]_vars => LoadingAwaitsAnswer'
<1> SUFFICES ASSUME TypeOK, LoadingAwaitsAnswer, [Next]_vars
             PROVE  LoadingAwaitsAnswer'
  OBVIOUS
<1>1. /\ state \in [Pair -> DOWN..FULL] /\ req \in [Pair -> SUBSET Router]
      /\ requests \in [Pair -> SUBSET Router]
  BY DEF TypeOK
<1>2. CASE UNCHANGED <<state, req, requests>>
  BY <1>1, <1>2 DEF LoadingAwaitsAnswer
<1>3. ASSUME NEW r, NEW n, <<r, n>> \in Pair, Timer(r, n)
      PROVE  LoadingAwaitsAnswer'
  <2>1. CASE InactivityExpires(r, n)
    BY <1>1, <2>1
       DEF InactivityExpires, CancelUnacked, DelAllLists, LoadingAwaitsAnswer
  <2> QED BY <1>2, <1>3, <2>1 DEF Timer, AckTimerExpires, UpdTimerExpires,
             ResendMessages, nbrVars
<1>4. ASSUME NEW r \in Router, SendHellos(r) PROVE LoadingAwaitsAnswer'
  BY <1>1, <1>4 DEF SendHellos, ackVars, LoadingAwaitsAnswer
<1>5. CASE UNCHANGED vars
  BY <1>2, <1>5 DEF vars, nbrVars, ackVars
<1>6. CASE Next
  <2>1. ASSUME NEW p \in Pair, \/ Receive(p[1], p[2]) \/ WorkThrough(p[1], p[2])
                               \/ Timer(p[1], p[2])
        PROVE  LoadingAwaitsAnswer'
    BY <1>3, <2>1, PairIsTuple, ReceiveAwaits, WorkThroughAwaits
  <2>2. ASSUME NEW p \in Pair, Lose(p) PROVE LoadingAwaitsAnswer'
    BY <1>2, <2>2 DEF Lose, nbrVars, ackVars
  <2>3. ASSUME NEW r \in Router, CostChanged(r) \/ AgingAborts(r)
        PROVE  LoadingAwaitsAnswer'
    BY <1>2, <2>3 DEF CostChanged, AgingAborts, nbrVars, ackVars
  <2> QED BY <1>4, <1>6, <2>1, <2>2, <2>3 DEF Next
<1> QED BY <1>5, <1>6

(* A router never waits in LOADING with nothing outstanding, and is never  *)
(* FULL with requests open: receiveUpdate forgets the request only when it *)
(* ends LOADING, which it does on the neighbour state it read before its   *)
(* loop.                                                                   *)
THEOREM LoadingIsAnswered == Spec => []LoadingAwaitsAnswer
<1>1. Init => LoadingAwaitsAnswer
  BY DEF Init, LoadingAwaitsAnswer
<1> QED BY <1>1, AwaitsNext, TypeCorrect, PTL DEF Spec

-----------------------------------------------------------------------------
(* The records of a neighbour being heard.                                 *)

(* The neighbour whose update is in hand is in the exchange: the loop of   *)
(* receiveUpdate stops at the one LSA that makes it leave.                 *)
InHandInExchange == \A p \in Pair : rx.at = p => state[p] >= EXCHANGE

LEMMA NothingInHand ==
  /\ rx = Resting => InHandInExchange
  /\ rx' = Resting => InHandInExchange'
BY NoEmptyPair DEF Resting, InHandInExchange

LEMMA WorkThroughInHand ==
  ASSUME TypeOK, InHandInExchange, NEW r, NEW n, <<r, n>> \in Pair,
         WorkThrough(r, n)
  PROVE  InHandInExchange'
<1>1. rx \in [at : Pair \cup {<<>>}, entry : DOWN..FULL, lsas : Database]
  BY DEF TypeOK
<1>2. ASSUME NEW a \in Router,
             InstallLSA(r, n, a) \/ EqualLSA(r, n, a) \/ OlderLSA(r, n, a)
      PROVE  InHandInExchange'
  <2>1. rx' = [rx EXCEPT !.lsas = [rx.lsas EXCEPT ![a] = None]] /\ state' = state
    BY <1>2 DEF InstallLSA, EqualLSA, OlderLSA, TakesUp
  <2>2. rx'.at = rx.at
    BY <1>1, <2>1
  <2> QED BY <2>1, <2>2 DEF InHandInExchange
<1>3. CASE FinishUpdate(r, n) \/ \E a \in Router : UnexpectedLSA(r, n, a)
  BY <1>3, NothingInHand DEF FinishUpdate, UnexpectedLSA
<1> QED BY <1>2, <1>3 DEF WorkThrough

LEMMA InHandNext ==
  TypeOK /\ InHandInExchange /\ [Next]_vars => InHandInExchange'
<1> SUFFICES ASSUME TypeOK, InHandInExchange, [Next]_vars PROVE InHandInExchange'
  OBVIOUS
<1>1. CASE rx = Resting /\ rx' = rx
  BY <1>1, NothingInHand
<1>2. CASE UNCHANGED <<state, rx>>
  BY <1>2 DEF InHandInExchange
<1>3. ASSUME NEW r, NEW n, <<r, n>> \in Pair, Receive(r, n)
      PROVE  InHandInExchange'
  <2>1. CASE ReceiveUpdate(r, n)
    BY <2>1 DEF ReceiveUpdate, nbrVars, InHandInExchange
  <2>2. CASE ReceiveHelloTwoWay(r, n) \/ ReceiveHelloOneWay(r, n)
    BY <1>1, <2>2
       DEF ReceiveHelloTwoWay, ReceiveHelloOneWay, HeardFrom, Arrived, AtRest
  <2>3. CASE \/ DDIgnored(r, n) \/ DDOutOfTurn(r, n) \/ DDProcessed(r, n)
             \/ NegotiateAsSlave(r, n) \/ NegotiateAsMaster(r, n)
             \/ RolesUndecided(r, n)
    BY <1>1, <2>3 DEF DDIgnored, DDOutOfTurn, DDProcessed, NegotiateAsSlave,
       NegotiateAsMaster, RolesUndecided, Negotiating, AcceptDD, Arrived, AtRest
  <2>4. CASE ReceiveRequest(r, n) \/ Dropped(r, n) \/ ReceiveAck(r, n)
    BY <1>1, <2>4 DEF ReceiveRequest, Dropped, ReceiveAck, Arrived, AtRest
  <2> QED BY <1>3, <2>1, <2>2, <2>3, <2>4 DEF Receive
<1>4. ASSUME NEW r, NEW n, Timer(r, n) PROVE InHandInExchange'
  BY <1>1, <1>4 DEF Timer, AckTimerExpires, UpdTimerExpires, InactivityExpires,
     ResendMessages, AtRest
<1>5. CASE UNCHANGED vars
  BY <1>2, <1>5 DEF vars, nbrVars
<1>6. CASE Next
  <2>1. ASSUME NEW p \in Pair, \/ Receive(p[1], p[2]) \/ WorkThrough(p[1], p[2])
                               \/ Timer(p[1], p[2])
        PROVE  InHandInExchange'
    BY <1>3, <1>4, <2>1, PairIsTuple, WorkThroughInHand
  <2>2. ASSUME NEW p \in Pair, Lose(p) PROVE InHandInExchange'
    BY <1>1, <2>2 DEF Lose, AtRest
  <2>3. ASSUME NEW r \in Router, SendHellos(r) \/ CostChanged(r) \/ AgingAborts(r)
        PROVE  InHandInExchange'
    BY <1>1, <2>3 DEF SendHellos, CostChanged, AgingAborts, AtRest
  <2> QED BY <1>6, <2>1, <2>2, <2>3 DEF Next
<1> QED BY <1>5, <1>6

(* The types HeardNeighbours depends on.                                   *)
HeardTypes ==
  /\ state \in [Pair -> DOWN..FULL] /\ deadTimer \in [Pair -> BOOLEAN]
  /\ nbrList \in [Router -> SUBSET Router]
  /\ adjList \in [Router -> SUBSET Router]
  /\ upLinks \in [Router -> SUBSET Router]

(* A step that leaves the lists and the inactivity timers alone is safe if *)
(* it moves no neighbour across INIT and makes adjacent only one heard.    *)
NoneMoves == \A p \in Pair : state'[p] >= INIT <=> state[p] >= INIT
OnlyJoins(r, n) ==
  \A p \in Pair : p[2] \in adjList'[p[1]] => p[2] \in adjList[p[1]] \/ p = <<r, n>>

LEMMA HeardUnlessMoved ==
  ASSUME HeardNeighbours, NEW r, NEW n, <<r, n>> \in Pair,
         UNCHANGED <<deadTimer, nbrList, upLinks>>, state[<<r, n>>] >= INIT,
         NoneMoves, OnlyJoins(r, n)
  PROVE  HeardNeighbours'
BY DEF HeardNeighbours, NoneMoves, OnlyJoins

LEMMA JoinsByItself ==
  ASSUME HeardTypes, NEW r, NEW n, <<r, n>> \in Pair,
         \/ adjList' = adjList
         \/ adjList' = [adjList EXCEPT ![r] = @ \cup {n}]
         \/ adjList' = [adjList EXCEPT ![r] = @ \ {n}]
  PROVE  OnlyJoins(r, n)
<1> SUFFICES ASSUME NEW p \in Pair, p[2] \in adjList'[p[1]],
                    p[2] \notin adjList[p[1]]
             PROVE  p = <<r, n>>
  BY DEF OnlyJoins
<1>1. p = <<p[1], p[2]>> /\ p[1] \in Router /\ p[2] \in Router
  BY PairIsTuple
<1>2. p[1] = r /\ p[2] = n
  BY <1>1 DEF HeardTypes
<1> QED BY <1>1, <1>2

LEMMA HelloIsHeard ==
  ASSUME HeardNeighbours, HeardTypes, NEW r, NEW n, <<r, n>> \in Pair,
         ReceiveHelloTwoWay(r, n) \/ ReceiveHelloOneWay(r, n)
  PROVE  HeardNeighbours'
<1> SUFFICES ASSUME NEW p \in Pair
             PROVE  /\ deadTimer'[p] <=> state'[p] >= INIT
                    /\ deadTimer'[p] <=> p[2] \in nbrList'[p[1]]
                    /\ p[2] \in adjList'[p[1]] => deadTimer'[p]
                    /\ p[2] \notin upLinks'[p[1]] => ~deadTimer'[p]
  BY DEF HeardNeighbours
<1>1. /\ deadTimer' = [deadTimer EXCEPT ![<<r, n>>] = TRUE]
      /\ nbrList' = [nbrList EXCEPT ![r] = @ \cup {n}]
      /\ upLinks' = [upLinks EXCEPT ![r] = @ \cup {n}]
  BY DEF ReceiveHelloTwoWay, ReceiveHelloOneWay, HeardFrom, Rescheduled
<1>2. \/ adjList' = adjList
      \/ adjList' = [adjList EXCEPT ![r] = @ \cup {n}]
      \/ adjList' = [adjList EXCEPT ![r] = @ \ {n}]
  BY DEF ReceiveHelloTwoWay, ReceiveHelloOneWay
<1>3. /\ state'[<<r, n>>] >= INIT
      /\ \A q \in Pair : q # <<r, n>> => state'[q] = state[q]
  <2>1. CASE ReceiveHelloTwoWay(r, n) /\ state[<<r, n>>] <= INIT
    BY <2>1 DEF ReceiveHelloTwoWay, HeardTypes
  <2>2. CASE ReceiveHelloTwoWay(r, n) /\ ~(state[<<r, n>>] <= INIT)
    BY <2>2 DEF ReceiveHelloTwoWay, HeardTypes
  <2>3. CASE ReceiveHelloOneWay(r, n)
    BY <2>3 DEF ReceiveHelloOneWay, HeardTypes
  <2> QED BY <2>1, <2>2, <2>3
<1>4. /\ r \in Router /\ n \in Router /\ p = <<p[1], p[2]>>
      /\ p[1] \in Router /\ p[2] \in Router
  BY PairIsTuple, PairType
<1>5. /\ deadTimer[p] <=> state[p] >= INIT
      /\ deadTimer[p] <=> p[2] \in nbrList[p[1]]
      /\ p[2] \in adjList[p[1]] => deadTimer[p]
      /\ p[2] \notin upLinks[p[1]] => ~deadTimer[p]
  BY DEF HeardNeighbours
<1>6. CASE p = <<r, n>>
  BY <1>1, <1>2, <1>3, <1>4, <1>6 DEF HeardTypes
<1>7. CASE p # <<r, n>>
  <2>1. deadTimer'[p] = deadTimer[p] /\ state'[p] = state[p]
    BY <1>1, <1>3, <1>7 DEF HeardTypes
  <2>2. p[1] # r \/ p[2] # n
    BY <1>4, <1>7
  <2>3. /\ p[2] \in nbrList'[p[1]] <=> p[2] \in nbrList[p[1]]
        /\ p[2] \in upLinks'[p[1]] <=> p[2] \in upLinks[p[1]]
        /\ p[2] \in adjList'[p[1]] => p[2] \in adjList[p[1]]
    BY <1>1, <1>2, <1>4, <2>2 DEF HeardTypes
  <2> QED BY <1>5, <2>1, <2>3
<1> QED BY <1>6, <1>7

LEMMA SilenceIsUnheard ==
  ASSUME HeardNeighbours, HeardTypes, NEW r, NEW n, <<r, n>> \in Pair,
         InactivityExpires(r, n)
  PROVE  HeardNeighbours'
<1> SUFFICES ASSUME NEW p \in Pair
             PROVE  /\ deadTimer'[p] <=> state'[p] >= INIT
                    /\ deadTimer'[p] <=> p[2] \in nbrList'[p[1]]
                    /\ p[2] \in adjList'[p[1]] => deadTimer'[p]
                    /\ p[2] \notin upLinks'[p[1]] => ~deadTimer'[p]
  BY DEF HeardNeighbours
<1>1. /\ deadTimer' = [deadTimer EXCEPT ![<<r, n>>] = FALSE]
      /\ state' = [state EXCEPT ![<<r, n>>] = DOWN]
      /\ nbrList' = [nbrList EXCEPT ![r] = @ \ {n}]
      /\ adjList' = [adjList EXCEPT ![r] = @ \ {n}]
      /\ upLinks' = [upLinks EXCEPT ![r] = @ \ {n}]
  BY DEF InactivityExpires
<1>2. /\ r \in Router /\ n \in Router /\ p = <<p[1], p[2]>>
      /\ p[1] \in Router /\ p[2] \in Router
  BY PairIsTuple, PairType
<1>3. /\ deadTimer[p] <=> state[p] >= INIT
      /\ deadTimer[p] <=> p[2] \in nbrList[p[1]]
      /\ p[2] \in adjList[p[1]] => deadTimer[p]
      /\ p[2] \notin upLinks[p[1]] => ~deadTimer[p]
  BY DEF HeardNeighbours
<1>4. CASE p = <<r, n>>
  BY <1>1, <1>2, <1>4 DEF HeardTypes
<1>5. CASE p # <<r, n>>
  <2>1. deadTimer'[p] = deadTimer[p] /\ state'[p] = state[p]
    BY <1>1, <1>5 DEF HeardTypes
  <2>2. p[1] # r \/ p[2] # n
    BY <1>2, <1>5
  <2>3. /\ p[2] \in nbrList'[p[1]] <=> p[2] \in nbrList[p[1]]
        /\ p[2] \in upLinks'[p[1]] <=> p[2] \in upLinks[p[1]]
        /\ p[2] \in adjList'[p[1]] <=> p[2] \in adjList[p[1]]
    BY <1>1, <1>2, <2>2 DEF HeardTypes
  <2> QED BY <1>3, <2>1, <2>3
<1> QED BY <1>4, <1>5

LEMMA RestartHeard ==
  ASSUME HeardNeighbours, HeardTypes, NEW r, NEW n, <<r, n>> \in Pair, NEW q,
         Restart(r, n, q), state[<<r, n>>] >= INIT,
         UNCHANGED <<deadTimer, nbrList, upLinks>>
  PROVE  HeardNeighbours'
<1>1. NoneMoves
  BY DEF Restart, HeardTypes, NoneMoves
<1>2. OnlyJoins(r, n)
  BY JoinsByItself DEF Restart
<1> QED BY <1>1, <1>2, HeardUnlessMoved

LEMMA ReceiveHeard ==
  ASSUME HeardNeighbours, HeardTypes, NEW r, NEW n, <<r, n>> \in Pair,
         Receive(r, n)
  PROVE  HeardNeighbours'
<1>1. CASE UNCHANGED <<state, ownVars>>
  BY <1>1 DEF ownVars, HeardNeighbours
<1>2. CASE NegotiateAsSlave(r, n) \/ NegotiateAsMaster(r, n) \/ RolesUndecided(r, n)
  <2>1. Negotiating(r, n)
    BY <1>2 DEF NegotiateAsSlave, NegotiateAsMaster, RolesUndecided
  <2>2. state[<<r, n>>] >= INIT /\ UNCHANGED <<deadTimer, nbrList, upLinks>>
    BY <2>1 DEF Negotiating
  <2>3. OnlyJoins(r, n)
    BY <2>1, JoinsByItself DEF Negotiating, HeardTypes
  <2>4. \/ state' = [state EXCEPT ![<<r, n>>] = EXCHANGE]
        \/ state' = [state EXCEPT ![<<r, n>>] = EX_START]
    BY <1>2 DEF NegotiateAsSlave, NegotiateAsMaster, RolesUndecided, NegDone
  <2>5. NoneMoves
    BY <2>2, <2>4 DEF HeardTypes, NoneMoves
  <2> QED BY <2>2, <2>3, <2>5, HeardUnlessMoved
<1>3. CASE DDOutOfTurn(r, n)
  <2>1. /\ state[<<r, n>>] >= INIT /\ UNCHANGED <<deadTimer, nbrList, upLinks>>
        /\ \/ UNCHANGED <<state, adjList>>
           \/ Restart(r, n, <<n, r>>)
    BY <1>3 DEF DDOutOfTurn, HeardTypes
  <2> QED BY <2>1, RestartHeard DEF HeardNeighbours
<1>4. CASE DDProcessed(r, n)
  <2>1. /\ state[<<r, n>>] >= INIT
        /\ UNCHANGED <<deadTimer, nbrList, upLinks, adjList>>
    BY <1>4 DEF DDProcessed, InStep, ownVars
  <2>2. NoneMoves
    BY <1>4, <2>1 DEF DDProcessed, HeardTypes, NoneMoves
  <2> QED BY <2>1, <2>2, JoinsByItself, HeardUnlessMoved
<1>5. CASE ReceiveRequest(r, n)
  <2>1. /\ state[<<r, n>>] >= INIT /\ UNCHANGED <<deadTimer, nbrList, upLinks>>
        /\ \/ UNCHANGED <<state, adjList>>
           \/ Restart(r, n, <<n, r>>)
    BY <1>5 DEF ReceiveRequest, HeardTypes
  <2> QED BY <2>1, RestartHeard DEF HeardNeighbours
<1>6. CASE \/ DDIgnored(r, n) \/ ReceiveUpdate(r, n) \/ Dropped(r, n)
           \/ ReceiveAck(r, n)
  BY <1>1, <1>6 DEF DDIgnored, ReceiveUpdate, Dropped, ReceiveAck, nbrVars
<1> QED BY <1>2, <1>3, <1>4, <1>5, <1>6, HelloIsHeard DEF Receive

LEMMA WorkThroughHeard ==
  ASSUME HeardNeighbours, HeardTypes, InHandInExchange,
         NEW r, NEW n, <<r, n>> \in Pair, WorkThrough(r, n)
  PROVE  HeardNeighbours'
<1>1. state[<<r, n>>] >= EXCHANGE
  BY DEF WorkThrough, InstallLSA, UnexpectedLSA, EqualLSA, OlderLSA, FinishUpdate,
     TakesUp, NextInUpdate, InHandInExchange
<1>2. CASE FinishUpdate(r, n)
  <2>1. /\ UNCHANGED <<deadTimer, nbrList, upLinks, adjList>>
    BY <1>2 DEF FinishUpdate, ownVars
  <2>2. NoneMoves
    BY <1>2 DEF FinishUpdate, HeardTypes, NoneMoves
  <2> QED BY <1>1, <2>1, <2>2, JoinsByItself, HeardUnlessMoved DEF HeardTypes
<1>3. ASSUME NEW a \in Router, UnexpectedLSA(r, n, a) PROVE HeardNeighbours'
  BY <1>1, <1>3, RestartHeard DEF UnexpectedLSA, HeardTypes
<1>4. ASSUME NEW a \in Router,
             InstallLSA(r, n, a) \/ EqualLSA(r, n, a) \/ OlderLSA(r, n, a)
      PROVE  HeardNeighbours'
  BY <1>4 DEF InstallLSA, EqualLSA, OlderLSA, TakesUp, HeardNeighbours
<1> QED BY <1>2, <1>3, <1>4 DEF WorkThrough

LEMMA HeardNext ==
  TypeOK /\ InHandInExchange /\ HeardNeighbours /\ [Next]_vars => HeardNeighbours'
<1> SUFFICES ASSUME TypeOK, InHandInExchange, HeardNeighbours, [Next]_vars
             PROVE  HeardNeighbours'
  OBVIOUS
<1>1. HeardTypes
  BY DEF TypeOK, HeardTypes
<1>2. CASE UNCHANGED <<state, ownVars>>
  BY <1>2 DEF ownVars, HeardNeighbours
<1>3. ASSUME NEW r, NEW n, <<r, n>> \in Pair, Timer(r, n) PROVE HeardNeighbours'
  BY <1>1, <1>2, <1>3, SilenceIsUnheard
     DEF Timer, AckTimerExpires, UpdTimerExpires, ResendMessages, nbrVars
<1>4. ASSUME NEW r \in Router, SendHellos(r) PROVE HeardNeighbours'
  BY <1>1, <1>4 DEF SendHellos, ownVars, HeardNeighbours, HeardTypes
<1>5. ASSUME NEW r \in Router, CostChanged(r) PROVE HeardNeighbours'
  <2>1. /\ UNCHANGED <<state, deadTimer, nbrList, adjList>>
        /\ upLinks' = [upLinks EXCEPT ![r] = Neighbours(r)]
    BY <1>5 DEF CostChanged
  <2>2. ASSUME NEW p \in Pair, p[2] \notin upLinks'[p[1]]
        PROVE  p[2] \notin upLinks[p[1]]
    BY <1>1, <2>1, <2>2, PairIsTuple DEF HeardTypes, Neighbours
  <2> QED BY <2>1, <2>2 DEF HeardNeighbours
<1>6. CASE UNCHANGED vars
  BY <1>2, <1>6 DEF vars, nbrVars
<1>7. CASE Next
  <2>1. ASSUME NEW p \in Pair, \/ Receive(p[1], p[2]) \/ WorkThrough(p[1], p[2])
                               \/ Timer(p[1], p[2])
        PROVE  HeardNeighbours'
    BY <1>1, <1>3, <2>1, PairIsTuple, ReceiveHeard, WorkThroughHeard
  <2>2. ASSUME NEW p \in Pair, Lose(p) PROVE HeardNeighbours'
    BY <1>2, <2>2 DEF Lose, nbrVars
  <2>3. ASSUME NEW r \in Router, AgingAborts(r) PROVE HeardNeighbours'
    BY <1>2, <2>3 DEF AgingAborts, nbrVars
  <2> QED BY <1>4, <1>5, <1>7, <2>1, <2>2, <2>3 DEF Next
<1> QED BY <1>6, <1>7

(* The state of a neighbour, its inactivity timer, the list hellos carry   *)
(* and the list of adjacent neighbours are changed by different calls of   *)
(* different handlers, and never disagree about a neighbour being heard.   *)
THEOREM HeardAgree == Spec => []HeardNeighbours
<1>1. Init => HeardNeighbours
  <2> SUFFICES ASSUME Init, NEW p \in Pair
               PROVE  /\ deadTimer[p] <=> state[p] >= INIT
                      /\ deadTimer[p] <=> p[2] \in nbrList[p[1]]
                      /\ p[2] \in adjList[p[1]] => deadTimer[p]
                      /\ p[2] \notin upLinks[p[1]] => ~deadTimer[p]
    BY DEF HeardNeighbours
  <2> QED BY PairIsTuple DEF Init
<1>2. Init => InHandInExchange
  BY NothingInHand DEF Init
<1> QED BY <1>1, <1>2, HeardNext, InHandNext, TypeCorrect, PTL DEF Spec

-----------------------------------------------------------------------------
(* The timer of description packets and requests.                          *)

Covered == \A p \in Pair : ackTimer[p] <=> (dd[p] # NoDD \/ req[p] # {})

AckTypes ==
  /\ dd \in [Pair -> [seq : Nat, headers : Database]]
  /\ req \in [Pair -> SUBSET Router]
  /\ ackTimer \in [Pair -> BOOLEAN]

LEMMA RestartCovers ==
  ASSUME AckTypes, Covered, NEW r, NEW n, <<r, n>> \in Pair, NEW q,
         Restart(r, n, q)
  PROVE  Covered'
BY DEF AckTypes, Covered, Restart, CancelUnacked

(* A packet taken as an acknowledgement stops the timer only if no request *)
(* is outstanding either.                                                  *)
LEMMA AckDDCovers ==
  ASSUME AckTypes, Covered, NEW r, NEW n, <<r, n>> \in Pair, NEW m,
         AckDD(<<r, n>>, m), req' = req
  PROVE  Covered'
<1> DEFINE p == <<r, n>>
           after == DDAfter(p, m)
           cancels == CancelsAckTimer(p, m)
<1>1. /\ dd' = [dd EXCEPT ![p] = after]
      /\ ackTimer' = [ackTimer EXCEPT ![p] = ackTimer[p] /\ ~cancels]
  BY DEF AckDD
<1>2. /\ after = dd[p] \/ (TakenAsAck(p) /\ after = NoDD)
      /\ cancels <=> (TakenAsAck(p) /\ after = NoDD /\ req[p] = {})
  BY DEF DDAfter, CancelsAckTimer
<1>3. ackTimer[p] <=> (dd[p] # NoDD \/ req[p] # {})
  BY DEF Covered
<1> HIDE DEF after, cancels
<1>4. (ackTimer[p] /\ ~cancels) <=> (after # NoDD \/ req[p] # {})
  BY <1>2, <1>3
<1> QED BY <1>1, <1>4 DEF AckTypes, Covered

LEMMA DDProcessedCovers ==
  ASSUME AckTypes, Covered, NEW r, NEW n, <<r, n>> \in Pair, DDProcessed(r, n)
  PROVE  Covered'
<1> DEFINE p == <<r, n>>
           m == Head(chan[<<n, r>>])
           wanted == Wanted(r, n, m)
<1>1. CASE wanted = {}
  <2>1. AckDD(p, m) /\ req' = req
    BY <1>1 DEF DDProcessed, AckDD, AckTypes
  <2> QED BY <2>1, AckDDCovers
<1>2. CASE wanted # {}
  <2>1. /\ req' = [req EXCEPT ![p] = wanted]
        /\ ackTimer' = [ackTimer EXCEPT ![p] = TRUE]
        /\ dd' = [dd EXCEPT ![p] = DDAfter(p, m)]
    BY <1>2 DEF DDProcessed
  <2> HIDE DEF wanted
  <2> QED BY <1>2, <2>1 DEF AckTypes, Covered
<1> QED BY <1>1, <1>2

LEMMA ReceiveCovers ==
  ASSUME TypeOK, AckTypes, Covered, NEW r, NEW n, <<r, n>> \in Pair, Receive(r, n)
  PROVE  Covered'
<1>1. CASE UNCHANGED <<dd, req, ackTimer>>
  BY <1>1 DEF Covered
<1>2. CASE ReceiveHelloTwoWay(r, n) \/ ReceiveHelloOneWay(r, n)
  BY <1>1, <1>2 DEF ReceiveHelloTwoWay, ReceiveHelloOneWay, HeardFrom
<1>3. CASE DDIgnored(r, n) \/ NegotiateAsSlave(r, n) \/ RolesUndecided(r, n)
  BY <1>3, AckDDCovers
     DEF DDIgnored, NegotiateAsSlave, RolesUndecided, Negotiating
<1>4. CASE NegotiateAsMaster(r, n)
  <2> DEFINE next == IncDDseq(StartSeq(<<r, n>>))
             sent == [seq |-> next, headers |-> lsdb[r]]
  <2>1. next # 0
    BY <1>4, NegotiatingType DEF NegotiateAsMaster, IncDDseq, TypeOK
  <2>2. sent # NoDD
    <3>1. sent.seq # NoDD.seq
      BY <2>1 DEF NoDD
    <3> QED BY <3>1
  <2>3. /\ dd' = [dd EXCEPT ![<<r, n>>] = sent]
        /\ ackTimer' = [ackTimer EXCEPT ![<<r, n>>] = TRUE]
        /\ req' = req
    BY <1>4 DEF NegotiateAsMaster, Negotiating
  <2> HIDE DEF sent
  <2> QED BY <2>2, <2>3 DEF AckTypes, Covered
<1>5. CASE DDOutOfTurn(r, n)
  BY <1>5, AckDDCovers, RestartCovers DEF DDOutOfTurn
<1>6. CASE ReceiveRequest(r, n)
  BY <1>1, <1>6, RestartCovers DEF ReceiveRequest
<1>7. CASE ReceiveUpdate(r, n) \/ Dropped(r, n) \/ ReceiveAck(r, n)
  BY <1>1, <1>7 DEF ReceiveUpdate, Dropped, ReceiveAck, ackVars
<1> QED BY <1>2, <1>3, <1>4, <1>5, <1>6, <1>7, DDProcessedCovers DEF Receive

LEMMA WorkThroughCovers ==
  ASSUME AckTypes, Covered, NEW r, NEW n, <<r, n>> \in Pair, WorkThrough(r, n)
  PROVE  Covered'
<1>1. CASE FinishUpdate(r, n)
  <2>1. CASE LoadingDone(<<r, n>>)
    <3>1. /\ dd' = dd /\ req' = [req EXCEPT ![<<r, n>>] = {}]
          /\ ackTimer' = [ackTimer EXCEPT ![<<r, n>>] = @ /\ dd[<<r, n>>] # NoDD]
      BY <1>1, <2>1 DEF FinishUpdate
    <3> QED BY <3>1 DEF AckTypes, Covered
  <2>2. CASE ~LoadingDone(<<r, n>>)
    <3>1. dd' = dd /\ req' = req /\ ackTimer' = ackTimer
      BY <1>1, <2>2 DEF FinishUpdate, AckTypes
    <3> QED BY <3>1 DEF Covered
  <2> QED BY <2>1, <2>2
<1>2. ASSUME NEW a \in Router, UnexpectedLSA(r, n, a) PROVE Covered'
  BY <1>2, RestartCovers DEF UnexpectedLSA
<1>3. ASSUME NEW a \in Router,
             InstallLSA(r, n, a) \/ EqualLSA(r, n, a) \/ OlderLSA(r, n, a)
      PROVE  Covered'
  BY <1>3 DEF InstallLSA, EqualLSA, OlderLSA, Covered
<1> QED BY <1>1, <1>2, <1>3 DEF WorkThrough

(* What is sent again keeps its timer, and only that.                      *)
LEMMA ResendCovers ==
  ASSUME AckTypes, Covered, NEW p \in Pair, NEW ack \in BOOLEAN, NEW up,
         ResendMessages(p, ack, up), ack => ackTimer[p]
  PROVE  Covered'
<1>1. Unanswered(p) # <<>> <=> (dd[p] # NoDD \/ req[p] # {})
  <2>1. \A m : <<m>> # <<>>
    OBVIOUS
  <2> QED BY <2>1 DEF Unanswered
<1>2. ackTimer' = [ackTimer EXCEPT ![p] = ack \/ Unanswered(p) # <<>>]
  BY DEF ResendMessages
<1>3. dd' = dd /\ req' = req
  BY DEF ResendMessages
<1>4. (ack \/ Unanswered(p) # <<>>) <=> (dd[p] # NoDD \/ req[p] # {})
  BY <1>1 DEF Covered
<1> QED BY <1>2, <1>3, <1>4 DEF AckTypes, Covered

LEMMA CoversNext == TypeOK /\ Covered /\ [Next]_vars => Covered'
<1> SUFFICES ASSUME TypeOK, Covered, [Next]_vars PROVE Covered'
  OBVIOUS
<1>1. AckTypes
  BY DEF TypeOK, AckTypes
<1>2. CASE UNCHANGED <<dd, req, ackTimer>>
  BY <1>2 DEF Covered
<1>3. ASSUME NEW r, NEW n, <<r, n>> \in Pair, Timer(r, n) PROVE Covered'
  <2>1. CASE AckTimerExpires(r, n)
    BY <1>1, <1>3, <2>1, ResendCovers DEF AckTimerExpires
  <2>2. CASE UpdTimerExpires(r, n)
    BY <1>1, <1>3, <2>2, ResendCovers DEF UpdTimerExpires, AckTypes
  <2>3. CASE InactivityExpires(r, n)
    BY <1>1, <2>3 DEF InactivityExpires, CancelUnacked, AckTypes, Covered
  <2> QED BY <1>3, <2>1, <2>2, <2>3 DEF Timer
<1>4. CASE UNCHANGED vars
  BY <1>2, <1>4 DEF vars, ackVars
<1>5. CASE Next
  <2>1. ASSUME NEW p \in Pair, \/ Receive(p[1], p[2]) \/ WorkThrough(p[1], p[2])
                               \/ Timer(p[1], p[2])
        PROVE  Covered'
    BY <1>1, <1>3, <2>1, PairIsTuple, ReceiveCovers, WorkThroughCovers
  <2>2. ASSUME NEW p \in Pair, Lose(p) PROVE Covered'
    BY <1>2, <2>2 DEF Lose, ackVars
  <2>3. ASSUME NEW r \in Router, SendHellos(r) \/ CostChanged(r) \/ AgingAborts(r)
        PROVE  Covered'
    BY <1>2, <2>3 DEF SendHellos, CostChanged, AgingAborts, ackVars
  <2> QED BY <1>5, <2>1, <2>2, <2>3 DEF Next
<1> QED BY <1>4, <1>5

-----------------------------------------------------------------------------
(* No request on a link is empty: receiveRequest would answer it with an   *)
(* update of nothing, which would be kept and never acknowledged.          *)

Asking == {m \in Message : m.type = "REQUEST" => m.ids # {}}
Asks == [Pair -> Seq(Asking)]
RequestsAsk == chan \in Asks

LEMMA MessageAsks ==
  /\ Hello \in Asking
  /\ \A i, m \in {0, 1}, seq \in Nat, h \in Database : DD(i, m, seq, h) \in Asking
  /\ \A seq \in Nat : InitialDD(seq) \in Asking
  /\ \A ids \in SUBSET Router : ids # {} => Request(ids) \in Asking
  /\ \A lsas \in Database : Update(lsas) \in Asking
  /\ \A a \in Router : Ack(a) \in Asking
<1>1. /\ Hello.type = "HELLO"
      /\ \A i, m, seq, h : DD(i, m, seq, h).type = "DD"
      /\ \A seq : InitialDD(seq).type = "DD"
      /\ \A ids : Request(ids).ids = ids
      /\ \A lsas : Update(lsas).type = "UPDATE"
      /\ \A a : Ack(a).type = "ACK"
  BY DEF Hello, DD, InitialDD, Request, Update, Ack
<1> QED BY <1>1, MessageMade DEF Asking

LEMMA OutputAsks ==
  /\ Silent \in Asks
  /\ \A p : \A msgs \in Seq(Asking) : To(p, msgs) \in Asks
  /\ \A p : \A m \in Asking : To(p, <<m>>) \in Asks
  /\ \A P : \A m \in Asking : ToEach(P, m) \in Asks
<1>1. Silent \in Asks
  BY DEF Asks, Silent
<1>2. ASSUME NEW p, NEW msgs \in Seq(Asking) PROVE To(p, msgs) \in Asks
  BY <1>1, <1>2 DEF Asks, To
<1>3. \A m \in Asking : <<m>> \in Seq(Asking) /\ <<>> \in Seq(Asking)
  OBVIOUS
<1>4. ASSUME NEW P, NEW m \in Asking PROVE ToEach(P, m) \in Asks
  BY <1>3, <1>4, Zenon DEF Asks, ToEach
<1> QED BY <1>1, <1>2, <1>3, <1>4, Zenon

LEMMA TransmitAsks ==
  ASSUME chan \in Asks, NEW out \in Asks,
         NEW q, q \in Pair => chan[q] # <<>>, Transmit(q, out)
  PROVE  chan' \in Asks
<1> SUFFICES ASSUME NEW p \in Pair
             PROVE  ((IF p = q THEN Tail(chan[p]) ELSE chan[p]) \o out[p])
                      \in Seq(Asking)
  BY DEF Transmit, Asks
<1>1. chan[p] \in Seq(Asking) /\ out[p] \in Seq(Asking)
  BY DEF Asks
<1>2. p = q => Tail(chan[p]) \in Seq(Asking)
  BY <1>1, HeadTailProperties
<1> QED BY <1>1, <1>2, ConcatProperties

LEMMA RestartAsks ==
  ASSUME TypeOK, chan \in Asks, NEW r, NEW n, <<r, n>> \in Pair, NEW q,
         q \in Pair => chan[q] # <<>>, Restart(r, n, q)
  PROVE  chan' \in Asks
<1>1. IncDDseq(ddSeq[<<r, n>>]) \in Nat
  BY DEF TypeOK, IncDDseq
<1> QED BY <1>1, MessageAsks, OutputAsks, TransmitAsks DEF Restart

LEMMA NextOwnAsks ==
  ASSUME TypeOK, NEW r \in Router, NEW P
  PROVE  ToEach(P, Update(Only(r, NextOwn(r)))) \in Asks
BY NextOwnType, MessageAsks, OutputAsks

LEMMA HelloAsks ==
  ASSUME TypeOK, chan \in Asks, NEW r, NEW n, <<r, n>> \in Pair,
         ReceiveHelloTwoWay(r, n) \/ ReceiveHelloOneWay(r, n)
  PROVE  chan' \in Asks
<1> DEFINE flood == ToEach(UpFlood(r, n), Update(Only(r, NextOwn(r))))
           first == IncDDseq(ddSeq[<<r, n>>])
           starts == state[<<r, n>>] <= INIT
           out == [q \in Pair |-> IF q = <<r, n>> /\ starts
                                  THEN <<InitialDD(first)>> ELSE flood[q]]
<1>1. flood \in Asks /\ chan[<<n, r>>] # <<>>
  BY NextOwnAsks, PairType DEF ReceiveHelloTwoWay, ReceiveHelloOneWay, Arrived
<1>2. CASE ReceiveHelloTwoWay(r, n)
  <2>1. <<InitialDD(first)>> \in Seq(Asking)
    <3>1. first \in Nat
      BY DEF TypeOK, IncDDseq
    <3> QED BY <3>1, MessageAsks
  <2>2. Transmit(<<n, r>>, out)
    BY <1>2 DEF ReceiveHelloTwoWay
  <2> HIDE DEF flood, first, starts
  <2>3. out \in Asks
    BY <1>1, <2>1 DEF Asks
  <2> HIDE DEF out
  <2> QED BY <1>1, <2>2, <2>3, TransmitAsks
<1>3. CASE ReceiveHelloOneWay(r, n)
  <2>1. Transmit(<<n, r>>, flood)
    BY <1>3 DEF ReceiveHelloOneWay
  <2> QED BY <1>1, <2>1, TransmitAsks
<1> QED BY <1>2, <1>3

LEMMA NegotiationAsks ==
  ASSUME TypeOK, chan \in Asks, NEW r, NEW n, <<r, n>> \in Pair,
         \/ NegotiateAsSlave(r, n) \/ NegotiateAsMaster(r, n)
         \/ RolesUndecided(r, n)
  PROVE  chan' \in Asks
<1> DEFINE p == <<r, n>>
           m == Head(chan[<<n, r>>])
           next == IncDDseq(StartSeq(p))
<1>1. Negotiating(r, n) /\ AcceptDD(r, n)
  BY DEF NegotiateAsSlave, NegotiateAsMaster, RolesUndecided, Negotiating
<1>2. /\ StartSeq(p) \in Nat /\ next \in Nat /\ m.seq \in Nat
      /\ lsdb[r] \in Database /\ chan[<<n, r>>] # <<>>
  BY <1>1, NegotiatingType, DDFacts, PairType DEF TypeOK
<1>3. /\ StartDD(p) \in Seq(Asking)
      /\ DD(0, 0, m.seq, lsdb[r]) \in Asking /\ DD(0, 1, next, lsdb[r]) \in Asking
  BY <1>2, MessageAsks DEF StartDD
<1>4. /\ Append(StartDD(p), DD(0, 0, m.seq, lsdb[r])) \in Seq(Asking)
      /\ Append(StartDD(p), DD(0, 1, next, lsdb[r])) \in Seq(Asking)
  BY <1>3, AppendProperties
<1>5. \E msgs \in Seq(Asking) : Transmit(<<n, r>>, To(p, msgs))
  BY <1>3, <1>4 DEF NegotiateAsSlave, NegotiateAsMaster, RolesUndecided
<1> QED BY <1>2, <1>5, OutputAsks, TransmitAsks

LEMMA ExchangeAsks ==
  ASSUME TypeOK, chan \in Asks, NEW r, NEW n, <<r, n>> \in Pair,
         DDOutOfTurn(r, n) \/ DDProcessed(r, n)
  PROVE  chan' \in Asks
<1> DEFINE p == <<r, n>>
           m == Head(chan[<<n, r>>])
           wanted == Wanted(r, n, m)
           ask == IF wanted = {} THEN <<>> ELSE <<Request(wanted)>>
           reply == <<DD(0, 0, m.seq, headers[p])>>
<1>1. /\ chan[<<n, r>>] # <<>> /\ m.seq \in Nat
      /\ headers[p] \in Database
  BY DDFacts DEF DDOutOfTurn, DDProcessed, TypeOK
<1>2. CASE DDOutOfTurn(r, n)
  <2>1. m \in Asking
    BY <1>1, PairReverse, HeadTailProperties DEF Asks
  <2>2. CASE Transmit(<<n, r>>, To(p, IF ms[p] = 0 THEN <<m>> ELSE <<>>))
    <3>1. (IF ms[p] = 0 THEN <<m>> ELSE <<>>) \in Seq(Asking)
      BY <2>1, EmptySeq
    <3> HIDE DEF m
    <3> QED BY <1>1, <2>2, <3>1, OutputAsks, TransmitAsks
  <2> QED BY <1>1, <1>2, <2>2, RestartAsks DEF DDOutOfTurn
<1>3. CASE DDProcessed(r, n)
  <2>1. wanted \in SUBSET Router
    BY DEF Wanted, TypeOK
  <2>2. ask \in Seq(Asking) /\ reply \in Seq(Asking)
    <3>1. wanted # {} => Request(wanted) \in Asking
      BY <2>1, MessageAsks
    <3>2. DD(0, 0, m.seq, headers[p]) \in Asking
      BY <1>1, MessageAsks
    <3> QED BY <3>1, <3>2
  <2>3. (IF ms[p] = 1 THEN ask ELSE reply \o ask) \in Seq(Asking)
    BY <2>2, ConcatProperties
  <2>4. Transmit(<<n, r>>, To(p, IF ms[p] = 1 THEN ask ELSE reply \o ask))
    BY <1>3 DEF DDProcessed
  <2> HIDE DEF ask, reply
  <2> QED BY <1>1, <2>3, <2>4, OutputAsks, TransmitAsks
<1> QED BY <1>2, <1>3

LEMMA ReceiveAsks ==
  ASSUME TypeOK, chan \in Asks, NEW r, NEW n, <<r, n>> \in Pair, Receive(r, n)
  PROVE  chan' \in Asks
<1>1. CASE chan[<<n, r>>] # <<>> /\ Transmit(<<n, r>>, Silent)
  BY <1>1, OutputAsks, TransmitAsks
<1>2. CASE ReceiveRequest(r, n)
  <2> DEFINE ids == Head(chan[<<n, r>>]).ids
             lsas == [a \in Router |-> IF a \in ids THEN lsdb[r][a] ELSE None]
  <2>1. lsas \in Database
    BY PairType DEF TypeOK, Database
  <2>2. chan[<<n, r>>] # <<>>
    BY <1>2 DEF ReceiveRequest, Arrived
  <2>3. \/ Restart(r, n, <<n, r>>)
        \/ Transmit(<<n, r>>, To(<<r, n>>, <<Update(lsas)>>))
    BY <1>2 DEF ReceiveRequest
  <2> HIDE DEF lsas
  <2> QED BY <2>1, <2>2, <2>3, RestartAsks, MessageAsks, OutputAsks, TransmitAsks
<1>3. CASE DDIgnored(r, n) \/ ReceiveUpdate(r, n) \/ Dropped(r, n) \/ ReceiveAck(r, n)
  BY <1>1, <1>3 DEF DDIgnored, ReceiveUpdate, Dropped, ReceiveAck, AcceptDD, Arrived
<1> QED BY <1>2, <1>3, HelloAsks, NegotiationAsks, ExchangeAsks DEF Receive

LEMMA WorkThroughAsks ==
  ASSUME TypeOK, chan \in Asks, NEW r, NEW n, <<r, n>> \in Pair, WorkThrough(r, n)
  PROVE  chan' \in Asks
<1>1. ASSUME NEW a \in Router, InstallLSA(r, n, a) PROVE chan' \in Asks
  <2> DEFINE flood == ToEach(Flooded(r, n, a), Update(Only(a, rx.lsas[a])))
             out == [q \in Pair |-> IF q = <<r, n>> THEN <<Ack(a)>> ELSE flood[q]]
  <2>1. flood \in Asks /\ <<Ack(a)>> \in Seq(Asking)
    BY <1>1, TakesUpType, MessageAsks, OutputAsks DEF InstallLSA
  <2>2. Transmit(<<>>, out)
    BY <1>1 DEF InstallLSA
  <2> HIDE DEF flood
  <2>3. out \in Asks
    BY <2>1 DEF Asks
  <2> HIDE DEF out
  <2> QED BY <2>2, <2>3, TransmitAsks, NoEmptyPair
<1>2. ASSUME NEW a \in Router, OlderLSA(r, n, a) PROVE chan' \in Asks
  <2>1. Only(a, lsdb[r][a]) \in Database
    <3>1. lsdb[r][a] \in Nat \cup {None}
      BY PairType DEF TypeOK, Database
    <3> QED BY <3>1, DatabaseType
  <2>2. Transmit(<<>>, To(<<r, n>>, <<Update(Only(a, lsdb[r][a]))>>))
    BY <1>2 DEF OlderLSA
  <2> QED BY <2>1, <2>2, MessageAsks, OutputAsks, TransmitAsks, NoEmptyPair
<1>3. ASSUME NEW a \in Router, EqualLSA(r, n, a) PROVE chan' \in Asks
  BY <1>3, MessageAsks, OutputAsks, TransmitAsks, NoEmptyPair DEF EqualLSA
<1>4. ASSUME NEW a \in Router, UnexpectedLSA(r, n, a) PROVE chan' \in Asks
  BY <1>4, RestartAsks, NoEmptyPair DEF UnexpectedLSA
<1> QED BY <1>1, <1>2, <1>3, <1>4 DEF WorkThrough, FinishUpdate

LEMMA ResendAsks ==
  ASSUME TypeOK, chan \in Asks, NEW p \in Pair, NEW ack, NEW up,
         ResendMessages(p, ack, up)
  PROVE  chan' \in Asks
<1>1. Unanswered(p) \in Seq(Asking)
  <2>1. /\ DD(0, 1, dd[p].seq, dd[p].headers) \in Asking
        /\ req[p] # {} => Request(req[p]) \in Asking
    BY MessageAsks DEF TypeOK
  <2>2. \A m \in Asking : <<m>> \in Seq(Asking)
    OBVIOUS
  <2> QED BY <2>1, <2>2, EmptySeq, Zenon DEF Unanswered
<1>2. UpdatesDue(p) \in Seq(Asking)
  <2> DEFINE k == Cardinality(Pending(p))
  <2>1. k \in Nat
    BY RankIsNumbering
  <2>2. \A i \in 1..k : Update(upd[p][PendingAt(p, i)]) \in Asking
    BY RankIsNumbering, MessageAsks DEF Pending, TypeOK
  <2>3. UpdatesDue(p) \in [1..k -> Asking]
    BY <2>2, Zenon DEF UpdatesDue
  <2> QED BY <2>1, <2>3, SeqDef
<1>3. Transmit(<<>>, To(p, IF Unanswered(p) # <<>> THEN Unanswered(p)
                           ELSE UpdatesDue(p)))
  BY DEF ResendMessages
<1> QED BY <1>1, <1>2, <1>3, OutputAsks, TransmitAsks, NoEmptyPair

LEMMA AsksNext == TypeOK /\ RequestsAsk /\ [Next]_vars => RequestsAsk'
<1> SUFFICES ASSUME TypeOK, chan \in Asks, [Next]_vars PROVE chan' \in Asks
  BY DEF RequestsAsk
<1>1. ASSUME NEW r, NEW n, <<r, n>> \in Pair, Timer(r, n) PROVE chan' \in Asks
  <2>1. CASE InactivityExpires(r, n)
    <3>1. PICK P : Transmit(<<>>, ToEach(P, Update(Only(r, NextOwn(r)))))
      BY <2>1 DEF InactivityExpires
    <3> QED BY <1>1, <3>1, PairType, NextOwnAsks, TransmitAsks, NoEmptyPair
  <2> QED BY <1>1, <2>1, ResendAsks DEF Timer, AckTimerExpires, UpdTimerExpires
<1>2. ASSUME NEW r \in Router, SendHellos(r) PROVE chan' \in Asks
  BY <1>2, MessageAsks, OutputAsks, TransmitAsks, NoEmptyPair DEF SendHellos
<1>3. ASSUME NEW r \in Router, CostChanged(r) PROVE chan' \in Asks
  BY <1>3, NextOwnAsks, TransmitAsks, NoEmptyPair DEF CostChanged
<1>4. CASE Next
  <2>1. ASSUME NEW p \in Pair, \/ Receive(p[1], p[2]) \/ WorkThrough(p[1], p[2])
                               \/ Timer(p[1], p[2])
        PROVE  chan' \in Asks
    BY <1>1, <2>1, PairIsTuple, ReceiveAsks, WorkThroughAsks
  <2>2. ASSUME NEW p \in Pair, Lose(p) PROVE chan' \in Asks
    BY <2>2, OutputAsks, TransmitAsks DEF Lose
  <2>3. ASSUME NEW r \in Router, AgingAborts(r) PROVE chan' \in Asks
    BY <2>3 DEF AgingAborts
  <2> QED BY <1>2, <1>3, <1>4, <2>1, <2>2, <2>3 DEF Next
<1> QED BY <1>4 DEF vars

-----------------------------------------------------------------------------
(* UpdateMap_: what is kept of the updates sent to a neighbour.            *)

Kept ==
  \A p \in Pair :
    updTimer[p] \/ (state[p] >= EXCHANGE /\ retrans[p] # NoCopies) =>
      Pending(p) # {}

UpdTypes ==
  /\ state \in [Pair -> DOWN..FULL]
  /\ retrans \in [Pair -> [Router -> Nat]]
  /\ upd \in [Pair -> [Router -> Database]]
  /\ updTimer \in [Pair -> BOOLEAN]

(* No neighbour enters the exchange.                                       *)
NoneEnters == \A p \in Pair : state'[p] >= EXCHANGE => state[p] >= EXCHANGE

LEMMA NoneEntersByOne ==
  ASSUME NEW p \in Pair, \A o \in Pair : o # p => state'[o] = state[o],
         state'[p] >= EXCHANGE => state[p] >= EXCHANGE
  PROVE  NoneEnters
BY DEF NoneEnters

LEMMA KeptUnchanged ==
  ASSUME Kept, NoneEnters, UNCHANGED <<retrans, upd, updTimer>>
  PROVE  Kept'
BY DEF Kept, NoneEnters, Pending

(* Sending an update to neighbours P: each has it in its map, the others   *)
(* have what they had.                                                     *)
LEMMA SentIsKept ==
  ASSUME UpdTypes, Kept, NoneEnters, NEW P, NEW A, NEW a \in Router,
         NEW lsas, lsas # Empty,
         retrans' = Listed(P, A), upd' = Unacked(upd, P, a, lsas),
         updTimer' = Armed(updTimer, P)
  PROVE  Kept'
<1> SUFFICES ASSUME NEW p \in Pair,
                    \/ updTimer'[p]
                    \/ state'[p] >= EXCHANGE /\ retrans'[p] # NoCopies
             PROVE  Pending(p)' # {}
  BY DEF Kept
<1>1. CASE p \in P
  <2>1. upd'[p][a] = lsas
    BY <1>1 DEF Unacked, UpdTypes
  <2> QED BY <2>1 DEF Pending
<1>2. CASE p \notin P
  <2>1. upd'[p] = upd[p] /\ retrans'[p] = retrans[p]
    BY <1>2 DEF Unacked, Listed
  <2>2. updTimer'[p] => updTimer[p]
    BY <1>2 DEF Armed
  <2>3. Pending(p) # {}
    BY <2>1, <2>2 DEF Kept, NoneEnters
  <2> QED BY <2>1, <2>3 DEF Pending
<1> QED BY <1>1, <1>2

LEMMA OnlyNotEmpty ==
  ASSUME NEW a \in Router, NEW seq \in Nat PROVE Only(a, seq) # Empty
<1>1. Only(a, seq)[a] # Empty[a]
  BY DEF Only, Empty, None
<1> QED BY <1>1

(* The neighbour's exchange starts again: its map is emptied with its      *)
(* timer, and its copies no longer count.                                  *)
LEMMA RestartKeeps ==
  ASSUME UpdTypes, Kept, NEW r, NEW n, <<r, n>> \in Pair, NEW q,
         Restart(r, n, q),
         \A p \in Pair : p # <<r, n>> => retrans'[p] = retrans[p]
  PROVE  Kept'
<1> SUFFICES ASSUME NEW p \in Pair,
                    \/ updTimer'[p]
                    \/ state'[p] >= EXCHANGE /\ retrans'[p] # NoCopies
             PROVE  Pending(p)' # {}
  BY DEF Kept
<1>1. /\ state' = [state EXCEPT ![<<r, n>>] = EX_START]
      /\ upd' = [upd EXCEPT ![<<r, n>>] = NoUpdates]
      /\ updTimer' = [updTimer EXCEPT ![<<r, n>>] = FALSE]
  BY DEF Restart
<1>2. p # <<r, n>>
  BY <1>1 DEF UpdTypes
<1>3. /\ state'[p] = state[p] /\ updTimer'[p] = updTimer[p] /\ upd'[p] = upd[p]
      /\ retrans'[p] = retrans[p]
  BY <1>1, <1>2 DEF UpdTypes
<1> QED BY <1>3 DEF Kept, Pending

(* The map is emptied only with the last copy of the list.                 *)
LEMMA AckKeeps ==
  ASSUME UpdTypes, Kept, NoneEnters, NEW p \in Pair, NEW a \in Router,
         AckUpdates(p, a)
  PROVE  Kept'
<1> SUFFICES ASSUME NEW o \in Pair,
                    \/ updTimer'[o]
                    \/ state'[o] >= EXCHANGE /\ retrans'[o] # NoCopies
             PROVE  Pending(o)' # {}
  BY DEF Kept
<1>1. /\ retrans' = [retrans EXCEPT
                       ![p] = IF retrans[p][a] > 0 THEN Unlisted(p, a) ELSE @]
      /\ upd' = [upd EXCEPT ![p] = IF ClearsUpdates(p, a) THEN NoUpdates ELSE @]
      /\ updTimer' = [updTimer EXCEPT ![p] = @ /\ ~ClearsUpdates(p, a)]
  BY DEF AckUpdates
<1>2. CASE o # p
  <2>1. retrans'[o] = retrans[o] /\ upd'[o] = upd[o] /\ updTimer'[o] = updTimer[o]
    BY <1>1, <1>2 DEF UpdTypes
  <2> QED BY <2>1 DEF Kept, NoneEnters, Pending
<1>3. CASE o = p
  <2>1. ~ClearsUpdates(p, a)
    <3> SUFFICES ASSUME ClearsUpdates(p, a) PROVE FALSE
      OBVIOUS
    <3>1. retrans'[p] = NoCopies
      BY <1>1 DEF ClearsUpdates, LastCopy, UpdTypes
    <3>2. ~updTimer'[p]
      BY <1>1 DEF UpdTypes
    <3> QED BY <1>3, <3>1, <3>2
  <2>2. upd'[p] = upd[p] /\ (updTimer'[p] => updTimer[p])
    BY <1>1, <2>1 DEF UpdTypes
  <2>3. retrans'[p] # NoCopies => retrans[p] # NoCopies
    <3> SUFFICES ASSUME retrans[p] = NoCopies PROVE retrans'[p] = NoCopies
      OBVIOUS
    <3>1. ~(retrans[p][a] > 0)
      BY DEF NoCopies
    <3> QED BY <1>1, <3>1 DEF UpdTypes
  <2> QED BY <1>3, <2>2, <2>3 DEF Kept, NoneEnters, Pending
<1> QED BY <1>2, <1>3

LEMMA NegDoneKeeps ==
  ASSUME UpdTypes, Kept, NEW r, NEW n, <<r, n>> \in Pair, NegDone(r, n),
         UNCHANGED <<upd, updTimer>>
  PROVE  Kept'
<1> SUFFICES ASSUME NEW p \in Pair,
                    \/ updTimer'[p]
                    \/ state'[p] >= EXCHANGE /\ retrans'[p] # NoCopies
             PROVE  Pending(p)' # {}
  BY DEF Kept
<1>1. CASE p = <<r, n>>
  <2>1. retrans'[p] = NoCopies
    BY <1>1 DEF NegDone, UpdTypes
  <2> QED BY <2>1 DEF Kept, Pending
<1>2. CASE p # <<r, n>>
  <2>1. retrans'[p] = retrans[p] /\ state'[p] = state[p]
    BY <1>2 DEF NegDone, UpdTypes
  <2> QED BY <2>1 DEF Kept, Pending
<1> QED BY <1>1, <1>2

(* A request on the link names an LSA, so the update that answers it is    *)
(* one of something.                                                       *)
LEMMA RequestKeeps ==
  ASSUME TypeOK, chan \in Asks, UpdTypes, Kept, NEW r, NEW n, <<r, n>> \in Pair,
         ReceiveRequest(r, n)
  PROVE  Kept'
<1> DEFINE ids == Head(chan[<<n, r>>]).ids
           missing == ids \ Held(lsdb[r])
           lsas == [a \in Router |-> IF a \in ids THEN lsdb[r][a] ELSE None]
<1>1. PICK A : retrans' = Listed({<<r, n>>}, A)
  BY DEF ReceiveRequest
<1>2. CASE missing = {}
  <2>1. ids \in SUBSET Router /\ ids # {}
    <3>1. Head(chan[<<n, r>>]) \in Asking /\ Head(chan[<<n, r>>]).type = "REQUEST"
      BY PairReverse, HeadTailProperties DEF Asks, ReceiveRequest, Arrived
    <3> QED BY <3>1, MessageFields DEF Asking
  <2>2. lsas # Empty
    <3>1. PICK a \in Router : a \in ids /\ lsdb[r][a] # None
      BY <1>2, <2>1 DEF Held
    <3>2. lsas[a] # Empty[a]
      BY <3>1 DEF Empty
    <3> QED BY <3>2
  <2>3. /\ upd' = Unacked(upd, {<<r, n>>}, r, lsas)
        /\ updTimer' = Armed(updTimer, {<<r, n>>}) /\ state' = state
    BY <1>2 DEF ReceiveRequest
  <2> HIDE DEF lsas
  <2> QED BY <1>1, <2>2, <2>3, PairType, SentIsKept DEF NoneEnters
<1>3. CASE missing # {}
  <2>1. Restart(r, n, <<n, r>>)
    BY <1>3 DEF ReceiveRequest
  <2>2. \A p \in Pair : p # <<r, n>> => retrans'[p] = retrans[p]
    BY <1>1 DEF Listed
  <2> QED BY <2>1, <2>2, RestartKeeps
<1> QED BY <1>2, <1>3

LEMMA HelloKeeps ==
  ASSUME TypeOK, UpdTypes, Kept, NEW r, NEW n, <<r, n>> \in Pair,
         ReceiveHelloTwoWay(r, n) \/ ReceiveHelloOneWay(r, n)
  PROVE  Kept'
<1>1. /\ retrans' = Listed(UpFlood(r, n), {r})
      /\ upd' = Unacked(upd, UpFlood(r, n), r, Only(r, NextOwn(r)))
      /\ updTimer' = Armed(updTimer, UpFlood(r, n))
  BY DEF ReceiveHelloTwoWay, ReceiveHelloOneWay, HeardFrom
<1>2. NoneEnters
  <2>1. CASE ReceiveHelloTwoWay(r, n)
    <3>1. CASE state' = state
      BY <3>1 DEF NoneEnters
    <3>2. CASE state' = [state EXCEPT ![<<r, n>>] = EX_START]
      BY <3>2, NoneEntersByOne DEF UpdTypes
    <3> QED BY <2>1, <3>1, <3>2 DEF ReceiveHelloTwoWay
  <2>2. CASE ReceiveHelloOneWay(r, n)
    <3>1. state' = [state EXCEPT ![<<r, n>>] = INIT]
      BY <2>2 DEF ReceiveHelloOneWay
    <3> QED BY <3>1, NoneEntersByOne DEF UpdTypes
  <2> QED BY <2>1, <2>2
<1>3. r \in Router /\ Only(r, NextOwn(r)) # Empty
  BY PairType, NextOwnType, OnlyNotEmpty
<1> QED BY <1>1, <1>2, <1>3, SentIsKept

LEMMA ReceiveKeeps ==
  ASSUME TypeOK, chan \in Asks, UpdTypes, Kept, NEW r, NEW n, <<r, n>> \in Pair,
         Receive(r, n)
  PROVE  Kept'
<1>1. CASE UNCHANGED <<state, retrans, upd, updTimer>>
  BY <1>1, KeptUnchanged DEF NoneEnters
<1>2. CASE NegotiateAsSlave(r, n) \/ NegotiateAsMaster(r, n)
  BY <1>2, NegDoneKeeps DEF NegotiateAsSlave, NegotiateAsMaster, Negotiating
<1>3. CASE RolesUndecided(r, n)
  <2>1. state' = [state EXCEPT ![<<r, n>>] = EX_START]
    BY <1>3 DEF RolesUndecided
  <2>2. NoneEnters
    BY <2>1, NoneEntersByOne DEF UpdTypes
  <2> QED BY <1>3, <2>2, KeptUnchanged DEF RolesUndecided, Negotiating
<1>4. CASE DDOutOfTurn(r, n)
  BY <1>1, <1>4, RestartKeeps DEF DDOutOfTurn
<1>5. CASE DDProcessed(r, n)
  <2>1. state[<<r, n>>] = EXCHANGE /\ \A p \in Pair : p # <<r, n>> => state'[p] = state[p]
    BY <1>5 DEF DDProcessed, InStep, UpdTypes
  <2>2. NoneEnters
    BY <2>1, NoneEntersByOne
  <2> QED BY <1>5, <2>2, KeptUnchanged DEF DDProcessed
<1>6. CASE ReceiveAck(r, n)
  <2>1. Head(chan[<<n, r>>]).adv \in Router
    BY <1>6, ArrivedFacts, MessageFields DEF ReceiveAck, Arrived
  <2> QED BY <1>6, <2>1, AckKeeps DEF ReceiveAck, NoneEnters
<1>7. CASE DDIgnored(r, n) \/ ReceiveUpdate(r, n) \/ Dropped(r, n)
  BY <1>1, <1>7 DEF DDIgnored, ReceiveUpdate, Dropped, nbrVars, ackVars
<1> QED BY <1>2, <1>3, <1>4, <1>5, <1>6, <1>7, HelloKeeps, RequestKeeps DEF Receive

LEMMA WorkThroughKeeps ==
  ASSUME TypeOK, UpdTypes, Kept, NEW r, NEW n, <<r, n>> \in Pair, WorkThrough(r, n)
  PROVE  Kept'
<1>1. ASSUME NEW a \in Router, InstallLSA(r, n, a) PROVE Kept'
  <2> DEFINE P == Flooded(r, n, a)
             lsa == Only(a, rx.lsas[a])
  <2>1. lsa # Empty
    BY <1>1, TakesUpType, OnlyNotEmpty DEF InstallLSA
  <2>2. /\ retrans' = Listed(P, {a}) /\ upd' = Unacked(upd, P, a, lsa)
        /\ updTimer' = Armed(updTimer, P) /\ state' = state
    BY <1>1 DEF InstallLSA
  <2> HIDE DEF P, lsa
  <2> QED BY <2>1, <2>2, SentIsKept DEF NoneEnters
<1>2. ASSUME NEW a \in Router, OlderLSA(r, n, a) PROVE Kept'
  <2> DEFINE P == {<<r, n>>}
             lsa == Only(a, lsdb[r][a])
  <2>1. lsdb[r][a] \in Nat
    <3>1. rx.lsas[a] \in Nat /\ rx.lsas[a] < lsdb[r][a]
      BY <1>2, TakesUpType DEF OlderLSA
    <3>2. lsdb[r][a] \in Nat \cup {None}
      BY PairType DEF TypeOK, Database
    <3> QED BY <3>1, <3>2 DEF None
  <2>2. lsa # Empty
    BY <2>1, OnlyNotEmpty
  <2>3. /\ retrans' = Listed(P, {a}) /\ upd' = Unacked(upd, P, r, lsa)
        /\ updTimer' = Armed(updTimer, P) /\ state' = state
    BY <1>2 DEF OlderLSA
  <2> HIDE DEF P, lsa
  <2> QED BY <2>2, <2>3, PairType, SentIsKept DEF NoneEnters
<1>3. ASSUME NEW a \in Router, EqualLSA(r, n, a) PROVE Kept'
  BY <1>3, AckKeeps DEF EqualLSA, NoneEnters
<1>4. ASSUME NEW a \in Router, UnexpectedLSA(r, n, a) PROVE Kept'
  BY <1>4, RestartKeeps DEF UnexpectedLSA
<1>5. CASE FinishUpdate(r, n)
  <2>1. /\ \A p \in Pair : p # <<r, n>> => state'[p] = state[p]
        /\ state'[<<r, n>>] = state[<<r, n>>] \/ state[<<r, n>>] = LOADING
    BY <1>5 DEF FinishUpdate, UpdTypes
  <2>2. NoneEnters
    BY <2>1, NoneEntersByOne
  <2> QED BY <1>5, <2>2, KeptUnchanged DEF FinishUpdate
<1> QED BY <1>1, <1>2, <1>3, <1>4, <1>5 DEF WorkThrough

(* The update timer is started again only if there is an update to send.   *)
LEMMA ResendKeeps ==
  ASSUME UpdTypes, Kept, NEW p \in Pair, NEW ack, NEW up \in BOOLEAN,
         ResendMessages(p, ack, up), up => updTimer[p]
  PROVE  Kept'
<1> SUFFICES ASSUME NEW o \in Pair,
                    \/ updTimer'[o]
                    \/ state'[o] >= EXCHANGE /\ retrans'[o] # NoCopies
             PROVE  Pending(o)' # {}
  BY DEF Kept
<1>1. /\ UNCHANGED <<state, retrans, upd>>
      /\ updTimer' = [updTimer EXCEPT
           ![p] = up \/ (Unanswered(p) = <<>> /\ Pending(p) # {})]
  BY DEF ResendMessages, nbrVars
<1>2. updTimer'[o] => updTimer[o] \/ Pending(o) # {}
  BY <1>1 DEF UpdTypes
<1> QED BY <1>1, <1>2 DEF Kept, Pending

LEMMA SilenceKeeps ==
  ASSUME TypeOK, UpdTypes, Kept, NEW r, NEW n, <<r, n>> \in Pair,
         InactivityExpires(r, n)
  PROVE  Kept'
<1> DEFINE P == IF n \in upLinks[r] THEN FloodOwn(r, n) ELSE {}
           lsa == Only(r, NextOwn(r))
<1> SUFFICES ASSUME NEW p \in Pair,
                    \/ updTimer'[p]
                    \/ state'[p] >= EXCHANGE /\ retrans'[p] # NoCopies
             PROVE  Pending(p)' # {}
  BY DEF Kept
<1>1. /\ state' = [state EXCEPT ![<<r, n>>] = DOWN]
      /\ retrans' = Listed(P, {r})
      /\ upd' = Unacked([upd EXCEPT ![<<r, n>>] = NoUpdates], P, r, lsa)
      /\ updTimer' = Armed([updTimer EXCEPT ![<<r, n>>] = FALSE], P)
  BY DEF InactivityExpires
<1>2. r \in Router /\ lsa # Empty /\ <<r, n>> \notin P
  BY PairType, NextOwnType, OnlyNotEmpty DEF FloodOwn
<1> HIDE DEF P, lsa
<1>3. CASE p \in P
  <2>1. upd'[p][r] = lsa
    BY <1>1, <1>2, <1>3 DEF Unacked, UpdTypes
  <2> QED BY <1>2, <2>1 DEF Pending
<1>4. CASE p \notin P
  <2>1. p # <<r, n>>
    <3> SUFFICES ASSUME p = <<r, n>> PROVE FALSE
      OBVIOUS
    <3>1. ~(state'[p] >= EXCHANGE)
      BY <1>1 DEF UpdTypes
    <3>2. ~updTimer'[p]
      BY <1>1, <1>4 DEF UpdTypes, Armed
    <3> QED BY <3>1, <3>2
  <2>2. /\ upd'[p] = upd[p] /\ retrans'[p] = retrans[p] /\ state'[p] = state[p]
        /\ updTimer'[p] => updTimer[p]
    BY <1>1, <1>4, <2>1 DEF UpdTypes, Unacked, Listed, Armed
  <2> QED BY <2>2 DEF Kept, Pending
<1> QED BY <1>3, <1>4

LEMMA KeepsNext == TypeOK /\ RequestsAsk /\ Kept /\ [Next]_vars => Kept'
<1> SUFFICES ASSUME TypeOK, chan \in Asks, Kept, [Next]_vars PROVE Kept'
  BY DEF RequestsAsk
<1>1. UpdTypes
  BY DEF TypeOK, UpdTypes
<1>2. CASE UNCHANGED <<state, retrans, upd, updTimer>>
  BY <1>2, KeptUnchanged DEF NoneEnters
<1>3. ASSUME NEW r, NEW n, <<r, n>> \in Pair, Timer(r, n) PROVE Kept'
  <2>1. CASE AckTimerExpires(r, n)
    BY <1>1, <1>3, <2>1, ResendKeeps DEF AckTimerExpires, UpdTypes
  <2>2. CASE UpdTimerExpires(r, n)
    BY <1>1, <1>3, <2>2, ResendKeeps DEF UpdTimerExpires
  <2> QED BY <1>1, <1>3, <2>1, <2>2, SilenceKeeps DEF Timer
<1>4. ASSUME NEW r \in Router, SendHellos(r) PROVE Kept'
  <2>1. NoneEnters
    BY <1>1, <1>4 DEF SendHellos, NoneEnters, UpdTypes
  <2> QED BY <1>4, <2>1, KeptUnchanged DEF SendHellos, ackVars
<1>5. ASSUME NEW r \in Router, CostChanged(r) PROVE Kept'
  BY <1>1, <1>5, NextOwnType, OnlyNotEmpty, SentIsKept DEF CostChanged, NoneEnters
<1>6. CASE UNCHANGED vars
  BY <1>2, <1>6 DEF vars, nbrVars, ackVars
<1>7. CASE Next
  <2>1. ASSUME NEW p \in Pair, \/ Receive(p[1], p[2]) \/ WorkThrough(p[1], p[2])
                               \/ Timer(p[1], p[2])
        PROVE  Kept'
    BY <1>1, <1>3, <2>1, PairIsTuple, ReceiveKeeps, WorkThroughKeeps
  <2>2. ASSUME NEW p \in Pair, Lose(p) PROVE Kept'
    BY <1>2, <2>2 DEF Lose, nbrVars, ackVars
  <2>3. ASSUME NEW r \in Router, AgingAborts(r) PROVE Kept'
    BY <1>2, <2>3 DEF AgingAborts, nbrVars, ackVars
  <2> QED BY <1>4, <1>5, <1>7, <2>1, <2>2, <2>3 DEF Next
<1> QED BY <1>6, <1>7

-----------------------------------------------------------------------------

LEMMA RetransmissionInit == Init => Covered /\ RequestsAsk /\ Kept
<1> SUFFICES ASSUME Init PROVE Covered /\ RequestsAsk /\ Kept
  OBVIOUS
<1>1. Covered
  BY DEF Init, Covered
<1>2. RequestsAsk
  BY DEF Init, RequestsAsk, Asks
<1>3. Kept
  BY DEF Init, Kept
<1> QED BY <1>1, <1>2, <1>3

(* The timer of description packets and requests runs exactly while one of *)
(* them is unanswered, and the update timer only while there is an update  *)
(* to send again: none of the calls that cancel, restart or let a timer    *)
(* expire leaves it at odds with AckManager_'s records.                    *)
THEOREM TimersAreRight == Spec => []TimersCoverAwaited
<1>1. Covered /\ Kept => TimersCoverAwaited
  BY DEF Covered, Kept, TimersCoverAwaited
<1> QED BY <1>1, RetransmissionInit, CoversNext, AsksNext, KeepsNext, TypeCorrect, PTL
        DEF Spec

(* An update flooded to a neighbour in the exchange and not acknowledged   *)
(* is still in UpdateMap_: the map is emptied only together with the       *)
(* retransmission list, or when the exchange ends.                         *)
THEOREM UpdatesAreKept == Spec => []UnackedUpdatesKept
<1>1. Kept => UnackedUpdatesKept
  BY DEF Kept, UnackedUpdatesKept
<1> QED BY <1>1, RetransmissionInit, AsksNext, KeepsNext, TypeCorrect, PTL DEF Spec

-----------------------------------------------------------------------------
(* The description packets in a queue, and the order they are in.          *)

DDs(c) == {c[i] : i \in {j \in DOMAIN c : c[j].type = "DD"}}
IsReply(m) == m.I = 0 /\ m.MS = 0

(* An initial packet has a larger number than all packets before it.       *)
InitialsRise(c) ==
  \A i, j \in DOMAIN c :
    /\ i < j /\ c[i].type = "DD" /\ c[j].type = "DD"
    /\ c[j].I = 1
    => c[i].seq < c[j].seq

RepliesRise(c) ==
  \A i, j \in DOMAIN c :
    /\ i < j /\ c[i].type = "DD" /\ c[j].type = "DD"
    /\ IsReply(c[i]) /\ IsReply(c[j])
    => c[i].seq < c[j].seq

Plain == {m \in Message : m.type # "DD"}

LEMMA TypeOfDD ==
  \A m \in Message : m.type = "DD" => /\ m.I \in {0, 1} /\ m.MS \in {0, 1}
                                      /\ m.seq \in Nat
BY DEF Message, Hello

(* What is left when the head has been taken.                              *)
LEMMA TailOfQueue ==
  ASSUME NEW c \in Seq(Message), c # <<>>
  PROVE  /\ Tail(c) \in Seq(Message)
         /\ DDs(Tail(c)) \subseteq DDs(c)
         /\ InitialsRise(c) => InitialsRise(Tail(c))
         /\ RepliesRise(c) => RepliesRise(Tail(c))
<1>1. /\ Tail(c) \in Seq(Message)
      /\ DOMAIN c = 1..Len(c) /\ DOMAIN Tail(c) = 1..(Len(c) - 1)
      /\ Len(c) \in Nat
      /\ \A i \in DOMAIN Tail(c) : Tail(c)[i] = c[i + 1]
  BY HeadTailProperties
<1>2. \A i \in DOMAIN Tail(c) : i + 1 \in DOMAIN c
  BY <1>1
<1>3. DDs(Tail(c)) \subseteq DDs(c)
  BY <1>1, <1>2 DEF DDs
<1>4. InitialsRise(c) => InitialsRise(Tail(c))
  BY <1>1, <1>2 DEF InitialsRise
<1>5. RepliesRise(c) => RepliesRise(Tail(c))
  BY <1>1, <1>2 DEF RepliesRise
<1> QED BY <1>1, <1>3, <1>4, <1>5

(* Behind a head that is an initial packet, initial packets are newer.     *)
LEMMA BehindHead ==
  ASSUME NEW c \in Seq(Message), c # <<>>, InitialsRise(c), Head(c).type = "DD"
  PROVE  /\ Head(c) \in DDs(c)
         /\ \A k \in DDs(Tail(c)) : k.I = 1 => Head(c).seq < k.seq
<1>1. /\ DOMAIN c = 1..Len(c) /\ DOMAIN Tail(c) = 1..(Len(c) - 1)
      /\ Len(c) \in Nat /\ Head(c) = c[1] /\ 1 \in DOMAIN c
      /\ \A i \in DOMAIN Tail(c) : Tail(c)[i] = c[i + 1]
  BY HeadTailProperties
<1>2. \A i \in DOMAIN Tail(c) : i + 1 \in DOMAIN c /\ 1 < i + 1
  BY <1>1
<1> QED BY <1>1, <1>2 DEF DDs, InitialsRise

LEMMA BehindReply ==
  ASSUME NEW c \in Seq(Message), c # <<>>, RepliesRise(c), Head(c).type = "DD",
         IsReply(Head(c))
  PROVE  \A k \in DDs(Tail(c)) : IsReply(k) => Head(c).seq < k.seq
<1>1. /\ DOMAIN c = 1..Len(c) /\ DOMAIN Tail(c) = 1..(Len(c) - 1)
      /\ Len(c) \in Nat /\ Head(c) = c[1] /\ 1 \in DOMAIN c
      /\ \A i \in DOMAIN Tail(c) : Tail(c)[i] = c[i + 1]
  BY HeadTailProperties
<1>2. \A i \in DOMAIN Tail(c) : i + 1 \in DOMAIN c /\ 1 < i + 1
  BY <1>1
<1> QED BY <1>1, <1>2 DEF DDs, RepliesRise

(* Packets of other types change nothing.                                  *)
LEMMA PlainAdded ==
  ASSUME NEW c \in Seq(Message), NEW out \in Seq(Plain)
  PROVE  /\ DDs(c \o out) = DDs(c)
         /\ InitialsRise(c) => InitialsRise(c \o out)
         /\ RepliesRise(c) => RepliesRise(c \o out)
<1> DEFINE d == c \o out
<1>1. /\ DOMAIN c = 1..Len(c) /\ DOMAIN d = 1..(Len(c) + Len(out))
      /\ Len(c) \in Nat /\ Len(out) \in Nat
      /\ \A i \in 1..Len(c) : d[i] = c[i]
      /\ \A i \in DOMAIN d : i > Len(c) => d[i] = out[i - Len(c)]
  OBVIOUS
<1>2. \A i \in DOMAIN d : i > Len(c) => d[i].type # "DD"
  <2>1. \A i \in 1..Len(out) : out[i].type # "DD"
    BY DEF Plain
  <2> QED BY <1>1, <2>1
<1>3. \A i \in DOMAIN d : d[i].type = "DD" => i \in DOMAIN c /\ d[i] = c[i]
  BY <1>1, <1>2
<1>4. \A i \in DOMAIN c : i \in DOMAIN d /\ d[i] = c[i]
  BY <1>1
<1> HIDE DEF d
<1>5. DDs(d) = DDs(c)
  BY <1>3, <1>4 DEF DDs
<1>6. InitialsRise(c) => InitialsRise(d)
  BY <1>3 DEF InitialsRise
<1>7. RepliesRise(c) => RepliesRise(d)
  BY <1>3 DEF RepliesRise
<1> QED BY <1>5, <1>6, <1>7 DEF d

(* A description packet keeps the order if its number is large enough.     *)
LEMMA DDAdded ==
  ASSUME NEW c \in Seq(Message), NEW m
  PROVE  /\ DDs(Append(c, m)) \subseteq DDs(c) \cup {m}
         /\ InitialsRise(c) /\ (m.I = 1 => \A k \in DDs(c) : k.seq < m.seq)
              => InitialsRise(Append(c, m))
         /\ RepliesRise(c)
            /\ (IsReply(m) => \A k \in DDs(c) : IsReply(k) => k.seq < m.seq)
              => RepliesRise(Append(c, m))
<1> DEFINE d == Append(c, m)
<1>1. /\ DOMAIN c = 1..Len(c) /\ DOMAIN d = 1..(Len(c) + 1)
      /\ Len(c) \in Nat
      /\ \A i \in 1..Len(c) : d[i] = c[i]
      /\ d[Len(c) + 1] = m
  OBVIOUS
<1>2. \A i \in DOMAIN d : i \notin DOMAIN c => i = Len(c) + 1 /\ d[i] = m
  BY <1>1
<1>3. \A i \in DOMAIN c : d[i] = c[i]
  BY <1>1
<1>4. \A i, j \in DOMAIN d : i < j => i \in DOMAIN c /\ d[i] = c[i]
  BY <1>1
<1>5. \A i \in DOMAIN c : c[i].type = "DD" => c[i] \in DDs(c)
  BY DEF DDs
<1> HIDE DEF d
<1>6. DDs(d) \subseteq DDs(c) \cup {m}
  BY <1>2, <1>3 DEF DDs
<1>7. InitialsRise(c) /\ (m.I = 1 => \A k \in DDs(c) : k.seq < m.seq)
        => InitialsRise(d)
  BY <1>2, <1>3, <1>4, <1>5 DEF InitialsRise
<1>8. RepliesRise(c)
      /\ (IsReply(m) => \A k \in DDs(c) : IsReply(k) => k.seq < m.seq)
        => RepliesRise(d)
  BY <1>2, <1>3, <1>4, <1>5 DEF RepliesRise
<1> QED BY <1>6, <1>7, <1>8 DEF d

-----------------------------------------------------------------------------
(* The invariant, for a master p and its slave q.  No number on either     *)
(* queue is ahead of the master's; a master in EXCHANGE has discarded all  *)
(* it sent before; what a slave in EXCHANGE will read next is new to it.   *)

Leading == {p \in Pair : p[1] > p[2]}

NoneAhead(p, q) ==
  /\ dd[q] = NoDD
  /\ dd[p].seq <= ddSeq[p]
  /\ \A m \in DDs(chan[p]) : m.seq <= ddSeq[p]
  /\ \A m \in DDs(chan[q]) : IsReply(m) => m.seq <= ddSeq[p]
  /\ state[p] >= EX_START => ddSeq[p] > 0

MasterAhead(p, q) ==
  state[p] = EXCHANGE =>
    /\ dd[p].seq = ddSeq[p]
    /\ \A m \in DDs(chan[p]) : m.I # 1
    /\ \A m \in DDs(chan[q]) : IsReply(m) => m.seq = ddSeq[p]
    /\ state[q] = EXCHANGE => ddSeq[p] = ddSeq[q] + 1

SlaveBehind(p, q) ==
  state[q] = EXCHANGE =>
    /\ ddSeq[q] <= ddSeq[p]
    /\ \A m \in DDs(chan[q]) : IsReply(m) => m.seq <= ddSeq[q]
    /\ \A m \in DDs(chan[p]) : m.I # 1 => m.seq # ddSeq[q]
    /\ dd[p] # NoDD => dd[p].seq # ddSeq[q]

(* An initial packet asks for replies the slave has not sent, about        *)
(* packets the master has not sent yet.                                    *)
InitialsAreNew(p, q) ==
  \A k \in DDs(chan[p]) :
    k.I = 1 =>
      /\ \A m \in DDs(chan[q]) : IsReply(m) => m.seq < k.seq
      /\ \A m \in DDs(chan[p]) : m.I # 1 => m.seq # k.seq
      /\ dd[p] # NoDD => dd[p].seq # k.seq

Locked(p, q) ==
  /\ NoneAhead(p, q)
  /\ MasterAhead(p, q)
  /\ SlaveBehind(p, q)
  /\ InitialsAreNew(p, q)
  /\ InitialsRise(chan[p])
  /\ RepliesRise(chan[q])

Lockstep == \A p \in Leading : Locked(p, Reverse(p))

-----------------------------------------------------------------------------
(* What one step may do to what x keeps of a neighbour and to the packets  *)
(* it sends there.                                                         *)

AddsNoDD(x) ==
  /\ DDs(chan'[x]) \subseteq DDs(chan[x])
  /\ InitialsRise(chan[x]) => InitialsRise(chan'[x])
  /\ RepliesRise(chan[x]) => RepliesRise(chan'[x])

AddsDD(x, m) ==
  /\ DDs(chan'[x]) \subseteq DDs(chan[x]) \cup {m}
  /\ InitialsRise(chan[x]) /\ (m.I = 1 => \A k \in DDs(chan[x]) : k.seq < m.seq)
       => InitialsRise(chan'[x])
  /\ RepliesRise(chan[x])
     /\ (IsReply(m) => \A k \in DDs(chan[x]) : IsReply(k) => k.seq < m.seq)
       => RepliesRise(chan'[x])

(* A reply may come after an initial packet of the slave's own.            *)
AddsReply(x, seq) ==
  /\ \A k \in DDs(chan'[x]) : IsReply(k) => k \in DDs(chan[x]) \/ k.seq = seq
  /\ RepliesRise(chan[x])
     /\ (\A k \in DDs(chan[x]) : IsReply(k) => k.seq < seq)
       => RepliesRise(chan'[x])

Stays(x) ==
  /\ dd'[x] \in {dd[x], NoDD}
  /\ ddSeq'[x] >= ddSeq[x]
  /\ state'[x] >= EX_START => state[x] >= EX_START \/ ddSeq'[x] > 0
  /\ state'[x] = EXCHANGE =>
       state[x] = EXCHANGE /\ ddSeq'[x] = ddSeq[x] /\ dd'[x] = dd[x]

Calm(x) == Stays(x) /\ AddsNoDD(x)

Opens(x) ==
  /\ Stays(x)
  /\ state'[x] # EXCHANGE
  /\ ddSeq'[x] > ddSeq[x]
  /\ AddsDD(x, InitialDD(ddSeq'[x]))

Repeats(x) ==
  /\ dd[x] # NoDD
  /\ state'[x] = state[x] /\ ddSeq'[x] = ddSeq[x] /\ dd'[x] = dd[x]
  /\ AddsDD(x, DD(0, 1, dd[x].seq, dd[x].headers))

Takes(y) ==
  /\ chan[y] # <<>>
  /\ Head(chan[y]).type = "DD"
  /\ chan'[y] = Tail(chan[y])

EntersAsMaster(x, y) ==
  /\ Takes(y)
  /\ x[1] > x[2]
  /\ state[x] = EX_START /\ state'[x] = EXCHANGE
  /\ IsReply(Head(chan[y])) /\ Head(chan[y]).seq = ddSeq[x]
  /\ ddSeq'[x] = IncDDseq(ddSeq[x])
  /\ \E h : /\ dd'[x] = [seq |-> ddSeq'[x], headers |-> h]
            /\ AddsDD(x, DD(0, 1, ddSeq'[x], h))

EntersAsSlave(x, y) ==
  /\ Takes(y)
  /\ x[1] < x[2]
  /\ state'[x] = EXCHANGE
  /\ Head(chan[y]).I = 1
  /\ ddSeq'[x] = Head(chan[y]).seq
  /\ dd'[x] \in {dd[x], NoDD}
  /\ AddsReply(x, ddSeq'[x])

Answers(x, y) ==
  /\ Takes(y)
  /\ x[1] < x[2]
  /\ state[x] = EXCHANGE /\ state'[x] # EXCHANGE
  /\ Head(chan[y]).I = 0 /\ Head(chan[y]).seq > ddSeq[x]
  /\ dd'[x] \in {dd[x], NoDD}
  /\ AddsReply(x, Head(chan[y]).seq)

(* The types the arguments about numbers need.                             *)
Numbered ==
  /\ state \in [Pair -> DOWN..FULL] /\ state' \in [Pair -> DOWN..FULL]
  /\ ddSeq \in [Pair -> Nat] /\ ddSeq' \in [Pair -> Nat]
  /\ \A x \in Pair : dd[x].seq \in Nat /\ dd'[x].seq \in Nat
  /\ \A x \in Pair : \A m \in DDs(chan[x]) \cup DDs(chan'[x]) :
       m.seq \in Nat /\ m.I \in {0, 1}
  /\ now \in Nat

LEMMA NumbersTyped == TypeOK /\ TypeOK' => Numbered
<1> SUFFICES ASSUME TypeOK, TypeOK' PROVE Numbered
  OBVIOUS
<1>1. \A c \in Seq(Message) : \A m \in DDs(c) : m.seq \in Nat /\ m.I \in {0, 1}
  <2> SUFFICES ASSUME NEW c \in Seq(Message), NEW i \in DOMAIN c, c[i].type = "DD"
               PROVE  c[i].seq \in Nat /\ c[i].I \in {0, 1}
    BY DEF DDs
  <2>1. c[i] \in Message
    OBVIOUS
  <2> QED BY <2>1, TypeOfDD
<1>2. /\ chan \in [Pair -> Seq(Message)] /\ chan' \in [Pair -> Seq(Message)]
      /\ dd \in [Pair -> [seq : Nat, headers : Database]]
      /\ dd' \in [Pair -> [seq : Nat, headers : Database]]
  BY DEF TypeOK
<1>3. \A x \in Pair : \A m \in DDs(chan[x]) \cup DDs(chan'[x]) :
        m.seq \in Nat /\ m.I \in {0, 1}
  BY <1>1, <1>2
<1>4. \A x \in Pair : dd[x].seq \in Nat /\ dd'[x].seq \in Nat
  BY <1>2
<1> QED BY <1>3, <1>4 DEF Numbered, TypeOK

LEMMA CalmKeepsLock ==
  ASSUME Numbered, NEW p \in Pair, NEW q \in Pair, Locked(p, q), Calm(p), Calm(q)
  PROVE  Locked(p, q)'
<1>1. NoneAhead(p, q)'
  BY DEF Locked, NoneAhead, Calm, Stays, AddsNoDD, Numbered, NoDD
<1>2. MasterAhead(p, q)'
  BY DEF Locked, MasterAhead, Calm, Stays, AddsNoDD, Numbered
<1>3. SlaveBehind(p, q)'
  BY DEF Locked, SlaveBehind, Calm, Stays, AddsNoDD, Numbered
<1>4. InitialsAreNew(p, q)'
  BY DEF Locked, InitialsAreNew, Calm, Stays, AddsNoDD, Numbered
<1>5. (InitialsRise(chan[p]) /\ RepliesRise(chan[q]))'
  BY DEF Locked, Calm, AddsNoDD
<1> QED BY <1>1, <1>2, <1>3, <1>4, <1>5 DEF Locked

LEMMA MasterOpens ==
  ASSUME Numbered, NEW p \in Pair, NEW q \in Pair, Locked(p, q), Opens(p), Calm(q)
  PROVE  Locked(p, q)'
<1>1. /\ InitialDD(ddSeq'[p]).I = 1 /\ InitialDD(ddSeq'[p]).MS = 1
      /\ InitialDD(ddSeq'[p]).seq = ddSeq'[p]
  BY DEF InitialDD, DD
<1>2. NoneAhead(p, q)'
  BY <1>1 DEF Locked, NoneAhead, Calm, Opens, Stays, AddsNoDD, AddsDD, Numbered, NoDD
<1>3. MasterAhead(p, q)'
  BY DEF MasterAhead, Opens
<1>4. SlaveBehind(p, q)'
  BY <1>1 DEF Locked, SlaveBehind, Calm, Opens, Stays, AddsNoDD, AddsDD, Numbered
<1>5. InitialsAreNew(p, q)'
  BY <1>1 DEF Locked, NoneAhead, InitialsAreNew, Calm, Opens, Stays, AddsNoDD,
     AddsDD, Numbered
<1>6. InitialsRise(chan'[p])
  BY <1>1 DEF Locked, NoneAhead, Opens, AddsDD, Numbered
<1>7. RepliesRise(chan'[q])
  BY DEF Locked, Calm, AddsNoDD
<1> QED BY <1>2, <1>3, <1>4, <1>5, <1>6, <1>7 DEF Locked

LEMMA SlaveOpens ==
  ASSUME Numbered, NEW p \in Pair, NEW q \in Pair, Locked(p, q), Calm(p), Opens(q)
  PROVE  Locked(p, q)'
<1>1. ~IsReply(InitialDD(ddSeq'[q]))
  BY DEF InitialDD, DD, IsReply
<1>2. /\ \A m \in DDs(chan'[q]) : IsReply(m) => m \in DDs(chan[q])
      /\ RepliesRise(chan'[q])
  BY <1>1 DEF Opens, AddsDD, Locked
<1>3. NoneAhead(p, q)'
  BY <1>2 DEF Locked, NoneAhead, Calm, Opens, Stays, AddsNoDD, Numbered, NoDD
<1>4. MasterAhead(p, q)'
  BY <1>2 DEF Locked, MasterAhead, Calm, Opens, Stays, AddsNoDD, Numbered
<1>5. SlaveBehind(p, q)'
  BY DEF SlaveBehind, Opens
<1>6. InitialsAreNew(p, q)'
  BY <1>2 DEF Locked, InitialsAreNew, Calm, Stays, AddsNoDD, Numbered
<1>7. InitialsRise(chan'[p])
  BY DEF Locked, Calm, AddsNoDD
<1> QED BY <1>2, <1>3, <1>4, <1>5, <1>6, <1>7 DEF Locked

LEMMA MasterRepeats ==
  ASSUME Numbered, NEW p \in Pair, NEW q \in Pair, Locked(p, q), Repeats(p), Calm(q)
  PROVE  Locked(p, q)'
<1> DEFINE m == DD(0, 1, dd[p].seq, dd[p].headers)
<1>1. m.I = 0 /\ m.seq = dd[p].seq
  BY DEF DD
<1>2. AddsDD(p, m) /\ dd[p] # NoDD
      /\ state'[p] = state[p] /\ ddSeq'[p] = ddSeq[p] /\ dd'[p] = dd[p]
  BY DEF Repeats
<1> HIDE DEF m
<1>3. NoneAhead(p, q)'
  BY <1>1, <1>2 DEF Locked, NoneAhead, Calm, Stays, AddsNoDD, AddsDD, Numbered, NoDD
<1>4. MasterAhead(p, q)'
  BY <1>1, <1>2 DEF Locked, MasterAhead, Calm, Stays, AddsNoDD, AddsDD, Numbered
<1>5. SlaveBehind(p, q)'
  BY <1>1, <1>2 DEF Locked, SlaveBehind, Calm, Stays, AddsNoDD, AddsDD, Numbered
<1>6. InitialsAreNew(p, q)'
  BY <1>1, <1>2 DEF Locked, InitialsAreNew, Calm, Stays, AddsNoDD, AddsDD, Numbered
<1>7. InitialsRise(chan'[p]) /\ RepliesRise(chan'[q])
  BY <1>1, <1>2 DEF Locked, Calm, AddsNoDD, AddsDD
<1> QED BY <1>3, <1>4, <1>5, <1>6, <1>7 DEF Locked

(* The slave repeats nothing, for it keeps no description packet.          *)
LEMMA SlaveNeverRepeats ==
  ASSUME NEW p, NEW q, Locked(p, q)
  PROVE  ~Repeats(q)
BY DEF Locked, NoneAhead, Repeats

(* The reply the master answers to was the last one the slave sent, and    *)
(* was sent to the last initial packet of the master.                      *)
LEMMA MasterEnters ==
  ASSUME Numbered, NEW p \in Pair, NEW q \in Pair, chan[q] \in Seq(Message),
         Locked(p, q), EntersAsMaster(p, q), Stays(q)
  PROVE  Locked(p, q)'
<1> DEFINE m == Head(chan[q])
<1>1. PICK h : /\ dd'[p] = [seq |-> ddSeq'[p], headers |-> h]
               /\ AddsDD(p, DD(0, 1, ddSeq'[p], h))
  BY DEF EntersAsMaster
<1> DEFINE poll == DD(0, 1, ddSeq'[p], h)
<1>2. poll.I = 0 /\ poll.seq = ddSeq'[p] /\ dd'[p].seq = ddSeq'[p]
  BY <1>1 DEF DD
<1>3. /\ m \in DDs(chan[q]) /\ IsReply(m) /\ m.seq = ddSeq[p]
      /\ chan'[q] = Tail(chan[q])
      /\ \A k \in DDs(chan'[q]) :
           k \in DDs(chan[q]) /\ (IsReply(k) => m.seq < k.seq)
      /\ RepliesRise(chan'[q])
  <2>1. chan[q] # <<>> /\ Head(chan[q]).type = "DD" /\ RepliesRise(chan[q])
    BY DEF EntersAsMaster, Takes, Locked
  <2>2. m \in DDs(chan[q])
    BY <2>1, HeadTailProperties DEF DDs
  <2> QED BY <2>1, <2>2, TailOfQueue, BehindReply DEF EntersAsMaster, Takes
<1>4. ddSeq'[p] = ddSeq[p] + 1
  BY DEF EntersAsMaster, Locked, NoneAhead, IncDDseq, Numbered
<1>5. \A k \in DDs(chan'[q]) : ~IsReply(k)
  BY <1>3 DEF Locked, NoneAhead, Numbered
<1>6. \A k \in DDs(chan[p]) : k.I # 1
  <2> SUFFICES ASSUME NEW k \in DDs(chan[p]), k.I = 1 PROVE FALSE
    OBVIOUS
  <2>1. m.seq < k.seq
    BY <1>3 DEF Locked, InitialsAreNew
  <2>2. k.seq <= ddSeq[p] /\ k.seq \in Nat /\ ddSeq[p] \in Nat
    BY DEF Locked, NoneAhead, Numbered
  <2> HIDE DEF m
  <2> QED BY <1>3, <2>1, <2>2
<1>7. state[q] = EXCHANGE => ddSeq[q] = ddSeq[p]
  BY <1>3 DEF Locked, SlaveBehind, Numbered
<1> HIDE DEF m, poll
<1>8. /\ DDs(chan'[p]) \subseteq DDs(chan[p]) \cup {poll}
      /\ InitialsRise(chan'[p])
  BY <1>1, <1>2 DEF AddsDD, Locked, poll
<1>9. /\ \A k \in DDs(chan[p]) : k.seq <= ddSeq[p]
      /\ dd'[q] = NoDD
      /\ state'[q] = EXCHANGE => state[q] = EXCHANGE /\ ddSeq'[q] = ddSeq[q]
  BY DEF Locked, NoneAhead, Stays
<1>10. /\ ddSeq[p] \in Nat /\ ddSeq'[p] \in Nat /\ ddSeq'[q] \in Nat
       /\ \A k \in DDs(chan[p]) : k.seq \in Nat
       /\ \A k \in DDs(chan'[p]) : k \in DDs(chan[p]) \/ k = poll
  BY <1>8 DEF Numbered
<1>11. /\ \A k \in DDs(chan'[p]) : k.seq <= ddSeq'[p]
       /\ \A k \in DDs(chan'[p]) : k.seq > ddSeq[p] \/ k \in DDs(chan[p])
  BY <1>2, <1>4, <1>9, <1>10
<1>12. NoneAhead(p, q)'
  BY <1>2, <1>4, <1>5, <1>9, <1>10, <1>11 DEF NoneAhead
<1>13. MasterAhead(p, q)'
  BY <1>2, <1>4, <1>5, <1>6, <1>7, <1>8, <1>9 DEF MasterAhead, Numbered
<1>14. SlaveBehind(p, q)'
  <2> SUFFICES ASSUME state'[q] = EXCHANGE
               PROVE  /\ ddSeq'[q] <= ddSeq'[p]
                      /\ \A k \in DDs(chan'[p]) : k.I # 1 => k.seq # ddSeq'[q]
                      /\ dd'[p].seq # ddSeq'[q]
    BY <1>5 DEF SlaveBehind
  <2>1. state[q] = EXCHANGE /\ ddSeq'[q] = ddSeq[p]
    BY <1>7, <1>9
  <2>2. \A k \in DDs(chan[p]) : k.seq # ddSeq[q]
    BY <1>6, <2>1 DEF Locked, SlaveBehind
  <2> QED BY <1>2, <1>4, <1>7, <1>9, <1>10, <1>11, <2>1, <2>2
<1>15. InitialsAreNew(p, q)'
  BY <1>2, <1>6, <1>8 DEF InitialsAreNew
<1> QED BY <1>3, <1>8, <1>12, <1>13, <1>14, <1>15 DEF Locked

(* The slave takes up an initial packet: newer than all its replies, and   *)
(* unlike any number the master still asks about.                          *)
LEMMA SlaveEnters ==
  ASSUME Numbered, NEW p \in Pair, NEW q \in Pair, chan[p] \in Seq(Message),
         Locked(p, q), Stays(p), EntersAsSlave(q, p)
  PROVE  Locked(p, q)'
<1> DEFINE m == Head(chan[p])
<1>1. /\ m \in DDs(chan[p]) /\ m.I = 1
      /\ chan'[p] = Tail(chan[p])
      /\ \A k \in DDs(chan'[p]) :
           k \in DDs(chan[p]) /\ (k.I = 1 => m.seq < k.seq)
      /\ InitialsRise(chan'[p])
  <2>1. chan[p] # <<>> /\ Head(chan[p]).type = "DD" /\ InitialsRise(chan[p])
    BY DEF EntersAsSlave, Takes, Locked
  <2> QED BY <2>1, TailOfQueue, BehindHead DEF EntersAsSlave, Takes
<1>2. /\ ddSeq'[q] = m.seq /\ state'[q] = EXCHANGE
      /\ \A k \in DDs(chan'[q]) :
           IsReply(k) => k \in DDs(chan[q]) \/ k.seq = m.seq
  BY DEF EntersAsSlave, AddsReply
<1>3. /\ \A k \in DDs(chan[q]) : IsReply(k) => k.seq < m.seq
      /\ \A k \in DDs(chan[p]) : k.I # 1 => k.seq # m.seq
      /\ dd[p] # NoDD => dd[p].seq # m.seq
      /\ m.seq <= ddSeq[p] /\ m.seq \in Nat
  BY <1>1 DEF Locked, InitialsAreNew, NoneAhead, Numbered
<1>4. RepliesRise(chan'[q])
  BY <1>3 DEF EntersAsSlave, AddsReply, Locked
<1>5. state[p] # EXCHANGE
  BY <1>1 DEF Locked, MasterAhead
<1> HIDE DEF m
<1>6. \A k \in DDs(chan'[q]) : IsReply(k) => k.seq <= m.seq
  <2>1. \A k \in DDs(chan'[q]) : k.seq \in Nat
    BY DEF Numbered
  <2>2. m.seq \in Nat
    BY <1>2, <1>3
  <2> QED BY <1>2, <1>3, <2>1, <2>2
<1>7. NoneAhead(p, q)'
  <2>1. dd'[q] = NoDD /\ dd'[p].seq <= ddSeq'[p]
    BY DEF Locked, NoneAhead, EntersAsSlave, Stays, Numbered, NoDD
  <2>2. ddSeq[p] <= ddSeq'[p] /\ ddSeq[p] \in Nat /\ ddSeq'[p] \in Nat
    BY DEF Stays, Numbered
  <2>3. \A k \in DDs(chan'[p]) : k.seq <= ddSeq'[p]
    BY <1>1, <2>2 DEF Locked, NoneAhead, Numbered
  <2>4. \A k \in DDs(chan'[q]) : IsReply(k) => k.seq <= ddSeq'[p]
    BY <1>3, <1>6, <2>2 DEF Numbered
  <2>5. state'[p] >= EX_START => ddSeq'[p] > 0
    BY <2>2 DEF Locked, NoneAhead, Stays
  <2> QED BY <2>1, <2>3, <2>4, <2>5 DEF NoneAhead
<1>8. MasterAhead(p, q)'
  BY <1>5 DEF MasterAhead, Stays
<1>9. SlaveBehind(p, q)'
  BY <1>1, <1>2, <1>3, <1>6 DEF SlaveBehind, Stays, Numbered
<1>10. InitialsAreNew(p, q)'
  <2> SUFFICES ASSUME NEW k \in DDs(chan'[p]), k.I = 1
               PROVE  /\ \A j \in DDs(chan'[q]) : IsReply(j) => j.seq < k.seq
                      /\ \A j \in DDs(chan'[p]) : j.I # 1 => j.seq # k.seq
                      /\ dd'[p] # NoDD => dd'[p].seq # k.seq
    BY DEF InitialsAreNew
  <2>1. k \in DDs(chan[p]) /\ m.seq < k.seq /\ k.seq \in Nat
    BY <1>1 DEF Numbered
  <2>2. \A j \in DDs(chan'[q]) : IsReply(j) => j.seq < k.seq
    BY <1>3, <1>6, <2>1 DEF Numbered
  <2> QED BY <1>1, <2>1, <2>2 DEF Locked, InitialsAreNew, Stays
<1> QED BY <1>1, <1>4, <1>7, <1>8, <1>9, <1>10 DEF Locked

(* The slave answers the poll it awaits and leaves EXCHANGE.               *)
LEMMA SlaveAnswers ==
  ASSUME Numbered, NEW p \in Pair, NEW q \in Pair, chan[p] \in Seq(Message),
         Locked(p, q), Stays(p), Answers(q, p)
  PROVE  Locked(p, q)'
<1> DEFINE m == Head(chan[p])
<1>1. /\ m \in DDs(chan[p]) /\ m.I = 0
      /\ chan'[p] = Tail(chan[p])
      /\ \A k \in DDs(chan'[p]) :
           k \in DDs(chan[p]) /\ (k.I = 1 => m.seq < k.seq)
      /\ InitialsRise(chan'[p])
  <2>1. chan[p] # <<>> /\ Head(chan[p]).type = "DD" /\ InitialsRise(chan[p])
    BY DEF Answers, Takes, Locked
  <2> QED BY <2>1, TailOfQueue, BehindHead DEF Answers, Takes
<1>2. /\ state[q] = EXCHANGE /\ state'[q] # EXCHANGE
      /\ m.seq > ddSeq[q] /\ m.seq \in Nat /\ m.seq <= ddSeq[p]
      /\ \A k \in DDs(chan'[q]) :
           IsReply(k) => k \in DDs(chan[q]) \/ k.seq = m.seq
  BY <1>1 DEF Answers, AddsReply, Locked, NoneAhead, Numbered
<1>3. \A k \in DDs(chan[q]) : IsReply(k) => k.seq < m.seq
  BY <1>2 DEF Locked, SlaveBehind, Numbered
<1>4. RepliesRise(chan'[q])
  BY <1>3 DEF Answers, AddsReply, Locked
<1> HIDE DEF m
<1>5. \A k \in DDs(chan'[q]) : IsReply(k) => k.seq <= m.seq
  <2>1. \A k \in DDs(chan'[q]) : k.seq \in Nat
    BY DEF Numbered
  <2>2. m.seq \in Nat
    BY <1>2, <1>3
  <2> QED BY <1>2, <1>3, <2>1, <2>2
<1>6. NoneAhead(p, q)'
  <2>1. dd'[q] = NoDD /\ dd'[p].seq <= ddSeq'[p]
    BY DEF Locked, NoneAhead, Answers, Stays, Numbered, NoDD
  <2>2. ddSeq[p] <= ddSeq'[p] /\ ddSeq[p] \in Nat /\ ddSeq'[p] \in Nat
    BY DEF Stays, Numbered
  <2>3. \A k \in DDs(chan'[p]) : k.seq <= ddSeq'[p]
    BY <1>1, <2>2 DEF Locked, NoneAhead, Numbered
  <2>4. \A k \in DDs(chan'[q]) : IsReply(k) => k.seq <= ddSeq'[p]
    BY <1>2, <1>5, <2>2 DEF Numbered
  <2>5. state'[p] >= EX_START => ddSeq'[p] > 0
    BY <2>2 DEF Locked, NoneAhead, Stays
  <2> QED BY <2>1, <2>3, <2>4, <2>5 DEF NoneAhead
<1>7. MasterAhead(p, q)'
  <2> SUFFICES ASSUME state'[p] = EXCHANGE
               PROVE  /\ dd'[p].seq = ddSeq'[p]
                      /\ \A k \in DDs(chan'[p]) : k.I # 1
                      /\ \A k \in DDs(chan'[q]) : IsReply(k) => k.seq = ddSeq'[p]
    BY <1>2 DEF MasterAhead
  <2>1. /\ state[p] = EXCHANGE /\ ddSeq'[p] = ddSeq[p] /\ dd'[p] = dd[p]
        /\ ddSeq[p] = ddSeq[q] + 1
    BY <1>2 DEF Stays, Locked, MasterAhead
  <2>2. m.seq = ddSeq[p]
    BY <1>2, <2>1 DEF Numbered
  <2> QED BY <1>1, <1>2, <2>1, <2>2 DEF Locked, MasterAhead
<1>8. SlaveBehind(p, q)'
  BY <1>2 DEF SlaveBehind
<1>9. InitialsAreNew(p, q)'
  <2> SUFFICES ASSUME NEW k \in DDs(chan'[p]), k.I = 1
               PROVE  /\ \A j \in DDs(chan'[q]) : IsReply(j) => j.seq < k.seq
                      /\ \A j \in DDs(chan'[p]) : j.I # 1 => j.seq # k.seq
                      /\ dd'[p] # NoDD => dd'[p].seq # k.seq
    BY DEF InitialsAreNew
  <2>1. k \in DDs(chan[p]) /\ m.seq < k.seq /\ k.seq \in Nat
    BY <1>1 DEF Numbered
  <2>2. \A j \in DDs(chan'[q]) : IsReply(j) => j.seq < k.seq
    BY <1>2, <1>5, <2>1 DEF Numbered
  <2> QED BY <1>1, <2>1, <2>2 DEF Locked, InitialsAreNew, Stays
<1> QED BY <1>1, <1>4, <1>6, <1>7, <1>8, <1>9 DEF Locked

-----------------------------------------------------------------------------
(* A step is one of these at one neighbour, and calm at all others.        *)

Moves(x, y) ==
  \/ Calm(x)
  \/ Opens(x)
  \/ Repeats(x)
  \/ EntersAsMaster(x, y)
  \/ EntersAsSlave(x, y)
  \/ Answers(x, y)

Elsewhere(x) == \A o \in Pair : o # x => Calm(o)

LEMMA LockKept ==
  ASSUME TypeOK, TypeOK', Lockstep,
         NEW x \in Pair, Moves(x, Reverse(x)), Elsewhere(x)
  PROVE  Lockstep'
<1> SUFFICES ASSUME NEW p \in Leading PROVE Locked(p, Reverse(p))'
  BY DEF Lockstep, Reverse
<1> DEFINE q == Reverse(p)
<1>1. /\ p \in Pair /\ q \in Pair /\ p # q /\ Reverse(q) = p
      /\ p[1] > p[2] /\ q[2] = p[1] /\ q[1] = p[2] /\ p[1] \in Nat /\ p[2] \in Nat
  BY PairIsTuple, PairReverse, PairType DEF Leading, Reverse
<1>2. Locked(p, q) /\ Numbered /\ chan[p] \in Seq(Message) /\ chan[q] \in Seq(Message)
  BY <1>1, NumbersTyped DEF Lockstep, TypeOK
<1>3. \A o \in {p, q} : o # x => Calm(o) /\ Stays(o)
  BY <1>1 DEF Elsewhere, Calm
<1> HIDE DEF q
<1>4. CASE x # p /\ x # q
  BY <1>1, <1>2, <1>3, <1>4, CalmKeepsLock DEF q
<1>5. CASE x = p
  <2>1. Calm(q) /\ Stays(q) /\ Moves(p, q)
    BY <1>1, <1>3, <1>5 DEF q
  <2>2. ~EntersAsSlave(p, q) /\ ~Answers(p, q)
    BY <1>1 DEF EntersAsSlave, Answers
  <2>3. Locked(p, q)'
    BY <1>1, <1>2, <2>1, <2>2, CalmKeepsLock, MasterOpens, MasterRepeats,
       MasterEnters DEF Moves
  <2> QED BY <2>3 DEF q
<1>6. CASE x = q
  <2>1. Calm(p) /\ Stays(p) /\ Moves(q, p)
    BY <1>1, <1>3, <1>6
  <2>2. ~EntersAsMaster(q, p) /\ ~Repeats(q)
    BY <1>1, <1>2, SlaveNeverRepeats DEF EntersAsMaster
  <2>3. Locked(p, q)'
    BY <1>1, <1>2, <2>1, <2>2, CalmKeepsLock, SlaveOpens, SlaveEnters,
       SlaveAnswers DEF Moves
  <2> QED BY <2>3 DEF q
<1> QED BY <1>4, <1>5, <1>6

-----------------------------------------------------------------------------
(* What the handlers send.                                                 *)

Plains == [Pair -> Seq(Plain)]

LEMMA PlainMessages ==
  /\ Hello \in Plain
  /\ \A ids \in SUBSET Router : Request(ids) \in Plain
  /\ \A lsas \in Database : Update(lsas) \in Plain
  /\ \A a \in Router : Ack(a) \in Plain
<1>1. /\ Hello.type = "HELLO"
      /\ \A ids : Request(ids).type = "REQUEST"
      /\ \A lsas : Update(lsas).type = "UPDATE"
      /\ \A a : Ack(a).type = "ACK"
  BY DEF Hello, Request, Update, Ack
<1> QED BY <1>1, MessageMade DEF Plain

LEMMA PlainOutput ==
  /\ Silent \in Plains
  /\ \A p : \A msgs \in Seq(Plain) : To(p, msgs) \in Plains
  /\ \A p : \A m \in Plain : To(p, <<m>>) \in Plains
  /\ \A P : \A m \in Plain : ToEach(P, m) \in Plains
<1>1. Silent \in Plains
  BY DEF Plains, Silent
<1>2. ASSUME NEW p, NEW msgs \in Seq(Plain) PROVE To(p, msgs) \in Plains
  BY <1>1, <1>2 DEF Plains, To
<1>3. \A m \in Plain : <<m>> \in Seq(Plain) /\ <<>> \in Seq(Plain)
  OBVIOUS
<1>4. ASSUME NEW P, NEW m \in Plain PROVE ToEach(P, m) \in Plains
  BY <1>3, <1>4, Zenon DEF Plains, ToEach
<1> QED BY <1>1, <1>2, <1>3, <1>4, Zenon

LEMMA OnlyTo ==
  ASSUME NEW p \in Pair, NEW msgs
  PROVE  /\ To(p, msgs)[p] = msgs
         /\ \A o \in Pair : o # p => To(p, msgs)[o] = <<>>
BY DEF To, Silent

(* What a step leaves on a link before it sends.                           *)
Left(q, o) == IF o = q THEN Tail(chan[o]) ELSE chan[o]

LEMMA LeftOnLink ==
  ASSUME TypeOK, NEW q, q \in Pair => chan[q] # <<>>, NEW o \in Pair
  PROVE  /\ Left(q, o) \in Seq(Message)
         /\ DDs(Left(q, o)) \subseteq DDs(chan[o])
         /\ InitialsRise(chan[o]) => InitialsRise(Left(q, o))
         /\ RepliesRise(chan[o]) => RepliesRise(Left(q, o))
<1>1. chan[o] \in Seq(Message)
  BY DEF TypeOK
<1>2. CASE o = q
  BY <1>1, <1>2, TailOfQueue DEF Left
<1>3. CASE o # q
  BY <1>1, <1>3 DEF Left
<1> QED BY <1>2, <1>3

LEMMA SendsPlain ==
  ASSUME TypeOK, NEW q, q \in Pair => chan[q] # <<>>, NEW out, Transmit(q, out),
         NEW o \in Pair, out[o] \in Seq(Plain)
  PROVE  AddsNoDD(o)
<1>1. chan'[o] = Left(q, o) \o out[o]
  BY DEF Transmit, Left
<1> QED BY <1>1, LeftOnLink, PlainAdded DEF AddsNoDD

LEMMA SendsDD ==
  ASSUME TypeOK, NEW q, q \in Pair => chan[q] # <<>>, NEW out, Transmit(q, out),
         NEW o \in Pair, NEW m \in Message, out[o] = <<m>>
  PROVE  AddsDD(o, m)
<1> DEFINE c == Left(q, o)
<1>1. chan'[o] = c \o <<m>>
  BY DEF Transmit, Left
<1>2. /\ c \in Seq(Message) /\ DDs(c) \subseteq DDs(chan[o])
      /\ InitialsRise(chan[o]) => InitialsRise(c)
      /\ RepliesRise(chan[o]) => RepliesRise(c)
  BY LeftOnLink
<1> HIDE DEF c
<1>3. chan'[o] = Append(c, m)
  BY <1>1, <1>2, AppendIsConcat
<1> QED BY <1>2, <1>3, DDAdded DEF AddsDD

(* A reply, after an initial packet or before a request.                   *)
LEMMA SendsReply ==
  ASSUME TypeOK, NEW q, q \in Pair => chan[q] # <<>>, NEW out, Transmit(q, out),
         NEW o \in Pair, NEW m \in Message, NEW i \in Message,
         NEW ask \in Seq(Plain),
         ~IsReply(i),
         out[o] \in {<<m>>, <<i, m>>, <<m>> \o ask}
  PROVE  AddsReply(o, m.seq)
<1> DEFINE c == Left(q, o)
<1>1. chan'[o] = c \o out[o]
  BY DEF Transmit, Left
<1>2. /\ c \in Seq(Message) /\ DDs(c) \subseteq DDs(chan[o])
      /\ RepliesRise(chan[o]) => RepliesRise(c)
  BY LeftOnLink
<1> HIDE DEF c
<1>3. /\ Append(c, m) \in Seq(Message)
      /\ DDs(Append(c, m)) \subseteq DDs(c) \cup {m}
      /\ RepliesRise(c) /\ (\A k \in DDs(c) : IsReply(k) => k.seq < m.seq)
           => RepliesRise(Append(c, m))
  BY <1>2, DDAdded, AppendProperties
<1>4. CASE out[o] = <<m>>
  <2>1. chan'[o] = Append(c, m)
    BY <1>1, <1>2, <1>4, AppendIsConcat
  <2> QED BY <1>2, <1>3, <2>1 DEF AddsReply
<1>5. CASE out[o] = <<i, m>>
  <2> DEFINE d == Append(c, i)
  <2>1. /\ d \in Seq(Message) /\ DDs(d) \subseteq DDs(c) \cup {i}
        /\ RepliesRise(c) => RepliesRise(d)
    BY <1>2, DDAdded, AppendProperties
  <2>2. chan'[o] = Append(d, m)
    <3>1. <<i, m>> = <<i>> \o <<m>> /\ <<i>> \in Seq(Message) /\ <<m>> \in Seq(Message)
      OBVIOUS
    <3>2. (c \o <<i>>) \o <<m>> = c \o (<<i>> \o <<m>>)
      BY <1>2, <3>1, ConcatAssociative
    <3>3. (c \o <<i>>) \o <<m>> = c \o <<i, m>>
      BY <3>1, <3>2, Zenon
    <3> QED BY <1>1, <1>2, <1>5, <2>1, <3>3, AppendIsConcat
  <2> HIDE DEF d
  <2>3. /\ DDs(Append(d, m)) \subseteq DDs(d) \cup {m}
        /\ RepliesRise(d) /\ (\A k \in DDs(d) : IsReply(k) => k.seq < m.seq)
             => RepliesRise(Append(d, m))
    BY <2>1, DDAdded
  <2> QED BY <1>2, <2>1, <2>2, <2>3 DEF AddsReply
<1>6. CASE out[o] = <<m>> \o ask
  <2>1. ask \in Seq(Message)
    BY DEF Plain
  <2>2. chan'[o] = Append(c, m) \o ask
    <3>1. <<m>> \in Seq(Message)
      OBVIOUS
    <3>2. (c \o <<m>>) \o ask = c \o (<<m>> \o ask)
      BY <1>2, <2>1, <3>1, ConcatAssociative
    <3> QED BY <1>1, <1>2, <1>6, <3>2, AppendIsConcat
  <2>3. /\ DDs(chan'[o]) = DDs(Append(c, m))
        /\ RepliesRise(Append(c, m)) => RepliesRise(chan'[o])
    BY <1>3, <2>2, PlainAdded
  <2> QED BY <1>2, <1>3, <2>3 DEF AddsReply
<1> QED BY <1>4, <1>5, <1>6

LEMMA TransmitCalm ==
  ASSUME TypeOK, NEW q, q \in Pair => chan[q] # <<>>, NEW out \in Plains,
         Transmit(q, out)
  PROVE  \A o \in Pair : AddsNoDD(o)
BY SendsPlain DEF Plains

LEMMA ToCalmElsewhere ==
  ASSUME TypeOK, NEW q, q \in Pair => chan[q] # <<>>, NEW p \in Pair, NEW msgs,
         Transmit(q, To(p, msgs))
  PROVE  \A o \in Pair : o # p => AddsNoDD(o)
<1> SUFFICES ASSUME NEW o \in Pair, o # p PROVE AddsNoDD(o)
  OBVIOUS
<1>1. To(p, msgs)[o] \in Seq(Plain)
  <2>1. <<>> \in Seq(Plain)
    OBVIOUS
  <2>2. To(p, msgs)[o] = <<>>
    BY OnlyTo
  <2> QED BY <2>1, <2>2, Zenon
<1> QED BY <1>1, SendsPlain

LEMMA LinkUnchanged ==
  ASSUME UNCHANGED chan
  PROVE  \A o \in Pair : AddsNoDD(o)
BY DEF AddsNoDD

LEMMA TakenFromLink ==
  ASSUME TypeOK, NEW p \in Pair, NEW q \in Pair, p # q, chan[q] # <<>>,
         NEW msgs, Transmit(q, To(p, msgs))
  PROVE  chan'[q] = Tail(chan[q])
<1>1. chan'[q] = Tail(chan[q]) \o To(p, msgs)[q]
  BY DEF Transmit
<1>2. To(p, msgs)[q] = <<>> /\ Tail(chan[q]) \in Seq(Message)
  BY OnlyTo, TailOfQueue DEF TypeOK
<1> QED BY <1>1, <1>2, ConcatEmptySeq

-----------------------------------------------------------------------------
(* The handlers, as moves.                                                 *)


ExchangeTypes ==
  /\ state \in [Pair -> DOWN..FULL]
  /\ ddSeq \in [Pair -> Nat]
  /\ dd \in [Pair -> [seq : Nat, headers : Database]]
  /\ now \in Nat

Same(o) == state'[o] = state[o] /\ ddSeq'[o] = ddSeq[o] /\ dd'[o] = dd[o]

LEMMA SameStays ==
  ASSUME ExchangeTypes, NEW o \in Pair, Same(o)
  PROVE  Stays(o)
BY DEF Same, Stays, ExchangeTypes

AllStay == \A o \in Pair : Stays(o)
AllCalm == \A o \in Pair : Calm(o)

LEMMA IsOpening ==
  ASSUME ExchangeTypes, NEW p \in Pair, NEW seq \in Nat, seq > ddSeq[p],
         state'[p] = EX_START, ddSeq'[p] = seq, dd'[p] \in {dd[p], NoDD},
         AddsDD(p, InitialDD(seq))
  PROVE  Opens(p)
<1>1. ddSeq[p] \in Nat /\ EX_START # EXCHANGE
  BY DEF ExchangeTypes
<1>2. seq >= ddSeq[p] /\ seq > 0
  BY <1>1
<1> QED BY <1>1, <1>2 DEF Opens, Stays

LEMMA IsLeaving ==
  ASSUME ExchangeTypes, NEW p \in Pair, UNCHANGED <<ddSeq, dd>>, NEW s,
         s \in {INIT, state[p]}, state' = [state EXCEPT ![p] = s]
  PROVE  AllStay
<1> SUFFICES ASSUME NEW o \in Pair PROVE Stays(o)
  BY DEF AllStay
<1>1. state'[o] = state[o] \/ state'[o] = INIT
  BY DEF ExchangeTypes
<1>2. ddSeq[o] >= ddSeq[o]
  BY DEF ExchangeTypes
<1> QED BY <1>1, <1>2 DEF Stays

LEMMA IgnoredStays ==
  ASSUME ExchangeTypes, NEW p \in Pair, UNCHANGED <<state, ddSeq>>,
         state[p] <= ATTEMPT, NEW o \in Pair, dd'[o] \in {dd[o], NoDD},
         o = p \/ dd'[o] = dd[o]
  PROVE  Stays(o)
<1>1. CASE o = p
  <2>1. state[p] \in DOWN..FULL /\ ddSeq[p] \in Nat
    BY DEF ExchangeTypes
  <2>2. state'[p] # EXCHANGE /\ ~(state'[p] >= EX_START) /\ ddSeq'[p] >= ddSeq[p]
    BY <2>1
  <2> QED BY <1>1, <2>2 DEF Stays
<1>2. CASE o # p
  BY <1>2, SameStays DEF Same
<1> QED BY <1>1, <1>2

LEMMA PairOfPackets ==
  ASSUME NEW a \in Message, NEW b \in Message
  PROVE  Append(<<>>, b) = <<b>> /\ Append(<<a>>, b) = <<a, b>>
<1> DEFINE s == Append(<<a>>, b)
<1>1. Append(<<>>, b) = <<b>>
  OBVIOUS
<1>2. <<a>> \in Seq(Message) /\ <<a, b>> \in Seq(Message)
  OBVIOUS
<1>3. s \in Seq(Message) /\ Len(s) = 2 /\ s[1] = a /\ s[2] = b
  BY <1>2
<1>4. Len(<<a, b>>) = 2 /\ <<a, b>>[1] = a /\ <<a, b>>[2] = b
  OBVIOUS
<1> HIDE DEF s
<1>5. \A i \in 1..2 : s[i] = <<a, b>>[i]
  BY <1>3, <1>4
<1>6. s = <<a, b>>
  BY <1>2, <1>3, <1>4, <1>5, SeqEqual
<1> QED BY <1>1, <1>6 DEF s

LEMMA RestartOpens ==
  ASSUME TypeOK, ExchangeTypes, NEW r, NEW n, <<r, n>> \in Pair, NEW q,
         q \in Pair => chan[q] # <<>>, Restart(r, n, q)
  PROVE  Opens(<<r, n>>) /\ Elsewhere(<<r, n>>)
<1> DEFINE p == <<r, n>>
           seq == IncDDseq(ddSeq[p])
<1>1. /\ state' = [state EXCEPT ![p] = EX_START]
      /\ ddSeq' = [ddSeq EXCEPT ![p] = seq]
      /\ dd' = [dd EXCEPT ![p] = NoDD]
      /\ Transmit(q, To(p, <<InitialDD(seq)>>))
  BY DEF Restart, CancelUnacked
<1>2. seq \in Nat /\ seq > ddSeq[p]
  BY DEF ExchangeTypes, IncDDseq
<1>3. InitialDD(seq) \in Message
  BY <1>2, MessageMade
<1> HIDE DEF seq
<1>4. AddsDD(p, InitialDD(seq))
  BY <1>1, <1>3, OnlyTo, SendsDD
<1>5. Opens(p)
  <2>1. state'[p] = EX_START /\ ddSeq'[p] = seq /\ dd'[p] = NoDD
    BY <1>1 DEF ExchangeTypes
  <2> QED BY <1>2, <1>4, <2>1, IsOpening
<1>6. Elsewhere(p)
  <2> SUFFICES ASSUME NEW o \in Pair, o # p PROVE Calm(o)
    BY DEF Elsewhere
  <2>1. Same(o)
    BY <1>1 DEF Same, ExchangeTypes
  <2> QED BY <1>1, <2>1, SameStays, ToCalmElsewhere DEF Calm
<1> QED BY <1>5, <1>6

LEMMA NextOwnPlain ==
  ASSUME TypeOK, NEW r \in Router, NEW P
  PROVE  ToEach(P, Update(Only(r, NextOwn(r)))) \in Plains
BY NextOwnType, PlainMessages, PlainOutput

LEMMA HelloMoves ==
  ASSUME TypeOK, ExchangeTypes, NEW r, NEW n, <<r, n>> \in Pair,
         ReceiveHelloTwoWay(r, n) \/ ReceiveHelloOneWay(r, n)
  PROVE  AllCalm \/ (Opens(<<r, n>>) /\ Elsewhere(<<r, n>>))
<1> DEFINE p == <<r, n>>
           flood == ToEach(UpFlood(r, n), Update(Only(r, NextOwn(r))))
           first == IncDDseq(ddSeq[p])
           starts == state[p] <= INIT
           out == [q \in Pair |-> IF q = p /\ starts
                                  THEN <<InitialDD(first)>> ELSE flood[q]]
<1>1. flood \in Plains /\ chan[<<n, r>>] # <<>> /\ UNCHANGED dd
  BY NextOwnPlain, PairType DEF ReceiveHelloTwoWay, ReceiveHelloOneWay, Arrived, HeardFrom
<1>2. CASE ReceiveHelloTwoWay(r, n) /\ starts
  <2>1. /\ state' = [state EXCEPT ![p] = EX_START]
        /\ ddSeq' = [ddSeq EXCEPT ![p] = first]
        /\ Transmit(<<n, r>>, out)
    BY <1>2 DEF ReceiveHelloTwoWay
  <2>2. first \in Nat /\ first > ddSeq[p]
    BY DEF ExchangeTypes, IncDDseq
  <2>3. InitialDD(first) \in Message
    BY <2>2, MessageMade
  <2>4. /\ out[p] = <<InitialDD(first)>>
        /\ \A o \in Pair : o # p => out[o] = flood[o]
    BY <1>2
  <2> HIDE DEF out, first, flood
  <2>5. AddsDD(p, InitialDD(first))
    BY <1>1, <2>1, <2>3, <2>4, SendsDD
  <2>6. Opens(p)
    <3>1. state'[p] = EX_START /\ ddSeq'[p] = first
      BY <2>1 DEF ExchangeTypes
    <3> QED BY <1>1, <2>2, <2>5, <3>1, IsOpening
  <2>7. Elsewhere(p)
    <3> SUFFICES ASSUME NEW o \in Pair, o # p PROVE Calm(o)
      BY DEF Elsewhere
    <3>1. Same(o)
      BY <1>1, <2>1 DEF Same, ExchangeTypes
    <3>2. out[o] \in Seq(Plain)
      BY <1>1, <2>4 DEF Plains
    <3> QED BY <1>1, <2>1, <3>1, <3>2, SameStays, SendsPlain DEF Calm
  <2> QED BY <2>6, <2>7
<1>3. CASE ReceiveHelloTwoWay(r, n) /\ ~starts
  <2>1. /\ UNCHANGED <<state, ddSeq>>
        /\ Transmit(<<n, r>>, out)
    BY <1>3 DEF ReceiveHelloTwoWay
  <2>2. \A o \in Pair : out[o] = flood[o]
    BY <1>3
  <2> HIDE DEF out, flood
  <2> SUFFICES ASSUME NEW o \in Pair PROVE Calm(o)
    BY DEF AllCalm
  <2>3. out[o] \in Seq(Plain)
    BY <1>1, <2>2 DEF Plains
  <2>4. Same(o)
    BY <1>1, <2>1 DEF Same
  <2> QED BY <1>1, <2>1, <2>3, <2>4, SameStays, SendsPlain DEF Calm
<1>4. CASE ReceiveHelloOneWay(r, n)
  <2>1. /\ state' = [state EXCEPT ![p] = INIT] /\ UNCHANGED ddSeq
        /\ Transmit(<<n, r>>, flood)
    BY <1>4 DEF ReceiveHelloOneWay
  <2> HIDE DEF flood
  <2>2. AllStay
    BY <1>1, <2>1, IsLeaving
  <2> QED BY <1>1, <2>1, <2>2, TransmitCalm DEF AllStay, AllCalm, Calm
<1> QED BY <1>2, <1>3, <1>4

(* What the branches of receiveDD share.                                   *)
LEMMA DDTaken ==
  ASSUME TypeOK, NEW r, NEW n, <<r, n>> \in Pair, AcceptDD(r, n)
  PROVE  LET m == Head(chan[<<n, r>>]) IN
         /\ <<n, r>> \in Pair /\ <<n, r>> # <<r, n>>
         /\ Reverse(<<r, n>>) = <<n, r>>
         /\ chan[<<n, r>>] # <<>>
         /\ m \in DDs(chan[<<n, r>>]) /\ m.type = "DD" /\ m \in Message
         /\ m.seq \in Nat /\ m.I \in {0, 1} /\ m.MS \in {0, 1}
<1>1. <<n, r>> \in Pair /\ <<n, r>> # <<r, n>> /\ Reverse(<<r, n>>) = <<n, r>>
  BY PairReverse DEF Reverse
<1>2. chan[<<n, r>>] # <<>> /\ Head(chan[<<n, r>>]).type = "DD"
  BY DEF AcceptDD, Arrived
<1>3. Head(chan[<<n, r>>]) \in DDs(chan[<<n, r>>])
  <2>1. chan[<<n, r>>] \in Seq(Message)
    BY <1>1 DEF TypeOK
  <2> QED BY <1>2, <2>1, HeadTailProperties DEF DDs
<1> QED BY <1>1, <1>2, <1>3, DDFacts

LEMMA SlaveNegotiates ==
  ASSUME TypeOK, ExchangeTypes, NEW r, NEW n, <<r, n>> \in Pair,
         NegotiateAsSlave(r, n)
  PROVE  EntersAsSlave(<<r, n>>, <<n, r>>) /\ Elsewhere(<<r, n>>)
<1> DEFINE p == <<r, n>>
           q == <<n, r>>
           m == Head(chan[q])
           reply == DD(0, 0, m.seq, lsdb[r])
           start == InitialDD(StartSeq(p))
           msgs == Append(StartDD(p), reply)
<1>1. AcceptDD(r, n) /\ Negotiating(r, n)
  BY DEF NegotiateAsSlave, Negotiating
<1>2. /\ q \in Pair /\ q # p /\ chan[q] # <<>> /\ m.type = "DD"
      /\ m.seq \in Nat /\ r \in Nat /\ n \in Nat /\ lsdb[r] \in Database
  BY <1>1, DDTaken, PairType DEF TypeOK
<1>3. /\ state' = [state EXCEPT ![p] = EXCHANGE]
      /\ ddSeq' = [ddSeq EXCEPT ![p] = m.seq]
      /\ dd' = [dd EXCEPT ![p] = DDAfter(p, m)]
      /\ Transmit(q, To(p, msgs))
      /\ m.I = 1 /\ r < n
  BY <1>2 DEF NegotiateAsSlave, NegDone, AckDD, IsSlave
<1>4. /\ reply \in Message /\ start \in Message /\ reply.seq = m.seq
      /\ ~IsReply(start)
  BY <1>1, <1>2, NegotiatingType, MessageMade DEF DD, InitialDD, IsReply
<1>5. msgs \in {<<reply>>, <<start, reply>>}
  <2>1. StartDD(p) = <<>> \/ StartDD(p) = <<start>>
    BY DEF StartDD
  <2> HIDE DEF start, reply
  <2> QED BY <1>4, <2>1, PairOfPackets
<1>6. To(p, msgs)[p] = msgs
  BY OnlyTo
<1> HIDE DEF msgs, reply, start
<1>7. AddsReply(p, m.seq)
  <2>1. <<>> \in Seq(Plain)
    OBVIOUS
  <2>2. AddsReply(p, reply.seq)
    BY <1>2, <1>3, <1>4, <1>5, <1>6, <2>1, SendsReply
  <2> QED BY <1>4, <2>2
<1>8. Takes(q)
  BY <1>2, <1>3, TakenFromLink DEF Takes
<1>9. state'[p] = EXCHANGE /\ ddSeq'[p] = m.seq /\ dd'[p] \in {dd[p], NoDD}
  BY <1>3 DEF ExchangeTypes, DDAfter
<1>10. EntersAsSlave(p, q)
  BY <1>2, <1>3, <1>7, <1>8, <1>9 DEF EntersAsSlave
<1>11. Elsewhere(p)
  <2> SUFFICES ASSUME NEW o \in Pair, o # p PROVE Calm(o)
    BY DEF Elsewhere
  <2>1. Same(o)
    BY <1>3 DEF Same, ExchangeTypes
  <2> QED BY <1>2, <1>3, <2>1, SameStays, ToCalmElsewhere DEF Calm
<1> QED BY <1>10, <1>11

(* In INIT the number the reply would have to carry is still to come.      *)
LEMMA MasterNegotiates ==
  ASSUME TypeOK, ExchangeTypes, Lockstep, NEW r, NEW n, <<r, n>> \in Pair,
         NegotiateAsMaster(r, n)
  PROVE  EntersAsMaster(<<r, n>>, <<n, r>>) /\ Elsewhere(<<r, n>>)
<1> DEFINE p == <<r, n>>
           q == <<n, r>>
           m == Head(chan[q])
           next == IncDDseq(StartSeq(p))
           poll == DD(0, 1, next, lsdb[r])
<1>1. AcceptDD(r, n) /\ Negotiating(r, n)
  BY DEF NegotiateAsMaster, Negotiating
<1>2. /\ q \in Pair /\ q # p /\ chan[q] # <<>> /\ m.type = "DD" /\ Reverse(p) = q
      /\ m \in DDs(chan[q])
      /\ m.seq \in Nat /\ r \in Nat /\ n \in Nat /\ lsdb[r] \in Database
  BY <1>1, DDTaken, PairType DEF TypeOK
<1>3. /\ m.seq = StartSeq(p) /\ IsReply(m) /\ n < r
      /\ state[p] \in {INIT, EX_START}
  BY DEF NegotiateAsMaster, IsMaster, IsReply, Negotiating
<1>4. state[p] = EX_START /\ StartSeq(p) = ddSeq[p]
  <2>1. p \in Leading
    BY <1>2, <1>3 DEF Leading
  <2>2. m.seq <= ddSeq[p] /\ ddSeq[p] \in Nat
    BY <1>2, <1>3, <2>1 DEF Lockstep, Locked, NoneAhead, ExchangeTypes
  <2>3. IncDDseq(ddSeq[p]) > ddSeq[p]
    BY DEF IncDDseq, ExchangeTypes
  <2>4. state[p] # INIT
    BY <1>3, <2>2, <2>3 DEF StartSeq, ExchangeTypes, IncDDseq
  <2> QED BY <1>3, <2>4 DEF StartSeq
<1>5. StartDD(p) = <<>> /\ next = IncDDseq(ddSeq[p]) /\ next \in Nat
  BY <1>4, <1>1, NegotiatingType DEF StartDD
<1>6. /\ state' = [state EXCEPT ![p] = EXCHANGE]
      /\ ddSeq' = [ddSeq EXCEPT ![p] = next]
      /\ dd' = [dd EXCEPT ![p] = [seq |-> next, headers |-> lsdb[r]]]
      /\ Transmit(q, To(p, Append(StartDD(p), poll)))
  BY DEF NegotiateAsMaster, NegDone
<1>7. poll \in Message /\ Append(StartDD(p), poll) = <<poll>>
  BY <1>2, <1>5, MessageMade
<1>8. Transmit(q, To(p, <<poll>>))
  BY <1>6, <1>7
<1>9. /\ state'[p] = EXCHANGE /\ ddSeq'[p] = next
      /\ dd'[p] = [seq |-> next, headers |-> lsdb[r]]
  BY <1>6 DEF ExchangeTypes
<1> HIDE DEF next
<1>10. AddsDD(p, poll)
  <2> HIDE DEF poll
  <2> QED BY <1>2, <1>7, <1>8, OnlyTo, SendsDD
<1>11. Takes(q)
  BY <1>2, <1>8, TakenFromLink DEF Takes
<1>12. EntersAsMaster(p, q)
  BY <1>2, <1>3, <1>4, <1>5, <1>9, <1>10, <1>11 DEF EntersAsMaster
<1>13. Elsewhere(p)
  <2> SUFFICES ASSUME NEW o \in Pair, o # p PROVE Calm(o)
    BY DEF Elsewhere
  <2>1. Same(o)
    BY <1>6 DEF Same, ExchangeTypes
  <2> QED BY <1>2, <1>8, <2>1, SameStays, ToCalmElsewhere DEF Calm
<1> QED BY <1>12, <1>13

LEMMA UndecidedMoves ==
  ASSUME TypeOK, ExchangeTypes, NEW r, NEW n, <<r, n>> \in Pair,
         RolesUndecided(r, n)
  PROVE  AllCalm \/ (Opens(<<r, n>>) /\ Elsewhere(<<r, n>>))
<1> DEFINE p == <<r, n>>
           q == <<n, r>>
           m == Head(chan[q])
<1>1. /\ q \in Pair /\ chan[q] # <<>>
      /\ StartSeq(p) \in Nat /\ state[p] \in {INIT, EX_START}
  <2>1. AcceptDD(r, n) /\ Negotiating(r, n)
    BY DEF RolesUndecided, Negotiating
  <2> QED BY <2>1, DDTaken, NegotiatingType DEF Negotiating
<1>2. /\ state' = [state EXCEPT ![p] = EX_START]
      /\ ddSeq' = [ddSeq EXCEPT ![p] = StartSeq(p)]
      /\ dd' = [dd EXCEPT ![p] = DDAfter(p, m)]
      /\ Transmit(q, To(p, StartDD(p)))
  BY DEF RolesUndecided, AckDD
<1>3. \A o \in Pair : o # p => Same(o)
  BY <1>2 DEF Same, ExchangeTypes
<1>4. /\ state'[p] = EX_START /\ ddSeq'[p] = StartSeq(p)
      /\ dd'[p] \in {dd[p], NoDD}
  BY <1>2 DEF ExchangeTypes, DDAfter
<1>5. CASE state[p] = INIT
  <2>1. StartSeq(p) > ddSeq[p] /\ StartDD(p) = <<InitialDD(StartSeq(p))>>
    BY <1>5 DEF StartSeq, StartDD, IncDDseq, ExchangeTypes
  <2>2. InitialDD(StartSeq(p)) \in Message
    BY <1>1, MessageMade
  <2>3. AddsDD(p, InitialDD(StartSeq(p)))
    BY <1>1, <1>2, <2>1, <2>2, OnlyTo, SendsDD
  <2>4. Opens(p)
    BY <1>1, <1>4, <2>1, <2>3, IsOpening
  <2> QED BY <1>1, <1>2, <1>3, <2>4, SameStays, ToCalmElsewhere DEF Elsewhere, Calm
<1>6. CASE state[p] = EX_START
  <2>1. StartDD(p) = <<>> /\ StartSeq(p) = ddSeq[p]
    BY <1>6 DEF StartDD, StartSeq
  <2>2. Stays(p)
    BY <1>1, <1>4, <1>6, <2>1 DEF Stays
  <2>3. To(p, StartDD(p)) \in Plains
    BY <2>1, EmptySeq, PlainOutput
  <2> QED BY <1>1, <1>2, <1>3, <2>2, <2>3, SameStays, TransmitCalm DEF AllCalm, Calm
<1> QED BY <1>1, <1>5, <1>6

(* A packet that a router in EXCHANGE takes to be in step is never a       *)
(* duplicate.                                                              *)
LEMMA NoDuplicate ==
  ASSUME TypeOK, ExchangeTypes, Lockstep, HigherIdIsMaster,
         NEW p \in Pair, NEW q, q = Reverse(p), NEW m \in DDs(chan[q]),
         m.seq \in Nat, m.I \in {0, 1}, m.MS \in {0, 1}, InStep(p, m)
  PROVE  ~Duplicate(p, m)
<1>1. /\ q \in Pair /\ Reverse(q) = p /\ q[1] = p[2] /\ q[2] = p[1]
      /\ p[1] \in Nat /\ p[2] \in Nat /\ p[1] # p[2]
  BY PairIsTuple, PairReverse, PairType DEF Reverse
<1>2. /\ state[p] = EXCHANGE /\ m.I = 0 /\ m.MS # ms[p] /\ ms[p] \in {0, 1}
      /\ ms[p] = 1 <=> p[1] > p[2]
  BY DEF InStep, Mismatch, HigherIdIsMaster, TypeOK
<1>3. CASE p[1] > p[2]
  <2>1. Locked(p, q)
    BY <1>3 DEF Lockstep, Leading
  <2>2. IsReply(m) /\ ms[p] = 1
    BY <1>2, <1>3 DEF IsReply
  <2>3. m.seq = ddSeq[p] /\ ddSeq[p] \in Nat
    BY <1>2, <2>1, <2>2 DEF Locked, MasterAhead, ExchangeTypes
  <2> QED BY <2>2, <2>3 DEF Duplicate
<1>4. CASE p[1] < p[2]
  <2>1. Locked(q, p)
    BY <1>1, <1>4 DEF Lockstep, Leading
  <2>2. ms[p] = 0
    BY <1>1, <1>2, <1>4
  <2>3. m.seq # ddSeq[p]
    BY <1>2, <2>1 DEF Locked, SlaveBehind
  <2> QED BY <2>2, <2>3 DEF Duplicate
<1> QED BY <1>1, <1>3, <1>4

LEMMA OutOfTurnOpens ==
  ASSUME TypeOK, ExchangeTypes, Lockstep, HigherIdIsMaster,
         NEW r, NEW n, <<r, n>> \in Pair, DDOutOfTurn(r, n)
  PROVE  Opens(<<r, n>>) /\ Elsewhere(<<r, n>>)
<1> DEFINE m == Head(chan[<<n, r>>])
<1>1. AcceptDD(r, n)
  BY DEF DDOutOfTurn
<1>2. ~(InStep(<<r, n>>, m) /\ Duplicate(<<r, n>>, m))
  BY <1>1, DDTaken, NoDuplicate
<1>3. Restart(r, n, <<n, r>>)
  BY <1>2 DEF DDOutOfTurn
<1> QED BY <1>1, <1>3, DDTaken, RestartOpens

LEMMA ProcessedMoves ==
  ASSUME TypeOK, ExchangeTypes, HigherIdIsMaster,
         NEW r, NEW n, <<r, n>> \in Pair, DDProcessed(r, n)
  PROVE  AllCalm \/ (Answers(<<r, n>>, <<n, r>>) /\ Elsewhere(<<r, n>>))
<1> DEFINE p == <<r, n>>
           q == <<n, r>>
           m == Head(chan[q])
           wanted == Wanted(r, n, m)
           ask == IF wanted = {} THEN <<>> ELSE <<Request(wanted)>>
           reply == DD(0, 0, m.seq, headers[p])
           msgs == IF ms[p] = 1 THEN ask ELSE <<reply>> \o ask
<1>1. /\ AcceptDD(r, n) /\ InStep(p, m) /\ InOrder(p, m)
      /\ ddSeq' = [ddSeq EXCEPT ![p] = IF ms[p] = 1 THEN IncDDseq(@) ELSE m.seq]
      /\ state' = [state EXCEPT ![p] = IF wanted = {} THEN FULL ELSE LOADING]
      /\ dd' = [dd EXCEPT ![p] = DDAfter(p, m)]
      /\ Transmit(q, To(p, msgs))
  BY DEF DDProcessed
<1>2. /\ q \in Pair /\ q # p /\ chan[q] # <<>> /\ m.type = "DD"
      /\ m.seq \in Nat /\ m.I \in {0, 1} /\ r \in Nat /\ n \in Nat /\ r # n
      /\ headers[p] \in Database
  BY <1>1, DDTaken, PairType DEF TypeOK
<1>3. state[p] = EXCHANGE /\ m.I = 0 /\ ms[p] \in {0, 1} /\ (ms[p] = 1 <=> r > n)
  <2>1. state[p] = EXCHANGE /\ m.I = 0
    BY <1>1 DEF InStep, Mismatch
  <2>2. ms[p] = 1 <=> p[1] > p[2]
    BY <2>1 DEF HigherIdIsMaster
  <2> QED BY <2>1, <2>2 DEF TypeOK
<1>4. ask \in Seq(Plain)
  <2>1. wanted \in SUBSET Router
    BY DEF Wanted, TypeOK
  <2>2. Request(wanted) \in Plain
    BY <2>1, PlainMessages
  <2> QED BY <2>2
<1>5. reply \in Message /\ reply.seq = m.seq
  BY <1>2, MessageMade DEF DD
<1>6. /\ state'[p] > EXCHANGE /\ dd'[p] \in {dd[p], NoDD}
      /\ ddSeq'[p] = IF ms[p] = 1 THEN IncDDseq(ddSeq[p]) ELSE m.seq
  <2> HIDE DEF wanted
  <2> QED BY <1>1 DEF ExchangeTypes, DDAfter
<1>7. \A o \in Pair : o # p => Same(o)
  BY <1>1 DEF Same, ExchangeTypes
<1>8. CASE ms[p] = 1
  <2>1. msgs = ask
    BY <1>8
  <2>2. ddSeq'[p] >= ddSeq[p] /\ ddSeq'[p] > 0
    BY <1>6, <1>8 DEF IncDDseq, ExchangeTypes
  <2>3. Stays(p)
    BY <1>3, <1>6, <2>2 DEF Stays
  <2> HIDE DEF msgs, ask
  <2>4. To(p, msgs) \in Plains
    BY <1>4, <2>1, PlainOutput
  <2> HIDE DEF q
  <2> QED BY <1>1, <1>2, <1>7, <2>3, <2>4, SameStays, TransmitCalm DEF AllCalm, Calm
<1>9. CASE ms[p] = 0
  <2>1. msgs = <<reply>> \o ask
    BY <1>9
  <2> HIDE DEF msgs, ask, wanted
  <2>2. Takes(q)
    BY <1>1, <1>2, TakenFromLink DEF Takes
  <2>3. AddsReply(p, m.seq)
    <3>1. InitialDD(0) \in Message /\ ~IsReply(InitialDD(0))
      BY MessageMade DEF IsReply, InitialDD, DD
    <3>2. To(p, msgs)[p] = <<reply>> \o ask
      BY <2>1, OnlyTo
    <3> HIDE DEF reply
    <3>3. AddsReply(p, reply.seq)
      BY <1>1, <1>2, <1>4, <1>5, <3>1, <3>2, SendsReply
    <3> QED BY <1>5, <3>3
  <2>4. m.seq > ddSeq[p] /\ r < n
    BY <1>1, <1>2, <1>3, <1>9 DEF InOrder
  <2>5. Answers(p, q)
    BY <1>3, <1>6, <2>2, <2>3, <2>4 DEF Answers
  <2>6. Elsewhere(p)
    <3> HIDE DEF q
    <3> QED BY <1>1, <1>2, <1>7, SameStays, ToCalmElsewhere DEF Elsewhere, Calm
  <2> QED BY <2>5, <2>6
<1> QED BY <1>3, <1>8, <1>9

-----------------------------------------------------------------------------
(* The other handlers send no description packet and touch no number.      *)

LEMMA CalmWhenPlain ==
  ASSUME TypeOK, ExchangeTypes, UNCHANGED <<state, ddSeq, dd>>,
         NEW q, q \in Pair => chan[q] # <<>>, NEW out \in Plains, Transmit(q, out)
  PROVE  AllCalm
<1>1. \A o \in Pair : Same(o)
  BY DEF Same
<1> QED BY <1>1, SameStays, TransmitCalm DEF AllCalm, Calm

LEMMA ReceiveMoves ==
  ASSUME TypeOK, ExchangeTypes, Lockstep, HigherIdIsMaster,
         NEW r, NEW n, <<r, n>> \in Pair, Receive(r, n)
  PROVE  AllCalm \/ (Moves(<<r, n>>, <<n, r>>) /\ Elsewhere(<<r, n>>))
<1> DEFINE q == <<n, r>>
<1>1. CASE ReceiveUpdate(r, n) \/ Dropped(r, n) \/ ReceiveAck(r, n)
  <2>1. chan[q] # <<>> /\ Transmit(q, Silent) /\ UNCHANGED <<state, ddSeq, dd>>
    BY <1>1 DEF ReceiveUpdate, Dropped, ReceiveAck, Arrived, nbrVars, ackVars
  <2> HIDE DEF q
  <2> QED BY <2>1, PlainOutput, CalmWhenPlain
<1>2. CASE DDIgnored(r, n)
  <2>1. /\ chan[q] # <<>> /\ Transmit(q, Silent) /\ UNCHANGED <<state, ddSeq>>
        /\ dd' = [dd EXCEPT ![<<r, n>>] = DDAfter(<<r, n>>, Head(chan[q]))]
        /\ state[<<r, n>>] <= ATTEMPT
    BY <1>2 DEF DDIgnored, AcceptDD, Arrived, AckDD, nbrVars
  <2> HIDE DEF q
  <2>2. ASSUME NEW o \in Pair PROVE Stays(o)
    <3>1. dd'[o] \in {dd[o], NoDD}
      BY <2>1 DEF ExchangeTypes, DDAfter
    <3>2. o = <<r, n>> \/ dd'[o] = dd[o]
      BY <2>1 DEF ExchangeTypes
    <3> QED BY <2>1, <3>1, <3>2, IgnoredStays
  <2> QED BY <2>1, <2>2, PlainOutput, TransmitCalm DEF AllCalm, Calm
<1>3. CASE ReceiveRequest(r, n)
  <2> DEFINE ids == Head(chan[q]).ids
             lsas == [a \in Router |-> IF a \in ids THEN lsdb[r][a] ELSE None]
  <2>1. lsas \in Database
    BY PairType DEF TypeOK, Database
  <2>2. chan[q] # <<>>
    BY <1>3 DEF ReceiveRequest, Arrived
  <2>3. \/ Restart(r, n, q)
        \/ /\ Transmit(q, To(<<r, n>>, <<Update(lsas)>>))
           /\ UNCHANGED <<state, ddSeq, dd>>
    BY <1>3 DEF ReceiveRequest
  <2> HIDE DEF lsas, q
  <2> QED BY <2>1, <2>2, <2>3, RestartOpens, PlainMessages, PlainOutput,
          CalmWhenPlain DEF Moves
<1> QED BY <1>1, <1>2, <1>3, HelloMoves, SlaveNegotiates, MasterNegotiates,
        UndecidedMoves, OutOfTurnOpens, ProcessedMoves DEF Receive, Moves

LEMMA WorkThroughMoves ==
  ASSUME TypeOK, ExchangeTypes, NEW r, NEW n, <<r, n>> \in Pair, WorkThrough(r, n)
  PROVE  AllCalm \/ (Opens(<<r, n>>) /\ Elsewhere(<<r, n>>))
<1>1. ASSUME NEW a \in Router, InstallLSA(r, n, a) PROVE AllCalm
  <2> DEFINE flood == ToEach(Flooded(r, n, a), Update(Only(a, rx.lsas[a])))
             out == [q \in Pair |-> IF q = <<r, n>> THEN <<Ack(a)>> ELSE flood[q]]
  <2>1. Only(a, rx.lsas[a]) \in Database
    BY <1>1, TakesUpType DEF InstallLSA
  <2>2. flood \in Plains /\ <<Ack(a)>> \in Seq(Plain)
    BY <2>1, PlainMessages, PlainOutput
  <2>3. Transmit(<<>>, out) /\ UNCHANGED <<state, ddSeq, dd>>
    BY <1>1 DEF InstallLSA
  <2> HIDE DEF flood
  <2>4. out \in Plains
    BY <2>2 DEF Plains
  <2> HIDE DEF out
  <2> QED BY <2>3, <2>4, CalmWhenPlain, NoEmptyPair
<1>2. ASSUME NEW a \in Router, OlderLSA(r, n, a) PROVE AllCalm
  <2>1. Only(a, lsdb[r][a]) \in Database
    <3>1. lsdb[r][a] \in Nat \cup {None}
      BY PairType DEF TypeOK, Database
    <3> QED BY <3>1, DatabaseType
  <2>2. /\ Transmit(<<>>, To(<<r, n>>, <<Update(Only(a, lsdb[r][a]))>>))
        /\ UNCHANGED <<state, ddSeq, dd>>
    BY <1>2 DEF OlderLSA
  <2> QED BY <2>1, <2>2, PlainMessages, PlainOutput, CalmWhenPlain, NoEmptyPair
<1>3. ASSUME NEW a \in Router, EqualLSA(r, n, a) PROVE AllCalm
  <2>1. Transmit(<<>>, To(<<r, n>>, <<Ack(a)>>)) /\ UNCHANGED <<state, ddSeq, dd>>
    BY <1>3 DEF EqualLSA
  <2> QED BY <2>1, PlainMessages, PlainOutput, CalmWhenPlain, NoEmptyPair
<1>4. ASSUME NEW a \in Router, UnexpectedLSA(r, n, a)
      PROVE Opens(<<r, n>>) /\ Elsewhere(<<r, n>>)
  BY <1>4, RestartOpens, NoEmptyPair DEF UnexpectedLSA
<1>5. ASSUME FinishUpdate(r, n) PROVE AllCalm
  <2>1. UNCHANGED <<ddSeq, dd, chan>>
    BY <1>5 DEF FinishUpdate
  <2>2. \A o \in Pair : state'[o] = state[o] \/ (state[o] = LOADING /\ state'[o] = FULL)
    BY <1>5 DEF FinishUpdate, ExchangeTypes
  <2>3. \A o \in Pair : Stays(o)
    BY <2>1, <2>2 DEF Stays, ExchangeTypes
  <2> QED BY <2>1, <2>3, LinkUnchanged DEF AllCalm, Calm
<1> QED BY <1>1, <1>2, <1>3, <1>4, <1>5 DEF WorkThrough

LEMMA ResendMoves ==
  ASSUME TypeOK, ExchangeTypes, NEW p \in Pair, NEW ack, NEW up,
         ResendMessages(p, ack, up)
  PROVE  AllCalm \/ (Repeats(p) /\ Elsewhere(p))
<1> DEFINE msgs == IF Unanswered(p) # <<>> THEN Unanswered(p) ELSE UpdatesDue(p)
<1>1. Transmit(<<>>, To(p, msgs)) /\ UNCHANGED <<state, ddSeq, dd>>
  BY DEF ResendMessages, nbrVars
<1>2. CASE dd[p] # NoDD
  <2> DEFINE m == DD(0, 1, dd[p].seq, dd[p].headers)
  <2>1. m \in Message
    BY MessageMade DEF ExchangeTypes
  <2>2. Unanswered(p) = <<m>>
    BY <1>2 DEF Unanswered
  <2>3. msgs = <<m>>
    <3> HIDE DEF m
    <3>1. <<m>> # <<>>
      OBVIOUS
    <3> QED BY <2>2, <3>1
  <2> HIDE DEF msgs
  <2>4. AddsDD(p, m)
    <3> HIDE DEF m
    <3> QED BY <1>1, <2>1, <2>3, OnlyTo, SendsDD, NoEmptyPair
  <2>5. Repeats(p)
    BY <1>1, <1>2, <2>4 DEF Repeats
  <2>6. \A o \in Pair : Stays(o)
    BY <1>1, SameStays DEF Same
  <2> QED BY <1>1, <2>5, <2>6, ToCalmElsewhere, NoEmptyPair DEF Elsewhere, Calm
<1>3. CASE dd[p] = NoDD
  <2>1. Unanswered(p) \in Seq(Plain)
    <3>1. req[p] # {} => Request(req[p]) \in Plain
      BY PlainMessages DEF TypeOK
    <3>2. \A m \in Plain : <<m>> \in Seq(Plain)
      OBVIOUS
    <3> QED BY <1>3, <3>1, <3>2, EmptySeq, Zenon DEF Unanswered
  <2>2. UpdatesDue(p) \in Seq(Plain)
    <3> DEFINE k == Cardinality(Pending(p))
    <3>1. k \in Nat
      BY RankIsNumbering
    <3>2. \A i \in 1..k : Update(upd[p][PendingAt(p, i)]) \in Plain
      BY RankIsNumbering, PlainMessages DEF Pending, TypeOK
    <3>3. UpdatesDue(p) \in [1..k -> Plain]
      BY <3>2, Zenon DEF UpdatesDue
    <3> QED BY <3>1, <3>3, SeqDef
  <2>3. To(p, msgs) \in Plains
    BY <2>1, <2>2, PlainOutput
  <2> HIDE DEF msgs
  <2> QED BY <1>1, <2>3, CalmWhenPlain, NoEmptyPair
<1> QED BY <1>2, <1>3

LEMMA LockstepNext ==
  ASSUME "inactivity" \notin Events, TypeOK, TypeOK', Lockstep, HigherIdIsMaster,
         [Next]_vars
  PROVE  Lockstep'
<1>1. ExchangeTypes
  BY DEF TypeOK, ExchangeTypes
<1>2. AllCalm => Lockstep'
  <2> SUFFICES ASSUME AllCalm, NEW p \in Leading PROVE Locked(p, Reverse(p))'
    BY DEF Lockstep, Reverse
  <2>1. p \in Pair /\ Reverse(p) \in Pair
    BY PairIsTuple, PairReverse DEF Leading, Reverse
  <2>2. Locked(p, Reverse(p)) /\ Calm(p) /\ Calm(Reverse(p)) /\ Numbered
    BY <2>1, NumbersTyped DEF Lockstep, AllCalm
  <2> QED BY <2>1, <2>2, CalmKeepsLock
<1>3. \A r, n : <<r, n>> \in Pair =>
        /\ Reverse(<<r, n>>) = <<n, r>>
        /\ Moves(<<r, n>>, <<n, r>>) /\ Elsewhere(<<r, n>>) => Lockstep'
  <2> SUFFICES ASSUME NEW r, NEW n, <<r, n>> \in Pair
               PROVE  Reverse(<<r, n>>) = <<n, r>>
                      /\ (Moves(<<r, n>>, <<n, r>>) /\ Elsewhere(<<r, n>>) => Lockstep')
    OBVIOUS
  <2>1. Reverse(<<r, n>>) = <<n, r>>
    BY DEF Reverse
  <2> QED BY <2>1, LockKept
<1>4. ASSUME NEW r, NEW n, <<r, n>> \in Pair, Receive(r, n) PROVE Lockstep'
  BY <1>1, <1>2, <1>3, <1>4, ReceiveMoves
<1>5. ASSUME NEW r, NEW n, <<r, n>> \in Pair, WorkThrough(r, n) PROVE Lockstep'
  BY <1>1, <1>2, <1>3, <1>5, WorkThroughMoves DEF Moves
<1>6. ASSUME NEW r, NEW n, <<r, n>> \in Pair, Timer(r, n) PROVE Lockstep'
  <2>1. AckTimerExpires(r, n) \/ UpdTimerExpires(r, n)
    BY <1>6 DEF Timer, InactivityExpires
  <2>2. \E ack, up : ResendMessages(<<r, n>>, ack, up)
    BY <2>1 DEF AckTimerExpires, UpdTimerExpires
  <2> QED BY <1>1, <1>2, <1>3, <1>6, <2>2, ResendMoves DEF Moves
<1>7. ASSUME NEW p \in Pair, Lose(p) PROVE AllCalm
  <2>1. chan[p] # <<>> /\ Transmit(p, Silent) /\ UNCHANGED <<state, ddSeq, dd>>
    BY <1>7 DEF Lose, nbrVars, ackVars
  <2> QED BY <1>1, <2>1, PlainOutput, CalmWhenPlain
<1>8. ASSUME NEW r \in Router, SendHellos(r) PROVE AllCalm
  <2>1. /\ \E P : Transmit(<<>>, ToEach(P, Hello))
        /\ UNCHANGED <<ddSeq, dd>>
        /\ \A o \in Pair : state'[o] = state[o] \/ (state'[o] = ATTEMPT)
    BY <1>8 DEF SendHellos, ackVars
  <2>2. \A o \in Pair : Stays(o)
    BY <1>1, <2>1 DEF Stays, ExchangeTypes
  <2>3. \A o \in Pair : AddsNoDD(o)
    BY <2>1, PlainMessages, PlainOutput, TransmitCalm, NoEmptyPair
  <2> QED BY <2>2, <2>3 DEF AllCalm, Calm
<1>9. ASSUME NEW r \in Router, CostChanged(r) PROVE AllCalm
  <2>1. /\ \E P : Transmit(<<>>, ToEach(P, Update(Only(r, NextOwn(r)))))
        /\ UNCHANGED <<state, ddSeq, dd>>
    BY <1>9 DEF CostChanged
  <2> QED BY <1>1, <2>1, NextOwnPlain, CalmWhenPlain, NoEmptyPair
<1>10. CASE UNCHANGED <<state, ddSeq, dd, chan>>
  <2>1. \A o \in Pair : Same(o)
    BY <1>10 DEF Same
  <2>2. AllCalm
    BY <1>1, <1>10, <2>1, SameStays, LinkUnchanged DEF AllCalm, Calm
  <2> QED BY <1>2, <2>2
<1>11. ASSUME NEW r \in Router, AgingAborts(r) PROVE Lockstep'
  BY <1>10, <1>11 DEF AgingAborts, nbrVars, ackVars
<1>12. CASE UNCHANGED vars
  BY <1>10, <1>12 DEF vars, nbrVars, ackVars
<1>13. CASE Next
  BY <1>2, <1>4, <1>5, <1>6, <1>7, <1>8, <1>9, <1>11, <1>13, PairIsTuple DEF Next
<1> QED BY <1>12, <1>13

LEMMA LockstepInit == Init => Lockstep
<1> SUFFICES ASSUME Init, NEW p \in Leading PROVE Locked(p, Reverse(p))
  BY DEF Lockstep
<1> DEFINE q == Reverse(p)
<1>1. p \in Pair /\ q \in Pair
  BY PairIsTuple, PairReverse DEF Leading, Reverse
<1> HIDE DEF q
<1>2. /\ state[p] = DOWN /\ state[q] = DOWN /\ ddSeq[p] = 0
      /\ dd[p] = NoDD /\ dd[q] = NoDD /\ chan[p] = <<>> /\ chan[q] = <<>>
  BY <1>1 DEF Init
<1>3. DDs(<<>>) = {} /\ InitialsRise(<<>>) /\ RepliesRise(<<>>)
  BY DEF DDs, InitialsRise, RepliesRise
<1>4. NoDD.seq = 0
  BY DEF NoDD
<1>5. Locked(p, q)
  BY <1>2, <1>3, <1>4 DEF Locked, NoneAhead, MasterAhead, SlaveBehind, InitialsAreNew
<1> QED BY <1>5 DEF q

LEMMA LockstepShows ==
  TypeOK /\ Lockstep /\ HigherIdIsMaster
    => ExchangeInLockstep /\ RepeatsAreNeverDuplicates
<1> SUFFICES ASSUME TypeOK, Lockstep, HigherIdIsMaster
             PROVE  ExchangeInLockstep /\ RepeatsAreNeverDuplicates
  OBVIOUS
<1>1. ExchangeTypes
  BY DEF TypeOK, ExchangeTypes
<1>2. ExchangeInLockstep
  <2> SUFFICES ASSUME NEW p \in Pair, state[p] = EXCHANGE, ms[p] = 1
               PROVE  /\ dd[p].seq = ddSeq[p]
                      /\ state[Reverse(p)] = EXCHANGE
                           => ddSeq[p] = ddSeq[Reverse(p)] + 1
    BY DEF ExchangeInLockstep
  <2>1. p \in Leading
    BY DEF HigherIdIsMaster, Leading
  <2> QED BY <2>1 DEF Lockstep, Locked, MasterAhead
<1>3. RepeatsAreNeverDuplicates
  <2> SUFFICES ASSUME NEW p \in Pair, chan[Reverse(p)] # <<>>,
                      Head(chan[Reverse(p)]).type = "DD",
                      InStep(p, Head(chan[Reverse(p)]))
               PROVE  ~Duplicate(p, Head(chan[Reverse(p)]))
    BY DEF RepeatsAreNeverDuplicates
  <2> DEFINE c == chan[Reverse(p)]
  <2>1. c \in Seq(Message)
    BY PairIsTuple, PairReverse DEF TypeOK, Reverse
  <2>2. Head(c) \in DDs(c) /\ Head(c) \in Message
    BY <2>1, HeadTailProperties DEF DDs
  <2> QED BY <1>1, <2>2, TypeOfDD, NoDuplicate
<1> QED BY <1>2, <1>3

LEMMA LockstepHolds ==
  ASSUME "inactivity" \notin Events
  PROVE  Spec => []Lockstep
<1>1. TypeOK /\ TypeOK' /\ HigherIdIsMaster /\ Lockstep /\ [Next]_vars => Lockstep'
  BY LockstepNext
<1> QED BY <1>1, LockstepInit, TypeCorrect, RolesAgree, PTL DEF Spec

(* As long as no neighbour is declared dead, a master in EXCHANGE awaits   *)
(* the answer to its current number, and a slave in EXCHANGE at the same   *)
(* time is exactly one behind, whatever is lost or sent again.             *)
THEOREM ExchangeLocked ==
  ASSUME "inactivity" \notin Events
  PROVE  Spec => []ExchangeInLockstep
BY LockstepHolds, LockstepShows, TypeCorrect, RolesAgree, PTL

(* Nor is the branch of receiveDD for a duplicate packet, in which a slave *)
(* sends back the packet it received, ever taken.                          *)
THEOREM NoDuplicates ==
  ASSUME "inactivity" \notin Events
  PROVE  Spec => []RepeatsAreNeverDuplicates
BY LockstepHolds, LockstepShows, TypeCorrect, RolesAgree, PTL
=============================================================================
