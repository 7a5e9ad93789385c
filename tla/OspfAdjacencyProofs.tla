------------------------ MODULE OspfAdjacencyProofs ------------------------
(***************************************************************************)
(* Theorems about OspfAdjacency, for any finite set of routers and links   *)
(* and any bounds: type correctness, where LSA instances come from, and    *)
(* the implementation of LinkStateReplicas.                                *)
(***************************************************************************)
EXTENDS OspfAdjacency, FiniteSetTheorems, SequenceTheorems, TLAPS

USE DEF DOWN, ATTEMPT, INIT, TWO_WAY, EX_START, EXCHANGE, LOADING, FULL

-----------------------------------------------------------------------------
(* Pairs.                                                                  *)

LEMMA PairType ==
  /\ Pair \subseteq Router \X Router
  /\ \A r, n : <<r, n>> \in Pair =>
       r \in Router /\ n \in Router /\ r # n /\ r \in Nat /\ n \in Nat
BY RouterAssumption DEF Pair

LEMMA PairIsTuple ==
  ASSUME NEW p \in Pair
  PROVE  p[1] \in Router /\ p[2] \in Router /\ p = <<p[1], p[2]>>
BY DEF Pair

LEMMA PairReverse ==
  ASSUME NEW r, NEW n, <<r, n>> \in Pair
  PROVE  <<n, r>> \in Pair /\ <<n, r>> # <<r, n>>
BY DEF Pair

LEMMA NoEmptyPair == <<>> \notin Pair
<1> SUFFICES ASSUME <<>> \in Pair PROVE FALSE
  OBVIOUS
<1>1. PICK r \in Router, n \in Router : <<>> = <<r, n>>
  BY DEF Pair
<1>2. Len(<<>>) = 0 /\ Len(<<r, n>>) = 2
  OBVIOUS
<1> QED BY <1>1, <1>2

LEMMA NeighbourPairs ==
  ASSUME NEW r \in Router, NEW n \in Neighbours(r)
  PROVE  <<r, n>> \in Pair
BY DEF Neighbours

-----------------------------------------------------------------------------
(* Databases and messages.                                                 *)

LEMMA DatabaseType ==
  /\ Empty \in Database
  /\ \A a \in Router, seq \in Nat \cup {None} : Only(a, seq) \in Database
  /\ \A db \in Database, a \in Router, seq \in Nat \cup {None} :
       [db EXCEPT ![a] = seq] \in Database
BY DEF Empty, Only, Database, None

LEMMA MessageMade ==
  /\ Hello \in Message
  /\ \A i, m \in {0, 1}, seq \in Nat, h \in Database : DD(i, m, seq, h) \in Message
  /\ \A seq \in Nat : InitialDD(seq) \in Message
  /\ \A ids \in SUBSET Router : Request(ids) \in Message
  /\ \A lsas \in Database : Update(lsas) \in Message
  /\ \A a \in Router : Ack(a) \in Message
<1>1. Empty \in Database
  BY DatabaseType
<1> QED BY <1>1 DEF Message, Hello, DD, InitialDD, Request, Update, Ack

(* What the type field of a message says of its other fields.              *)
LEMMA MessageFields ==
  ASSUME NEW m \in Message
  PROVE  /\ m.type = "DD" => /\ m.I \in {0, 1} /\ m.MS \in {0, 1}
                             /\ m.seq \in Nat /\ m.headers \in Database
         /\ m.type = "REQUEST" => m.ids \in SUBSET Router
         /\ m.type = "UPDATE" => m.lsas \in Database
         /\ m.type = "ACK" => m.adv \in Router
BY DEF Message, Hello

-----------------------------------------------------------------------------
(* What is sent on the links.                                              *)

Output == [Pair -> Seq(Message)]

LEMMA OutputType ==
  /\ Silent \in Output
  /\ \A p : \A msgs \in Seq(Message) : To(p, msgs) \in Output
  /\ \A p : \A m \in Message : To(p, <<m>>) \in Output
  /\ \A P : \A m \in Message : ToEach(P, m) \in Output
<1>1. Silent \in Output
  BY DEF Output, Silent
<1>2. ASSUME NEW p, NEW msgs \in Seq(Message) PROVE To(p, msgs) \in Output
  BY <1>1, <1>2 DEF Output, To
<1>3. \A m \in Message : <<m>> \in Seq(Message) /\ <<>> \in Seq(Message)
  OBVIOUS
<1>4. ASSUME NEW P, NEW m \in Message PROVE ToEach(P, m) \in Output
  BY <1>3, <1>4, Zenon DEF Output, ToEach
<1> QED BY <1>1, <1>2, <1>3, <1>4, Zenon

LEMMA TransmitType ==
  ASSUME chan \in Output, NEW out \in Output,
         NEW q, q \in Pair => chan[q] # <<>>, Transmit(q, out)
  PROVE  chan' \in Output
<1> SUFFICES ASSUME NEW p \in Pair
             PROVE  ((IF p = q THEN Tail(chan[p]) ELSE chan[p]) \o out[p])
                      \in Seq(Message)
  BY DEF Transmit, Output
<1>1. chan[p] \in Seq(Message) /\ out[p] \in Seq(Message)
  BY DEF Output
<1>2. p = q => Tail(chan[p]) \in Seq(Message)
  BY <1>1, HeadTailProperties
<1> QED BY <1>1, <1>2, ConcatProperties

LEMMA UpdateBookkeepingType ==
  ASSUME NEW P
  PROVE  /\ retrans \in [Pair -> [Router -> Nat]] =>
              \A A : Listed(P, A) \in [Pair -> [Router -> Nat]]
         /\ \A u \in [Pair -> [Router -> Database]], a \in Router,
               lsas \in Database :
              Unacked(u, P, a, lsas) \in [Pair -> [Router -> Database]]
         /\ \A timer \in [Pair -> BOOLEAN] : Armed(timer, P) \in [Pair -> BOOLEAN]
BY DEF Listed, Unacked, Armed

LEMMA NoneType ==
  /\ NoDD \in [seq : Nat, headers : Database]
  /\ NoUpdates \in [Router -> Database]
  /\ NoCopies \in [Router -> Nat]
  /\ Resting \in [at : Pair \cup {<<>>}, entry : DOWN..FULL, lsas : Database]
BY DatabaseType DEF NoDD, NoUpdates, NoCopies, Resting

(* The pending updates are numbered 1, 2, ... by rank, so the sequence     *)
(* that resendMessages sends has an update at every position.              *)
LEMMA RankIsNumbering ==
  ASSUME NEW p
  PROVE  /\ Cardinality(Pending(p)) \in Nat
         /\ \A i \in 1..Cardinality(Pending(p)) :
              PendingAt(p, i) \in Pending(p) /\ Rank(p, PendingAt(p, i)) = i
<1> DEFINE S == Pending(p)
           N == 1..Cardinality(S)
           upTo(a) == {b \in S : b <= a}
           f == [a \in S |-> Rank(p, a)]
<1>1. S \subseteq Nat /\ IsFiniteSet(S) /\ Cardinality(S) \in Nat
  BY RouterAssumption, FS_Subset, FS_CardinalityType DEF Pending
<1>2. ASSUME NEW a \in S
      PROVE  /\ IsFiniteSet(upTo(a)) /\ Cardinality(upTo(a)) \in N
             /\ Rank(p, a) = Cardinality(upTo(a))
  <2>1. upTo(a) \in SUBSET S /\ a \in upTo(a)
    BY <1>1
  <2>2. IsFiniteSet(upTo(a)) /\ Cardinality(upTo(a)) <= Cardinality(S)
    BY <1>1, <2>1, FS_Subset
  <2>3. Cardinality(upTo(a)) \in Nat /\ Cardinality(upTo(a)) # 0
    BY <2>1, <2>2, FS_CardinalityType, FS_EmptySet
  <2> QED BY <1>1, <2>2, <2>3 DEF Rank
<1>3. ASSUME NEW a \in S, NEW b \in S, a < b
      PROVE  Cardinality(upTo(a)) # Cardinality(upTo(b))
  <2>1. upTo(a) \in SUBSET upTo(b) /\ b \in upTo(b) /\ b \notin upTo(a)
    BY <1>1, <1>3
  <2> QED BY <1>2, <2>1, FS_Subset
<1>4. f \in Injection(S, N)
  <2>1. f \in [S -> N]
    BY <1>2
  <2>2. ASSUME NEW a \in S, NEW b \in S, f[a] = f[b] PROVE a = b
    <3>1. ~(a < b) /\ ~(b < a)
      BY <1>2, <1>3, <2>2
    <3> QED BY <1>1, <3>1
  <2> QED BY <2>1, <2>2 DEF Injection, IsInjective
<1>5. IsFiniteSet(N) /\ Cardinality(N) = Cardinality(S)
  BY <1>1, FS_Interval
<1>6. f \in Surjection(S, N)
  BY <1>4, <1>5, FS_Injection
<1>7. \A i \in N : \E a \in Pending(p) : Rank(p, a) = i
  BY <1>6 DEF Surjection
<1> QED BY <1>1, <1>7 DEF PendingAt

LEMMA UpdatesDueType ==
  ASSUME NEW p \in Pair, upd \in [Pair -> [Router -> Database]]
  PROVE  UpdatesDue(p) \in Seq(Message)
<1> DEFINE n == Cardinality(Pending(p))
<1>1. \A i \in 1..n : Update(upd[p][PendingAt(p, i)]) \in Message
  BY RankIsNumbering, MessageMade DEF Pending
<1>2. n \in Nat
  BY RankIsNumbering
<1>3. UpdatesDue(p) \in [1..n -> Message]
  BY <1>1, Zenon DEF UpdatesDue
<1> QED BY <1>2, <1>3, SeqDef

LEMMA UnansweredType ==
  ASSUME NEW p \in Pair, dd \in [Pair -> [seq : Nat, headers : Database]],
         req \in [Pair -> SUBSET Router]
  PROVE  Unanswered(p) \in Seq(Message)
<1>1. \A m \in Message : <<m>> \in Seq(Message)
  OBVIOUS
<1>2. /\ DD(0, 1, dd[p].seq, dd[p].headers) \in Message
      /\ Request(req[p]) \in Message
  BY MessageMade
<1> QED BY <1>1, <1>2, EmptySeq, Zenon DEF Unanswered

-----------------------------------------------------------------------------
(* Type correctness: one lemma per handler.                                *)

LEMMA ArrivedFacts ==
  ASSUME TypeOK, NEW r, NEW n, <<r, n>> \in Pair, chan[<<n, r>>] # <<>>
  PROVE  Head(chan[<<n, r>>]) \in Message
BY PairReverse, HeadTailProperties DEF TypeOK

(* The neighbour data Restart leaves behind.                               *)
LEMMA RestartType ==
  ASSUME TypeOK, NEW r, NEW n, <<r, n>> \in Pair, NEW q, Restart(r, n, q),
         q \in Pair => chan[q] # <<>>
  PROVE  /\ state' \in [Pair -> DOWN..FULL] /\ ms' \in [Pair -> {0, 1}]
         /\ ddSeq' \in [Pair -> Nat] /\ headers' \in [Pair -> Database]
         /\ requests' \in [Pair -> SUBSET Router]
         /\ dd' \in [Pair -> [seq : Nat, headers : Database]]
         /\ req' \in [Pair -> SUBSET Router]
         /\ upd' \in [Pair -> [Router -> Database]]
         /\ ackTimer' \in [Pair -> BOOLEAN] /\ updTimer' \in [Pair -> BOOLEAN]
         /\ adjList' \in [Router -> SUBSET Router]
         /\ chan' \in Output
<1> DEFINE p == <<r, n>>
<1>1. /\ state \in [Pair -> DOWN..FULL] /\ ms \in [Pair -> {0, 1}]
      /\ ddSeq \in [Pair -> Nat] /\ headers \in [Pair -> Database]
      /\ requests \in [Pair -> SUBSET Router]
      /\ dd \in [Pair -> [seq : Nat, headers : Database]]
      /\ req \in [Pair -> SUBSET Router]
      /\ upd \in [Pair -> [Router -> Database]]
      /\ ackTimer \in [Pair -> BOOLEAN] /\ updTimer \in [Pair -> BOOLEAN]
      /\ adjList \in [Router -> SUBSET Router]
      /\ chan \in Output /\ now \in Nat
  BY DEF TypeOK, Output
<1>2. IncDDseq(ddSeq[p]) \in Nat
  BY <1>1 DEF IncDDseq
<1>3. To(p, <<InitialDD(IncDDseq(ddSeq[p]))>>) \in Output
  BY <1>2, MessageMade, OutputType
<1>4. chan' \in Output
  BY <1>1, <1>3, TransmitType DEF Restart
<1>5. state' \in [Pair -> DOWN..FULL] /\ ms' \in [Pair -> {0, 1}]
  BY <1>1 DEF Restart
<1>6. ddSeq' \in [Pair -> Nat] /\ adjList' \in [Router -> SUBSET Router]
  BY <1>1, <1>2 DEF Restart
<1>7. /\ headers' \in [Pair -> Database] /\ requests' \in [Pair -> SUBSET Router]
      /\ ackTimer' \in [Pair -> BOOLEAN] /\ updTimer' \in [Pair -> BOOLEAN]
  BY <1>1, DatabaseType DEF Restart, CancelUnacked, DelAllLists
<1>8. /\ dd' \in [Pair -> [seq : Nat, headers : Database]]
      /\ req' \in [Pair -> SUBSET Router] /\ upd' \in [Pair -> [Router -> Database]]
  BY <1>1, NoneType DEF Restart, CancelUnacked
<1> QED BY <1>4, <1>5, <1>6, <1>7, <1>8

LEMMA NextOwnType ==
  ASSUME TypeOK, NEW r \in Router
  PROVE  /\ NextOwn(r) \in Nat
         /\ Only(r, NextOwn(r)) \in Database
         /\ Update(Only(r, NextOwn(r))) \in Message
         /\ Originate(r) => lsdb' \in [Router -> Database]
<1>1. lsdb \in [Router -> Database]
  BY DEF TypeOK
<1>2. NextOwn(r) \in Nat
  BY <1>1 DEF Database, None, NextOwn
<1>3. Originate(r) => lsdb' \in [Router -> Database]
  BY <1>1, <1>2 DEF Database, Originate, NextOwn
<1> QED BY <1>2, <1>3, DatabaseType, MessageMade

LEMMA HeardFromType ==
  ASSUME TypeOK, NEW r, NEW n, <<r, n>> \in Pair, HeardFrom(r, n)
  PROVE  /\ nbrList' \in [Router -> SUBSET Router]
         /\ deadTimer' \in [Pair -> BOOLEAN]
         /\ upLinks' \in [Router -> SUBSET Router]
         /\ lsdb' \in [Router -> Database]
         /\ aging' \in [Router -> SUBSET Router]
         /\ retrans' \in [Pair -> [Router -> Nat]]
         /\ upd' \in [Pair -> [Router -> Database]]
         /\ updTimer' \in [Pair -> BOOLEAN]
<1>1. /\ nbrList \in [Router -> SUBSET Router] /\ deadTimer \in [Pair -> BOOLEAN]
      /\ upLinks \in [Router -> SUBSET Router] /\ lsdb \in [Router -> Database]
      /\ aging \in [Router -> SUBSET Router]
      /\ retrans \in [Pair -> [Router -> Nat]]
      /\ upd \in [Pair -> [Router -> Database]] /\ updTimer \in [Pair -> BOOLEAN]
      /\ r \in Router /\ n \in Router
  BY PairType DEF TypeOK
<1>2. /\ retrans' \in [Pair -> [Router -> Nat]]
      /\ upd' \in [Pair -> [Router -> Database]]
      /\ updTimer' \in [Pair -> BOOLEAN]
  BY <1>1, UpdateBookkeepingType, NextOwnType DEF HeardFrom
<1>3. lsdb' \in [Router -> Database] /\ aging' \in [Router -> SUBSET Router]
  BY <1>1, NextOwnType DEF HeardFrom
<1>4. /\ nbrList' \in [Router -> SUBSET Router] /\ deadTimer' \in [Pair -> BOOLEAN]
      /\ upLinks' \in [Router -> SUBSET Router]
  BY <1>1 DEF HeardFrom, Rescheduled
<1> QED BY <1>2, <1>3, <1>4

LEMMA TypeInit == Init => TypeOK
<1> SUFFICES ASSUME Init PROVE TypeOK
  OBVIOUS
<1>1. /\ upLinks \in [Router -> SUBSET Router] /\ lsdb \in [Router -> Database]
      /\ nbrList \in [Router -> SUBSET Router]
      /\ adjList \in [Router -> SUBSET Router]
      /\ aging \in [Router -> SUBSET Router]
  BY DatabaseType DEF Init, Neighbours
<1>2. /\ state \in [Pair -> DOWN..FULL] /\ ms \in [Pair -> {0, 1}]
      /\ ddSeq \in [Pair -> Nat] /\ headers \in [Pair -> Database]
      /\ retrans \in [Pair -> [Router -> Nat]]
      /\ requests \in [Pair -> SUBSET Router]
  BY NoneType, DatabaseType DEF Init
<1>3. /\ dd \in [Pair -> [seq : Nat, headers : Database]]
      /\ req \in [Pair -> SUBSET Router]
      /\ upd \in [Pair -> [Router -> Database]]
      /\ ackTimer \in [Pair -> BOOLEAN] /\ updTimer \in [Pair -> BOOLEAN]
      /\ deadTimer \in [Pair -> BOOLEAN]
  BY NoneType DEF Init
<1>4. /\ chan \in [Pair -> Seq(Message)]
      /\ rx \in [at : Pair \cup {<<>>}, entry : DOWN..FULL, lsas : Database]
      /\ now \in Nat /\ halted \in BOOLEAN
  BY NoneType, EmptySeq DEF Init
<1> QED BY <1>1, <1>2, <1>3, <1>4 DEF TypeOK

LEMMA TypeSendHellos ==
  ASSUME TypeOK, NEW r \in Router, SendHellos(r)
  PROVE  TypeOK'
<1>1. chan \in Output /\ state \in [Pair -> DOWN..FULL]
  BY DEF TypeOK, Output
<1>2. ToEach({<<r, n>> : n \in Neighbours(r)}, Hello) \in Output
  BY OutputType, MessageMade
<1>3. chan' \in Output
  BY <1>1, <1>2, TransmitType, NoEmptyPair DEF SendHellos
<1>4. state' \in [Pair -> DOWN..FULL]
  BY <1>1 DEF SendHellos
<1> QED BY <1>3, <1>4 DEF SendHellos, TypeOK, Output, ackVars, ownVars

LEMMA TypeReceiveHelloTwoWay ==
  ASSUME TypeOK, NEW r, NEW n, <<r, n>> \in Pair, ReceiveHelloTwoWay(r, n)
  PROVE  TypeOK'
<1> DEFINE p == <<r, n>>
           first == IncDDseq(ddSeq[p])
           flood == ToEach(UpFlood(r, n), Update(Only(r, NextOwn(r))))
           out == [q \in Pair |-> IF q = p /\ state[p] <= INIT
                                  THEN <<InitialDD(first)>> ELSE flood[q]]
<1>1. /\ state \in [Pair -> DOWN..FULL] /\ ms \in [Pair -> {0, 1}]
      /\ ddSeq \in [Pair -> Nat] /\ adjList \in [Router -> SUBSET Router]
      /\ chan \in Output /\ now \in Nat
  BY DEF TypeOK, Output
<1>2. r \in Router /\ n \in Router
  BY PairType
<1>3. first \in Nat
  BY <1>1 DEF IncDDseq
<1>4. flood \in Output
  BY <1>2, NextOwnType, OutputType
<1>5. <<InitialDD(first)>> \in Seq(Message)
  BY <1>3, MessageMade
<1>6. out \in Output
  BY <1>4, <1>5 DEF Output
<1>7. chan' \in Output
  BY <1>1, <1>6, TransmitType DEF ReceiveHelloTwoWay, Arrived
<1>8. state' \in [Pair -> DOWN..FULL] /\ ms' \in [Pair -> {0, 1}]
  <2>1. /\ state' = state \/ state' = [state EXCEPT ![p] = EX_START]
        /\ ms' = ms \/ ms' = [ms EXCEPT ![p] = 1]
    BY Zenon DEF ReceiveHelloTwoWay
  <2> HIDE DEF p
  <2>2. EX_START \in DOWN..FULL
    BY DEF DOWN, EX_START, FULL
  <2> QED BY <1>1, <2>1, <2>2
<1>9. ddSeq' \in [Pair -> Nat] /\ adjList' \in [Router -> SUBSET Router]
  BY <1>1, <1>2, <1>3 DEF ReceiveHelloTwoWay
<1> QED BY <1>7, <1>8, <1>9, HeardFromType DEF ReceiveHelloTwoWay, HeardFrom, TypeOK, Output

LEMMA TypeReceiveHelloOneWay ==
  ASSUME TypeOK, NEW r, NEW n, <<r, n>> \in Pair, ReceiveHelloOneWay(r, n)
  PROVE  TypeOK'
<1>1. /\ state \in [Pair -> DOWN..FULL] /\ headers \in [Pair -> Database]
      /\ requests \in [Pair -> SUBSET Router]
      /\ adjList \in [Router -> SUBSET Router] /\ chan \in Output
      /\ r \in Router /\ n \in Router
  BY PairType DEF TypeOK, Output
<1>2. ToEach(UpFlood(r, n), Update(Only(r, NextOwn(r)))) \in Output
  BY <1>1, NextOwnType, OutputType
<1>3. chan' \in Output
  BY <1>1, <1>2, TransmitType DEF ReceiveHelloOneWay, Arrived
<1>4. state' \in [Pair -> DOWN..FULL] /\ adjList' \in [Router -> SUBSET Router]
  BY <1>1 DEF ReceiveHelloOneWay
<1>5. headers' \in [Pair -> Database] /\ requests' \in [Pair -> SUBSET Router]
  BY <1>1, DatabaseType DEF ReceiveHelloOneWay, DelAllLists
<1> QED BY <1>3, <1>4, <1>5, HeardFromType DEF ReceiveHelloOneWay, HeardFrom, TypeOK, Output

LEMMA TypeInactivityExpires ==
  ASSUME TypeOK, NEW r, NEW n, <<r, n>> \in Pair, InactivityExpires(r, n)
  PROVE  TypeOK'
<1> DEFINE p == <<r, n>>
           P == IF n \in upLinks[r] THEN FloodOwn(r, n) ELSE {}
           lsa == Only(r, NextOwn(r))
<1>1. /\ state \in [Pair -> DOWN..FULL] /\ ms \in [Pair -> {0, 1}]
      /\ ddSeq \in [Pair -> Nat] /\ deadTimer \in [Pair -> BOOLEAN]
      /\ adjList \in [Router -> SUBSET Router]
      /\ nbrList \in [Router -> SUBSET Router]
      /\ upLinks \in [Router -> SUBSET Router]
      /\ now \in Nat /\ DeadInterval \in Nat
  BY BoundsAssumption DEF TypeOK
<1>2. /\ headers \in [Pair -> Database] /\ requests \in [Pair -> SUBSET Router]
      /\ dd \in [Pair -> [seq : Nat, headers : Database]]
      /\ req \in [Pair -> SUBSET Router] /\ ackTimer \in [Pair -> BOOLEAN]
      /\ upd \in [Pair -> [Router -> Database]] /\ updTimer \in [Pair -> BOOLEAN]
      /\ retrans \in [Pair -> [Router -> Nat]] /\ chan \in Output
      /\ lsdb \in [Router -> Database] /\ aging \in [Router -> SUBSET Router]
      /\ r \in Router
  BY PairType DEF TypeOK, Output
<1>3. lsa \in Database /\ ToEach(P, Update(lsa)) \in Output
  BY <1>2, NextOwnType, OutputType
<1>4. chan' \in Output
  BY <1>2, <1>3, TransmitType, NoEmptyPair DEF InactivityExpires
<1>5. state' \in [Pair -> DOWN..FULL] /\ ms' \in [Pair -> {0, 1}]
  BY <1>1 DEF InactivityExpires
<1>6. ddSeq' \in [Pair -> Nat] /\ deadTimer' \in [Pair -> BOOLEAN] /\ now' \in Nat
  BY <1>1 DEF InactivityExpires
<1>7. /\ adjList' \in [Router -> SUBSET Router] /\ nbrList' \in [Router -> SUBSET Router]
      /\ upLinks' \in [Router -> SUBSET Router]
  BY <1>1 DEF InactivityExpires
<1>8. /\ headers' \in [Pair -> Database] /\ requests' \in [Pair -> SUBSET Router]
      /\ ackTimer' \in [Pair -> BOOLEAN]
  BY <1>2, DatabaseType DEF InactivityExpires, DelAllLists, CancelUnacked
<1>9. dd' \in [Pair -> [seq : Nat, headers : Database]] /\ req' \in [Pair -> SUBSET Router]
  BY <1>2, NoneType DEF InactivityExpires, CancelUnacked
<1>10. lsdb' \in [Router -> Database] /\ aging' \in [Router -> SUBSET Router]
  <2>1. lsdb' \in [Router -> Database]
    BY <1>2, NextOwnType DEF InactivityExpires
  <2>2. aging' \in [Router -> SUBSET Router]
    <3>1. aging' = aging \/ aging' = [aging EXCEPT ![r] = @ \ {n}]
      BY DEF InactivityExpires
    <3>2. [aging EXCEPT ![r] = @ \ {n}] \in [Router -> SUBSET Router]
      BY <1>2
    <3> QED BY <1>2, <3>1, <3>2
  <2> QED BY <2>1, <2>2
<1>11. retrans' \in [Pair -> [Router -> Nat]]
  BY <1>2, UpdateBookkeepingType DEF InactivityExpires
<1>12. upd' \in [Pair -> [Router -> Database]]
  <2>1. [upd EXCEPT ![p] = NoUpdates] \in [Pair -> [Router -> Database]]
    BY <1>2, NoneType
  <2> QED BY <1>2, <1>3, <2>1, UpdateBookkeepingType DEF InactivityExpires
<1>13. updTimer' \in [Pair -> BOOLEAN]
  <2>1. [updTimer EXCEPT ![p] = FALSE] \in [Pair -> BOOLEAN]
    BY <1>2
  <2> QED BY <2>1, UpdateBookkeepingType DEF InactivityExpires
<1> QED BY <1>4, <1>5, <1>6, <1>7, <1>8, <1>9, <1>10, <1>11, <1>12, <1>13
        DEF InactivityExpires, TypeOK, Output

(* What the description packet handlers share.                             *)
LEMMA DDFacts ==
  ASSUME TypeOK, NEW r, NEW n, <<r, n>> \in Pair, AcceptDD(r, n)
  PROVE  LET m == Head(chan[<<n, r>>]) IN
         /\ chan[<<n, r>>] # <<>> /\ m \in Message
         /\ m.I \in {0, 1} /\ m.MS \in {0, 1} /\ m.seq \in Nat
         /\ m.headers \in Database
         /\ halted' \in BOOLEAN
BY ArrivedFacts, MessageFields DEF AcceptDD, Arrived

LEMMA AckDDType ==
  ASSUME TypeOK, NEW r, NEW n, <<r, n>> \in Pair, NEW m, AckDD(<<r, n>>, m)
  PROVE  /\ dd' \in [Pair -> [seq : Nat, headers : Database]]
         /\ ackTimer' \in [Pair -> BOOLEAN]
<1>1. dd \in [Pair -> [seq : Nat, headers : Database]] /\ ackTimer \in [Pair -> BOOLEAN]
  BY DEF TypeOK
<1>2. DDAfter(<<r, n>>, m) \in [seq : Nat, headers : Database]
  BY <1>1, NoneType DEF DDAfter
<1>3. ackTimer' \in [Pair -> BOOLEAN]
  BY <1>1 DEF AckDD
<1> QED BY <1>1, <1>2, <1>3 DEF AckDD

LEMMA TypeDDIgnored ==
  ASSUME TypeOK, NEW r, NEW n, <<r, n>> \in Pair, DDIgnored(r, n)
  PROVE  TypeOK'
<1>1. chan \in Output
  BY DEF TypeOK, Output
<1>2. chan' \in Output
  BY <1>1, DDFacts, TransmitType, OutputType DEF DDIgnored
<1>3. halted' \in BOOLEAN
  BY DDFacts DEF DDIgnored
<1>4. dd' \in [Pair -> [seq : Nat, headers : Database]] /\ ackTimer' \in [Pair -> BOOLEAN]
  BY AckDDType DEF DDIgnored
<1> QED BY <1>2, <1>3, <1>4 DEF DDIgnored, TypeOK, Output, nbrVars, ownVars

LEMMA NegotiatingType ==
  ASSUME TypeOK, NEW r, NEW n, <<r, n>> \in Pair, Negotiating(r, n)
  PROVE  /\ StartSeq(<<r, n>>) \in Nat
         /\ IncDDseq(StartSeq(<<r, n>>)) \in Nat
         /\ StartDD(<<r, n>>) \in Seq(Message)
         /\ adjList' \in [Router -> SUBSET Router]
<1>1. /\ ddSeq \in [Pair -> Nat] /\ now \in Nat /\ r \in Router /\ n \in Router
      /\ adjList \in [Router -> SUBSET Router]
  BY PairType DEF TypeOK
<1>2. StartSeq(<<r, n>>) \in Nat
  BY <1>1 DEF StartSeq, IncDDseq
<1>3. IncDDseq(StartSeq(<<r, n>>)) \in Nat
  BY <1>1, <1>2 DEF IncDDseq
<1>4. InitialDD(StartSeq(<<r, n>>)) \in Message
  BY <1>2, MessageMade
<1>5. StartDD(<<r, n>>) \in Seq(Message)
  BY <1>4 DEF StartDD
<1>6. adjList' \in [Router -> SUBSET Router]
  BY <1>1 DEF Negotiating
<1> QED BY <1>2, <1>3, <1>5, <1>6

LEMMA NegDoneType ==
  ASSUME TypeOK, NEW r, NEW n, <<r, n>> \in Pair, NegDone(r, n)
  PROVE  /\ state' \in [Pair -> DOWN..FULL] /\ headers' \in [Pair -> Database]
         /\ retrans' \in [Pair -> [Router -> Nat]]
<1>1. /\ state \in [Pair -> DOWN..FULL] /\ headers \in [Pair -> Database]
      /\ retrans \in [Pair -> [Router -> Nat]] /\ lsdb[r] \in Database
  BY PairType DEF TypeOK
<1> QED BY <1>1, NoneType DEF NegDone

LEMMA TypeNegotiateAsSlave ==
  ASSUME TypeOK, NEW r, NEW n, <<r, n>> \in Pair, NegotiateAsSlave(r, n)
  PROVE  TypeOK'
<1> DEFINE p == <<r, n>>
           m == Head(chan[<<n, r>>])
<1>1. /\ ddSeq \in [Pair -> Nat] /\ ms \in [Pair -> {0, 1}] /\ chan \in Output
      /\ lsdb[r] \in Database
  BY PairType DEF TypeOK, Output
<1>2. Negotiating(r, n) /\ AcceptDD(r, n)
  BY DEF NegotiateAsSlave, Negotiating
<1>3. m.seq \in Nat /\ chan[<<n, r>>] # <<>> /\ halted' \in BOOLEAN
  BY <1>2, DDFacts
<1>4. Append(StartDD(p), DD(0, 0, m.seq, lsdb[r])) \in Seq(Message)
  BY <1>1, <1>2, <1>3, NegotiatingType, MessageMade, AppendProperties
<1>5. chan' \in Output
  BY <1>1, <1>3, <1>4, TransmitType, OutputType DEF NegotiateAsSlave
<1>6. ddSeq' \in [Pair -> Nat] /\ ms' \in [Pair -> {0, 1}]
  BY <1>1, <1>3 DEF NegotiateAsSlave
<1>7. /\ dd' \in [Pair -> [seq : Nat, headers : Database]]
      /\ ackTimer' \in [Pair -> BOOLEAN]
  BY AckDDType DEF NegotiateAsSlave
<1>8. /\ state' \in [Pair -> DOWN..FULL] /\ headers' \in [Pair -> Database]
      /\ retrans' \in [Pair -> [Router -> Nat]]
  BY NegDoneType DEF NegotiateAsSlave
<1> QED BY <1>2, <1>3, <1>5, <1>6, <1>7, <1>8, NegotiatingType
        DEF Negotiating, TypeOK, Output

LEMMA TypeNegotiateAsMaster ==
  ASSUME TypeOK, NEW r, NEW n, <<r, n>> \in Pair, NegotiateAsMaster(r, n)
  PROVE  TypeOK'
<1> DEFINE p == <<r, n>>
           next == IncDDseq(StartSeq(p))
<1>1. /\ ddSeq \in [Pair -> Nat] /\ ms \in [Pair -> {0, 1}] /\ chan \in Output
      /\ dd \in [Pair -> [seq : Nat, headers : Database]]
      /\ ackTimer \in [Pair -> BOOLEAN] /\ lsdb[r] \in Database
  BY PairType DEF TypeOK, Output
<1>2. Negotiating(r, n) /\ AcceptDD(r, n)
  BY DEF NegotiateAsMaster, Negotiating
<1>3. next \in Nat /\ chan[<<n, r>>] # <<>> /\ halted' \in BOOLEAN
  BY <1>2, DDFacts, NegotiatingType
<1>4. Append(StartDD(p), DD(0, 1, next, lsdb[r])) \in Seq(Message)
  BY <1>1, <1>2, <1>3, NegotiatingType, MessageMade, AppendProperties
<1>5. chan' \in Output
  BY <1>1, <1>3, <1>4, TransmitType, OutputType DEF NegotiateAsMaster
<1>6. ddSeq' \in [Pair -> Nat] /\ ms' \in [Pair -> {0, 1}]
  BY <1>1, <1>3 DEF NegotiateAsMaster
<1>7. /\ dd' \in [Pair -> [seq : Nat, headers : Database]]
      /\ ackTimer' \in [Pair -> BOOLEAN]
  BY <1>1, <1>3 DEF NegotiateAsMaster
<1>8. /\ state' \in [Pair -> DOWN..FULL] /\ headers' \in [Pair -> Database]
      /\ retrans' \in [Pair -> [Router -> Nat]]
  BY NegDoneType DEF NegotiateAsMaster
<1> QED BY <1>2, <1>3, <1>5, <1>6, <1>7, <1>8, NegotiatingType
        DEF Negotiating, TypeOK, Output

LEMMA TypeRolesUndecided ==
  ASSUME TypeOK, NEW r, NEW n, <<r, n>> \in Pair, RolesUndecided(r, n)
  PROVE  TypeOK'
<1> DEFINE p == <<r, n>>
<1>1. /\ state \in [Pair -> DOWN..FULL] /\ ms \in [Pair -> {0, 1}]
      /\ ddSeq \in [Pair -> Nat] /\ chan \in Output
  BY DEF TypeOK, Output
<1>2. Negotiating(r, n) /\ AcceptDD(r, n)
  BY DEF RolesUndecided, Negotiating
<1>3. chan[<<n, r>>] # <<>> /\ halted' \in BOOLEAN /\ StartSeq(p) \in Nat
  BY <1>2, DDFacts, NegotiatingType
<1>4. chan' \in Output
  BY <1>1, <1>2, <1>3, NegotiatingType, TransmitType, OutputType DEF RolesUndecided
<1>5. state' \in [Pair -> DOWN..FULL] /\ ms' \in [Pair -> {0, 1}]
  BY <1>1 DEF RolesUndecided
<1>6. ddSeq' \in [Pair -> Nat]
  BY <1>1, <1>3 DEF RolesUndecided
<1>7. /\ dd' \in [Pair -> [seq : Nat, headers : Database]]
      /\ ackTimer' \in [Pair -> BOOLEAN]
  BY AckDDType DEF RolesUndecided
<1> QED BY <1>2, <1>3, <1>4, <1>5, <1>6, <1>7, NegotiatingType
        DEF RolesUndecided, Negotiating, TypeOK, Output

LEMMA TypeDDOutOfTurn ==
  ASSUME TypeOK, NEW r, NEW n, <<r, n>> \in Pair, DDOutOfTurn(r, n)
  PROVE  TypeOK'
<1> DEFINE p == <<r, n>>
           m == Head(chan[<<n, r>>])
<1>1. /\ AcceptDD(r, n) /\ chan[<<n, r>>] # <<>> /\ m \in Message
      /\ halted' \in BOOLEAN
  BY DDFacts DEF DDOutOfTurn
<1>2. CASE InStep(p, m) /\ Duplicate(p, m)
  <2>1. chan \in Output
    BY DEF TypeOK, Output
  <2>2. To(p, IF ms[p] = 0 THEN <<m>> ELSE <<>>) \in Output
    BY <1>1, OutputType, EmptySeq
  <2>3. chan' \in Output
    BY <1>1, <1>2, <2>1, <2>2, TransmitType DEF DDOutOfTurn
  <2>4. /\ dd' \in [Pair -> [seq : Nat, headers : Database]]
        /\ ackTimer' \in [Pair -> BOOLEAN]
    BY <1>2, AckDDType DEF DDOutOfTurn
  <2> QED BY <1>1, <1>2, <2>3, <2>4 DEF DDOutOfTurn, TypeOK, Output
<1>3. CASE ~(InStep(p, m) /\ Duplicate(p, m))
  <2>1. Restart(r, n, <<n, r>>)
    BY <1>3 DEF DDOutOfTurn
  <2> QED BY <1>1, <2>1, RestartType DEF DDOutOfTurn, TypeOK, Output
<1> QED BY <1>2, <1>3

LEMMA TypeDDProcessed ==
  ASSUME TypeOK, NEW r, NEW n, <<r, n>> \in Pair, DDProcessed(r, n)
  PROVE  TypeOK'
<1> DEFINE p == <<r, n>>
           m == Head(chan[<<n, r>>])
           wanted == Wanted(r, n, m)
           ask == IF wanted = {} THEN <<>> ELSE <<Request(wanted)>>
           reply == <<DD(0, 0, m.seq, headers[p])>>
<1>1. /\ AcceptDD(r, n) /\ chan[<<n, r>>] # <<>> /\ m.seq \in Nat
      /\ halted' \in BOOLEAN
  BY DDFacts DEF DDProcessed
<1>2. /\ state \in [Pair -> DOWN..FULL] /\ ms \in [Pair -> {0, 1}]
      /\ ddSeq \in [Pair -> Nat] /\ headers \in [Pair -> Database]
      /\ requests \in [Pair -> SUBSET Router] /\ req \in [Pair -> SUBSET Router]
      /\ dd \in [Pair -> [seq : Nat, headers : Database]]
      /\ ackTimer \in [Pair -> BOOLEAN] /\ chan \in Output /\ now \in Nat
  BY DEF TypeOK, Output
<1>3. wanted \in SUBSET Router
  BY <1>2 DEF Wanted
<1>4. ask \in Seq(Message) /\ reply \in Seq(Message)
  <2>1. Request(wanted) \in Message /\ DD(0, 0, m.seq, headers[p]) \in Message
    BY <1>1, <1>2, <1>3, MessageMade
  <2> QED BY <2>1
<1>5. (IF ms[p] = 1 THEN ask ELSE reply \o ask) \in Seq(Message)
  BY <1>4, ConcatProperties
<1>6. chan' \in Output
  BY <1>1, <1>2, <1>5, TransmitType, OutputType DEF DDProcessed
<1>7. requests' \in [Pair -> SUBSET Router] /\ req' \in [Pair -> SUBSET Router]
  BY <1>2, <1>3 DEF DDProcessed
<1>8. ddSeq' \in [Pair -> Nat]
  BY <1>1, <1>2 DEF DDProcessed, IncDDseq
<1>9. state' \in [Pair -> DOWN..FULL]
  BY <1>2 DEF DDProcessed
<1>10. dd' \in [Pair -> [seq : Nat, headers : Database]]
  BY <1>2, NoneType DEF DDProcessed, DDAfter
<1>11. ackTimer' \in [Pair -> BOOLEAN]
  BY <1>2 DEF DDProcessed
<1> QED BY <1>1, <1>6, <1>7, <1>8, <1>9, <1>10, <1>11
        DEF DDProcessed, TypeOK, Output, ownVars

LEMMA TypeReceiveRequest ==
  ASSUME TypeOK, NEW r, NEW n, <<r, n>> \in Pair, ReceiveRequest(r, n)
  PROVE  TypeOK'
<1> DEFINE p == <<r, n>>
           ids == Head(chan[<<n, r>>]).ids
           missing == ids \ Held(lsdb[r])
           lsas == [a \in Router |-> IF a \in ids THEN lsdb[r][a] ELSE None]
<1>1. /\ retrans \in [Pair -> [Router -> Nat]] /\ chan \in Output
      /\ upd \in [Pair -> [Router -> Database]] /\ updTimer \in [Pair -> BOOLEAN]
      /\ lsdb[r] \in Database /\ r \in Router
  BY PairType DEF TypeOK, Output
<1>2. chan[<<n, r>>] # <<>>
  BY DEF ReceiveRequest, Arrived
<1>3. retrans' \in [Pair -> [Router -> Nat]]
  BY <1>1, UpdateBookkeepingType DEF ReceiveRequest
<1>4. CASE missing = {}
  <2>1. lsas \in Database
    BY <1>1 DEF Database
  <2>2. chan' \in Output
    BY <1>1, <1>2, <1>4, <2>1, MessageMade, TransmitType, OutputType DEF ReceiveRequest
  <2>3. upd' \in [Pair -> [Router -> Database]] /\ updTimer' \in [Pair -> BOOLEAN]
    <3>1. /\ upd' = Unacked(upd, {p}, r, lsas)
          /\ updTimer' = Armed(updTimer, {p})
      BY <1>4 DEF ReceiveRequest
    <3> HIDE DEF lsas
    <3> QED BY <1>1, <2>1, <3>1, UpdateBookkeepingType
  <2> QED BY <1>3, <1>4, <2>2, <2>3 DEF ReceiveRequest, TypeOK, Output
<1>5. CASE missing # {}
  <2>1. Restart(r, n, <<n, r>>)
    BY <1>5 DEF ReceiveRequest
  <2> QED BY <1>2, <1>3, <2>1, RestartType DEF ReceiveRequest, TypeOK, Output
<1> QED BY <1>4, <1>5

LEMMA TypeDropped ==
  ASSUME TypeOK, NEW r, NEW n, <<r, n>> \in Pair, Dropped(r, n)
  PROVE  TypeOK'
<1>1. chan \in Output
  BY DEF TypeOK, Output
<1>2. chan' \in Output
  BY <1>1, TransmitType, OutputType DEF Dropped
<1> QED BY <1>2 DEF Dropped, TypeOK, Output, nbrVars, ackVars, ownVars

LEMMA TypeReceiveUpdate ==
  ASSUME TypeOK, NEW r, NEW n, <<r, n>> \in Pair, ReceiveUpdate(r, n)
  PROVE  TypeOK'
<1>1. /\ chan \in Output /\ chan[<<n, r>>] # <<>> /\ state[<<r, n>>] \in DOWN..FULL
      /\ Head(chan[<<n, r>>]).type = "UPDATE"
  BY DEF TypeOK, Output, ReceiveUpdate, Arrived
<1>2. Head(chan[<<n, r>>]).lsas \in Database
  BY <1>1, ArrivedFacts, MessageFields
<1>3. chan' \in Output
  BY <1>1, TransmitType, OutputType DEF ReceiveUpdate
<1>4. rx' \in [at : Pair \cup {<<>>}, entry : DOWN..FULL, lsas : Database]
  BY <1>1, <1>2 DEF ReceiveUpdate
<1> QED BY <1>3, <1>4 DEF ReceiveUpdate, TypeOK, Output, nbrVars, ackVars, ownVars

LEMMA TakesUpType ==
  ASSUME TypeOK, NEW r, NEW n, <<r, n>> \in Pair, NEW a \in Router, TakesUp(r, n, a)
  PROVE  /\ rx.lsas[a] \in Nat /\ Only(a, rx.lsas[a]) \in Database
         /\ Update(Only(a, rx.lsas[a])) \in Message
         /\ rx' \in [at : Pair \cup {<<>>}, entry : DOWN..FULL, lsas : Database]
<1>1. rx \in [at : Pair \cup {<<>>}, entry : DOWN..FULL, lsas : Database]
  BY DEF TypeOK
<1>2. rx.lsas \in Database /\ rx.lsas[a] # None
  BY <1>1 DEF TakesUp, NextInUpdate, Held
<1>3. rx.lsas[a] \in Nat
  BY <1>2 DEF Database
<1>4. [rx.lsas EXCEPT ![a] = None] \in Database
  BY <1>2, DatabaseType
<1>5. rx' = [rx EXCEPT !.lsas = [rx.lsas EXCEPT ![a] = None]]
  BY DEF TakesUp
<1>6. rx' \in [at : Pair \cup {<<>>}, entry : DOWN..FULL, lsas : Database]
  BY <1>1, <1>4, <1>5
<1> QED BY <1>3, <1>6, DatabaseType, MessageMade

LEMMA TypeInstallLSA ==
  ASSUME TypeOK, NEW r, NEW n, <<r, n>> \in Pair, NEW a \in Router,
         InstallLSA(r, n, a)
  PROVE  TypeOK'
<1> DEFINE P == Flooded(r, n, a)
           lsa == Only(a, rx.lsas[a])
           out == [q \in Pair |-> IF q = <<r, n>> THEN <<Ack(a)>>
                                  ELSE ToEach(P, Update(lsa))[q]]
<1>1. /\ requests \in [Pair -> SUBSET Router] /\ chan \in Output
      /\ retrans \in [Pair -> [Router -> Nat]]
      /\ upd \in [Pair -> [Router -> Database]] /\ updTimer \in [Pair -> BOOLEAN]
      /\ lsdb \in [Router -> Database] /\ aging \in [Router -> SUBSET Router]
      /\ r \in Router
  BY PairType DEF TypeOK, Output
<1>2. /\ rx.lsas[a] \in Nat /\ lsa \in Database
      /\ rx' \in [at : Pair \cup {<<>>}, entry : DOWN..FULL, lsas : Database]
      /\ ToEach(P, Update(lsa)) \in Output /\ <<Ack(a)>> \in Seq(Message)
  BY TakesUpType, OutputType, MessageMade DEF InstallLSA
<1>3. out \in Output
  BY <1>2, Zenon DEF Output
<1>4. chan' \in Output
  <2>1. Transmit(<<>>, out)
    BY DEF InstallLSA
  <2> HIDE DEF out
  <2> QED BY <1>1, <1>3, <2>1, TransmitType, NoEmptyPair
<1>5. requests' \in [Pair -> SUBSET Router]
  BY <1>1 DEF InstallLSA
<1>6. /\ retrans' \in [Pair -> [Router -> Nat]] /\ updTimer' \in [Pair -> BOOLEAN]
  BY <1>1, UpdateBookkeepingType DEF InstallLSA
<1>7. upd' \in [Pair -> [Router -> Database]]
  BY <1>1, <1>2, UpdateBookkeepingType DEF InstallLSA
<1>8. lsdb' \in [Router -> Database]
  BY <1>1, <1>2, DatabaseType DEF InstallLSA
<1>9. aging' \in [Router -> SUBSET Router]
  BY <1>1 DEF InstallLSA
<1> QED BY <1>2, <1>4, <1>5, <1>6, <1>7, <1>8, <1>9
        DEF InstallLSA, TakesUp, TypeOK, Output

LEMMA TypeUnexpectedLSA ==
  ASSUME TypeOK, NEW r, NEW n, <<r, n>> \in Pair, NEW a \in Router,
         UnexpectedLSA(r, n, a)
  PROVE  TypeOK'
<1>1. Restart(r, n, <<>>) /\ rx' = Resting
  BY DEF UnexpectedLSA
<1> QED BY <1>1, RestartType, NoEmptyPair, NoneType DEF UnexpectedLSA, TypeOK, Output

LEMMA AckUpdatesType ==
  ASSUME TypeOK, NEW p \in Pair, NEW a \in Router, AckUpdates(p, a)
  PROVE  /\ halted' \in BOOLEAN /\ retrans' \in [Pair -> [Router -> Nat]]
         /\ upd' \in [Pair -> [Router -> Database]]
         /\ updTimer' \in [Pair -> BOOLEAN]
<1>1. /\ retrans \in [Pair -> [Router -> Nat]]
      /\ upd \in [Pair -> [Router -> Database]] /\ updTimer \in [Pair -> BOOLEAN]
  BY DEF TypeOK
<1>2. retrans[p][a] > 0 => Unlisted(p, a) \in [Router -> Nat]
  BY <1>1 DEF Unlisted
<1>3. retrans' \in [Pair -> [Router -> Nat]]
  BY <1>1, <1>2 DEF AckUpdates
<1>4. upd' \in [Pair -> [Router -> Database]]
  BY <1>1, NoneType DEF AckUpdates
<1>5. halted' \in BOOLEAN /\ updTimer' \in [Pair -> BOOLEAN]
  BY <1>1 DEF AckUpdates
<1> QED BY <1>3, <1>4, <1>5

LEMMA TypeEqualLSA ==
  ASSUME TypeOK, NEW r, NEW n, <<r, n>> \in Pair, NEW a \in Router,
         EqualLSA(r, n, a)
  PROVE  TypeOK'
<1>1. chan \in Output
  BY DEF TypeOK, Output
<1>2. chan' \in Output
  BY <1>1, MessageMade, OutputType, TransmitType, NoEmptyPair DEF EqualLSA
<1>3. rx' \in [at : Pair \cup {<<>>}, entry : DOWN..FULL, lsas : Database]
  BY TakesUpType DEF EqualLSA
<1> QED BY <1>2, <1>3, AckUpdatesType DEF EqualLSA, TakesUp, TypeOK, Output

LEMMA TypeOlderLSA ==
  ASSUME TypeOK, NEW r, NEW n, <<r, n>> \in Pair, NEW a \in Router,
         OlderLSA(r, n, a)
  PROVE  TypeOK'
<1> DEFINE p == <<r, n>>
           lsa == Only(a, lsdb[r][a])
<1>1. /\ chan \in Output /\ retrans \in [Pair -> [Router -> Nat]]
      /\ upd \in [Pair -> [Router -> Database]] /\ updTimer \in [Pair -> BOOLEAN]
      /\ lsdb[r] \in Database /\ r \in Router
  BY PairType DEF TypeOK, Output
<1>2. lsa \in Database
  BY <1>1, DatabaseType DEF Database
<1>3. chan' \in Output
  BY <1>1, <1>2, MessageMade, OutputType, TransmitType, NoEmptyPair DEF OlderLSA
<1>4. retrans' \in [Pair -> [Router -> Nat]] /\ updTimer' \in [Pair -> BOOLEAN]
  BY <1>1, UpdateBookkeepingType DEF OlderLSA
<1>5. upd' \in [Pair -> [Router -> Database]]
  BY <1>1, <1>2, UpdateBookkeepingType DEF OlderLSA
<1>6. rx' \in [at : Pair \cup {<<>>}, entry : DOWN..FULL, lsas : Database]
  BY TakesUpType DEF OlderLSA
<1> QED BY <1>3, <1>4, <1>5, <1>6 DEF OlderLSA, TakesUp, TypeOK, Output

LEMMA TypeFinishUpdate ==
  ASSUME TypeOK, NEW r, NEW n, <<r, n>> \in Pair, FinishUpdate(r, n)
  PROVE  TypeOK'
<1>1. /\ state \in [Pair -> DOWN..FULL] /\ req \in [Pair -> SUBSET Router]
      /\ ackTimer \in [Pair -> BOOLEAN]
  BY DEF TypeOK
<1>2. state' \in [Pair -> DOWN..FULL] /\ req' \in [Pair -> SUBSET Router]
  BY <1>1 DEF FinishUpdate
<1>3. halted' \in BOOLEAN /\ ackTimer' \in [Pair -> BOOLEAN]
  BY <1>1 DEF FinishUpdate
<1>4. rx' \in [at : Pair \cup {<<>>}, entry : DOWN..FULL, lsas : Database]
  BY NoneType DEF FinishUpdate
<1> QED BY <1>2, <1>3, <1>4 DEF FinishUpdate, TypeOK, ownVars

LEMMA TypeReceiveAck ==
  ASSUME TypeOK, NEW r, NEW n, <<r, n>> \in Pair, ReceiveAck(r, n)
  PROVE  TypeOK'
<1> DEFINE a == Head(chan[<<n, r>>]).adv
<1>1. /\ chan \in Output /\ chan[<<n, r>>] # <<>>
      /\ Head(chan[<<n, r>>]).type = "ACK"
  BY DEF TypeOK, Output, ReceiveAck, Arrived
<1>2. a \in Router
  BY <1>1, ArrivedFacts, MessageFields
<1>3. AckUpdates(<<r, n>>, a)
  BY DEF ReceiveAck
<1>4. chan' \in Output
  BY <1>1, TransmitType, OutputType DEF ReceiveAck
<1>5. /\ halted' \in BOOLEAN /\ retrans' \in [Pair -> [Router -> Nat]]
      /\ upd' \in [Pair -> [Router -> Database]]
      /\ updTimer' \in [Pair -> BOOLEAN]
  BY <1>2, <1>3, AckUpdatesType
<1> QED BY <1>4, <1>5 DEF ReceiveAck, TypeOK, Output, ownVars

LEMMA TypeResendMessages ==
  ASSUME TypeOK, NEW p \in Pair, NEW ack \in BOOLEAN, NEW up \in BOOLEAN,
         ResendMessages(p, ack, up)
  PROVE  TypeOK'
<1>1. /\ chan \in Output /\ ackTimer \in [Pair -> BOOLEAN]
      /\ updTimer \in [Pair -> BOOLEAN]
  BY DEF TypeOK, Output
<1>2. Unanswered(p) \in Seq(Message) /\ UpdatesDue(p) \in Seq(Message)
  BY UnansweredType, UpdatesDueType DEF TypeOK
<1>3. chan' \in Output
  BY <1>1, <1>2, OutputType, TransmitType, NoEmptyPair DEF ResendMessages
<1>4. ackTimer' \in [Pair -> BOOLEAN] /\ updTimer' \in [Pair -> BOOLEAN]
  BY <1>1 DEF ResendMessages
<1> QED BY <1>3, <1>4 DEF ResendMessages, TypeOK, Output, nbrVars, ownVars

LEMMA TypeCostChanged ==
  ASSUME TypeOK, NEW r \in Router, CostChanged(r)
  PROVE  TypeOK'
<1> DEFINE P == FloodOwn(r, r)
           lsa == Only(r, NextOwn(r))
<1>1. /\ chan \in Output /\ retrans \in [Pair -> [Router -> Nat]]
      /\ upd \in [Pair -> [Router -> Database]] /\ updTimer \in [Pair -> BOOLEAN]
      /\ upLinks \in [Router -> SUBSET Router]
  BY DEF TypeOK, Output
<1>2. lsa \in Database /\ ToEach(P, Update(lsa)) \in Output
  BY NextOwnType, OutputType
<1>3. chan' \in Output
  BY <1>1, <1>2, TransmitType, NoEmptyPair DEF CostChanged
<1>4. retrans' \in [Pair -> [Router -> Nat]] /\ updTimer' \in [Pair -> BOOLEAN]
  BY <1>1, UpdateBookkeepingType DEF CostChanged
<1>5. upd' \in [Pair -> [Router -> Database]]
  BY <1>1, <1>2, UpdateBookkeepingType DEF CostChanged
<1>6. lsdb' \in [Router -> Database]
  BY NextOwnType DEF CostChanged
<1>7. upLinks' \in [Router -> SUBSET Router]
  BY <1>1 DEF CostChanged, Neighbours
<1> QED BY <1>3, <1>4, <1>5, <1>6, <1>7 DEF CostChanged, TypeOK, Output

LEMMA TypeLose ==
  ASSUME TypeOK, NEW p \in Pair, Lose(p)
  PROVE  TypeOK'
<1>1. chan \in Output /\ chan[p] # <<>>
  BY DEF TypeOK, Output, Lose
<1>2. chan' \in Output
  BY <1>1, OutputType, TransmitType DEF Lose
<1> QED BY <1>2 DEF Lose, TypeOK, Output, nbrVars, ackVars, ownVars

LEMMA TypeNext == TypeOK /\ [Next]_vars => TypeOK'
<1> SUFFICES ASSUME TypeOK, [Next]_vars PROVE TypeOK'
  OBVIOUS
<1>1. ASSUME NEW r, NEW n, <<r, n>> \in Pair, Receive(r, n) PROVE TypeOK'
  BY <1>1, TypeReceiveHelloTwoWay, TypeReceiveHelloOneWay, TypeDDIgnored,
     TypeNegotiateAsSlave, TypeNegotiateAsMaster, TypeRolesUndecided,
     TypeDDOutOfTurn, TypeDDProcessed, TypeReceiveRequest, TypeReceiveUpdate,
     TypeDropped, TypeReceiveAck DEF Receive
<1>2. ASSUME NEW r, NEW n, <<r, n>> \in Pair, WorkThrough(r, n) PROVE TypeOK'
  BY <1>2, TypeInstallLSA, TypeUnexpectedLSA, TypeEqualLSA, TypeOlderLSA,
     TypeFinishUpdate DEF WorkThrough
<1>3. ASSUME NEW r, NEW n, <<r, n>> \in Pair, Timer(r, n) PROVE TypeOK'
  <2>1. ackTimer[<<r, n>>] \in BOOLEAN /\ updTimer[<<r, n>>] \in BOOLEAN
    BY <1>3 DEF TypeOK
  <2>2. CASE AckTimerExpires(r, n)
    BY <1>3, <2>1, <2>2, TypeResendMessages DEF AckTimerExpires
  <2>3. CASE UpdTimerExpires(r, n)
    BY <1>3, <2>1, <2>3, TypeResendMessages DEF UpdTimerExpires
  <2>4. CASE InactivityExpires(r, n)
    BY <1>3, <2>4, TypeInactivityExpires
  <2> QED BY <1>3, <2>2, <2>3, <2>4 DEF Timer
<1>4. ASSUME NEW r \in Router, AgingAborts(r) PROVE TypeOK'
  BY <1>4 DEF AgingAborts, TypeOK, nbrVars, ackVars, ownVars
<1>5. CASE UNCHANGED vars
  BY <1>5 DEF vars, TypeOK, nbrVars, ackVars, ownVars
<1>6. CASE Next
  <2>1. ASSUME NEW p \in Pair, \/ Receive(p[1], p[2]) \/ WorkThrough(p[1], p[2])
                               \/ Timer(p[1], p[2]) \/ Lose(p)
        PROVE  TypeOK'
    BY <1>1, <1>2, <1>3, <2>1, PairIsTuple, TypeLose
  <2> QED BY <1>4, <1>6, <2>1, TypeSendHellos, TypeCostChanged DEF Next
<1> QED BY <1>5, <1>6

(* Type correctness, for any finite set of routers, any point-to-point     *)
(* links and any bounds: in particular delLSARetrans never takes a copy    *)
(* off a list that has none, and every packet on a link is well formed.    *)
THEOREM TypeCorrect == Spec => []TypeOK
BY TypeInit, TypeNext, PTL DEF Spec

-----------------------------------------------------------------------------
(* The databases implement LinkStateReplicas.                              *)

LEMMA InstalledIsLearnt ==
  ASSUME TypeOK, InstancesAreMade, NEW r, NEW n, <<r, n>> \in Pair,
         NEW a \in Router, InstallLSA(r, n, a)
  PROVE  Replicas!Learn(r, a)
<1>1. /\ r \in Router /\ lsdb \in [Router -> Database]
      /\ rx.lsas[a] \in Nat
  BY PairType, TakesUpType DEF TypeOK, InstallLSA
<1>2. rx.lsas[a] <= lsdb[a][a]
  BY DEF InstancesAreMade, Made
<1>3. rx.lsas[a] > lsdb[r][a] /\ lsdb' = [lsdb EXCEPT ![r][a] = rx.lsas[a]]
  BY DEF InstallLSA, News
<1>4. lsdb[r][a] \in Int /\ lsdb[a][a] \in Int
  BY <1>1 DEF Database, None
<1>5. a # r
  BY <1>1, <1>2, <1>3, <1>4
<1>6. rx.lsas[a] \in lsdb[r][a] + 1 .. lsdb[a][a]
  BY <1>1, <1>2, <1>3, <1>4
<1> QED BY <1>3, <1>5, <1>6 DEF Replicas!Learn

(* Every step originates one instance, learns one, or leaves the databases *)
(* alone.                                                                  *)
LEMMA DatabaseStep ==
  ASSUME TypeOK, InstancesAreMade, [Next]_vars
  PROVE  [Replicas!Next]_lsdb
<1>1. ASSUME NEW r \in Router, Originate(r) PROVE Replicas!Next
  BY <1>1 DEF Originate, Replicas!Next, Replicas!Originate
<1>2. ASSUME NEW r, NEW n, <<r, n>> \in Pair, Receive(r, n)
      PROVE  UNCHANGED lsdb \/ Originate(r)
  <2>1. CASE ReceiveHelloTwoWay(r, n) \/ ReceiveHelloOneWay(r, n)
    BY <2>1 DEF ReceiveHelloTwoWay, ReceiveHelloOneWay, HeardFrom
  <2>2. CASE DDIgnored(r, n) \/ DDOutOfTurn(r, n) \/ DDProcessed(r, n)
    BY <2>2 DEF DDIgnored, DDOutOfTurn, DDProcessed, ownVars
  <2>3. CASE \/ NegotiateAsSlave(r, n) \/ NegotiateAsMaster(r, n)
             \/ RolesUndecided(r, n)
    BY <2>3 DEF NegotiateAsSlave, NegotiateAsMaster, RolesUndecided, Negotiating
  <2>4. CASE \/ ReceiveRequest(r, n) \/ ReceiveUpdate(r, n)
             \/ Dropped(r, n) \/ ReceiveAck(r, n)
    BY <2>4 DEF ReceiveRequest, ReceiveUpdate, Dropped, ReceiveAck, ownVars
  <2> QED BY <1>2, <2>1, <2>2, <2>3, <2>4 DEF Receive
<1>3. ASSUME NEW r, NEW n, <<r, n>> \in Pair, WorkThrough(r, n)
      PROVE  UNCHANGED lsdb \/ Replicas!Next
  <2>1. CASE FinishUpdate(r, n)
    BY <2>1 DEF FinishUpdate, ownVars
  <2>2. ASSUME NEW a \in Router, InstallLSA(r, n, a) PROVE Replicas!Next
    BY <1>3, <2>2, PairType, InstalledIsLearnt DEF Replicas!Next
  <2>3. ASSUME NEW a \in Router,
               UnexpectedLSA(r, n, a) \/ EqualLSA(r, n, a) \/ OlderLSA(r, n, a)
        PROVE  UNCHANGED lsdb
    BY <2>3 DEF UnexpectedLSA, EqualLSA, OlderLSA
  <2> QED BY <1>3, <2>1, <2>2, <2>3 DEF WorkThrough
<1>4. ASSUME NEW r, NEW n, <<r, n>> \in Pair, Timer(r, n)
      PROVE  UNCHANGED lsdb \/ Originate(r)
  BY <1>4 DEF Timer, AckTimerExpires, UpdTimerExpires, ResendMessages,
              InactivityExpires, ownVars
<1>5. ASSUME NEW r \in Router, SendHellos(r) \/ CostChanged(r) \/ AgingAborts(r)
      PROVE  UNCHANGED lsdb \/ Originate(r)
  BY <1>5 DEF SendHellos, CostChanged, AgingAborts, ownVars
<1>6. ASSUME NEW p \in Pair, Lose(p) PROVE UNCHANGED lsdb
  BY <1>6 DEF Lose, ownVars
<1>7. CASE Next
  <2>1. ASSUME NEW p \in Pair, \/ Receive(p[1], p[2]) \/ WorkThrough(p[1], p[2])
                               \/ Timer(p[1], p[2]) \/ Lose(p)
        PROVE  UNCHANGED lsdb \/ Replicas!Next
    BY <1>1, <1>2, <1>3, <1>4, <1>6, <2>1, PairIsTuple
  <2> QED BY <1>1, <1>5, <1>7, <2>1 DEF Next
<1>8. CASE UNCHANGED vars
  BY <1>8 DEF vars, ownVars
<1> QED BY <1>7, <1>8

(* What is known of a step once it is known to be one of the abstract      *)
(* specification; what has been made when it is over.                      *)
Stepping == TypeOK /\ TypeOK' /\ InstancesAreMade /\ [Replicas!Next]_lsdb

WillBeMade(db) == \A a \in Router : db[a] <= lsdb'[a][a]

(* Own instances only grow, so what has been made stays made.              *)
LEMMA StaysMade ==
  ASSUME Stepping
  PROVE  /\ \A a \in Router : lsdb[a][a] <= lsdb'[a][a]
         /\ \A db \in Database : Made(db) => WillBeMade(db)
         /\ WillBeMade(Empty)
<1>1. lsdb \in [Router -> Database] /\ lsdb' \in [Router -> Database]
  BY DEF Stepping, TypeOK
<1>2. ASSUME NEW a \in Router PROVE lsdb[a][a] <= lsdb'[a][a]
  <2>0. lsdb[a][a] \in Int /\ lsdb'[a][a] \in Int
    BY <1>1 DEF Database, None
  <2>1. ASSUME NEW r \in Router, Replicas!Originate(r)
        PROVE  lsdb[a][a] <= lsdb'[a][a]
    BY <1>1, <2>0, <2>1 DEF Replicas!Originate, Database
  <2>2. ASSUME NEW r \in Router, NEW b \in Router, Replicas!Learn(r, b)
        PROVE  lsdb[a][a] <= lsdb'[a][a]
    BY <1>1, <2>0, <2>2 DEF Replicas!Learn, Database
  <2> QED BY <2>0, <2>1, <2>2 DEF Stepping, Replicas!Next
<1>3. ASSUME NEW db \in Database, Made(db) PROVE WillBeMade(db)
  BY <1>1, <1>2, <1>3 DEF Made, WillBeMade, Database, None
<1>4. WillBeMade(Empty)
  BY <1>1 DEF WillBeMade, Empty, Database, None
<1> QED BY <1>2, <1>3, <1>4

LEMMA DatabasesStayMade ==
  ASSUME Stepping
  PROVE  \A r \in Router : WillBeMade(lsdb'[r])
<1> SUFFICES ASSUME NEW r \in Router, NEW a \in Router
             PROVE  lsdb'[r][a] <= lsdb'[a][a]
  BY DEF WillBeMade
<1>1. lsdb \in [Router -> Database] /\ lsdb' \in [Router -> Database]
  BY DEF Stepping, TypeOK
<1>2. /\ lsdb[r][a] \in Int /\ lsdb'[r][a] \in Int
      /\ lsdb[a][a] \in Int /\ lsdb'[a][a] \in Int
  BY <1>1 DEF Database, None
<1>3. lsdb[r][a] <= lsdb[a][a] /\ lsdb[a][a] <= lsdb'[a][a]
  BY StaysMade DEF Stepping, InstancesAreMade, Made
<1>4. CASE lsdb'[r][a] = lsdb[r][a] \/ r = a
  BY <1>2, <1>3, <1>4
<1>5. ASSUME NEW q \in Router, Replicas!Originate(q)
      PROVE  lsdb'[r][a] = lsdb[r][a] \/ r = a
  BY <1>1, <1>5 DEF Replicas!Originate, Database
<1>6. ASSUME NEW q \in Router, NEW b \in Router, Replicas!Learn(q, b)
      PROVE  lsdb'[r][a] <= lsdb'[a][a]
  <2>1. PICK seq \in lsdb[q][b] + 1 .. lsdb[b][b] :
               lsdb' = [lsdb EXCEPT ![q][b] = seq]
    BY <1>6 DEF Replicas!Learn
  <2>2. q # b
    BY <1>6 DEF Replicas!Learn
  <2>3. lsdb[q][b] \in Int /\ lsdb[b][b] \in Int
    BY <1>1 DEF Database, None
  <2>4. CASE r = q /\ a = b
    <3>1. lsdb'[r][a] = seq /\ seq <= lsdb[a][a]
      BY <1>1, <2>1, <2>3, <2>4 DEF Database
    <3> QED BY <1>2, <1>3, <2>1, <2>3, <3>1
  <2>5. CASE ~(r = q /\ a = b)
    BY <1>1, <1>2, <1>3, <2>1, <2>5 DEF Database
  <2> QED BY <2>4, <2>5
<1> QED BY <1>2, <1>3, <1>4, <1>5, <1>6 DEF Stepping, Replicas!Next

MessageMadeNext(m) == m.type = "UPDATE" => WillBeMade(m.lsas)
SequenceMade(msgs) == \A i \in DOMAIN msgs : MessageMadeNext(msgs[i])
OutputMade(out) == \A p \in Pair : SequenceMade(out[p])
UpdatesMade(u) == \A p \in Pair : \A a \in Router : WillBeMade(u[p][a])

LEMMA SequenceMadeForms ==
  /\ SequenceMade(<<>>)
  /\ \A m \in Message : MessageMadeNext(m) => SequenceMade(<<m>>)
  /\ \A s, t \in Seq(Message) :
       SequenceMade(s) /\ SequenceMade(t) => SequenceMade(s \o t)
  /\ \A s \in Seq(Message), m \in Message :
       SequenceMade(s) /\ MessageMadeNext(m) => SequenceMade(Append(s, m))
  /\ \A s \in Seq(Message) : s # <<>> /\ SequenceMade(s) => SequenceMade(Tail(s))
<1>1. SequenceMade(<<>>)
  BY DEF SequenceMade
<1>2. ASSUME NEW m \in Message, MessageMadeNext(m) PROVE SequenceMade(<<m>>)
  BY <1>2 DEF SequenceMade
<1>3. ASSUME NEW s \in Seq(Message), NEW t \in Seq(Message),
             SequenceMade(s), SequenceMade(t)
      PROVE  SequenceMade(s \o t)
  <2>1. /\ s \o t \in Seq(Message) /\ Len(s) \in Nat /\ Len(t) \in Nat
        /\ Len(s \o t) = Len(s) + Len(t)
        /\ DOMAIN s = 1..Len(s) /\ DOMAIN t = 1..Len(t)
        /\ DOMAIN (s \o t) = 1..Len(s) + Len(t)
    BY ConcatProperties, LenProperties
  <2>2. ASSUME NEW i \in 1..Len(s) + Len(t) PROVE MessageMadeNext((s \o t)[i])
    <3>1. CASE i <= Len(s)
      BY <1>3, <2>1, <3>1, ConcatProperties DEF SequenceMade
    <3>2. CASE i > Len(s)
      <4>1. i - Len(s) \in 1..Len(t) /\ (s \o t)[i] = t[i - Len(s)]
        BY <2>1, <3>2, ConcatProperties
      <4> QED BY <1>3, <2>1, <4>1 DEF SequenceMade
    <3> QED BY <2>1, <3>1, <3>2
  <2> QED BY <2>1, <2>2 DEF SequenceMade
<1>4. ASSUME NEW s \in Seq(Message), NEW m \in Message,
             SequenceMade(s), MessageMadeNext(m)
      PROVE  SequenceMade(Append(s, m))
  <2>1. Append(s, m) = s \o <<m>> /\ <<m>> \in Seq(Message)
    BY AppendIsConcat
  <2> QED BY <1>2, <1>3, <1>4, <2>1
<1>5. ASSUME NEW s \in Seq(Message), s # <<>>, SequenceMade(s)
      PROVE  SequenceMade(Tail(s))
  <2>1. /\ DOMAIN s = 1..Len(s) /\ Len(s) \in Nat
        /\ DOMAIN Tail(s) = 1..Len(s) - 1
        /\ \A i \in 1..Len(s) - 1 : Tail(s)[i] = s[i + 1]
    BY <1>5, HeadTailProperties, LenProperties
  <2> QED BY <1>5, <2>1 DEF SequenceMade
<1> QED BY <1>1, <1>2, <1>3, <1>4, <1>5

LEMMA OutputMadeForms ==
  /\ OutputMade(Silent)
  /\ \A p : \A msgs \in Seq(Message) :
       SequenceMade(msgs) => OutputMade(To(p, msgs))
  /\ \A p : \A m \in Message : MessageMadeNext(m) => OutputMade(To(p, <<m>>))
  /\ \A P : \A m \in Message : MessageMadeNext(m) => OutputMade(ToEach(P, m))
  /\ \A m : OutputMade(ToEach({}, m))
<1>1. OutputMade(Silent)
  BY SequenceMadeForms DEF OutputMade, Silent
<1>2. ASSUME NEW p, NEW msgs \in Seq(Message), SequenceMade(msgs)
      PROVE  OutputMade(To(p, msgs))
  BY <1>1, <1>2 DEF OutputMade, To, Silent
<1>3. ASSUME NEW p, NEW m \in Message, MessageMadeNext(m)
      PROVE  OutputMade(To(p, <<m>>))
  <2>1. <<m>> \in Seq(Message) /\ SequenceMade(<<m>>)
    BY <1>3, SequenceMadeForms
  <2> QED BY <1>2, <2>1
<1>4. ASSUME NEW P, NEW m \in Message, MessageMadeNext(m)
      PROVE  OutputMade(ToEach(P, m))
  BY <1>4, SequenceMadeForms, Zenon DEF OutputMade, ToEach
<1>5. ASSUME NEW m PROVE OutputMade(ToEach({}, m))
  BY SequenceMadeForms DEF OutputMade, ToEach
<1> QED BY <1>1, <1>2, <1>3, <1>4, <1>5

LEMMA MadeUnsent ==
  ASSUME Stepping
  PROVE  OutputMade(chan)
<1> SUFFICES ASSUME NEW p \in Pair, NEW i \in DOMAIN chan[p],
                    chan[p][i].type = "UPDATE"
             PROVE  WillBeMade(chan[p][i].lsas)
  BY DEF OutputMade, SequenceMade, MessageMadeNext
<1>1. chan[p][i] \in Message
  BY DEF Stepping, TypeOK
<1>2. chan[p][i].lsas \in Database
  BY <1>1, MessageFields
<1>3. Made(chan[p][i].lsas)
  BY DEF Stepping, InstancesAreMade
<1> QED BY <1>2, <1>3, StaysMade

LEMMA TransmitMade ==
  ASSUME Stepping, NEW out \in Output, OutputMade(out), NEW q,
         q \in Pair => chan[q] # <<>>, Transmit(q, out)
  PROVE  OutputMade(chan')
<1> SUFFICES ASSUME NEW p \in Pair PROVE SequenceMade(chan'[p])
  BY DEF OutputMade
<1> DEFINE s == IF p = q THEN Tail(chan[p]) ELSE chan[p]
<1>1. chan[p] \in Seq(Message) /\ out[p] \in Seq(Message)
  BY DEF Stepping, TypeOK, Output
<1>2. SequenceMade(chan[p])
  BY MadeUnsent DEF OutputMade
<1>3. SequenceMade(s) /\ s \in Seq(Message)
  BY <1>1, <1>2, SequenceMadeForms, HeadTailProperties
<1>4. chan'[p] = s \o out[p]
  BY DEF Transmit
<1>5. SequenceMade(out[p])
  BY DEF OutputMade
<1> HIDE DEF s
<1> QED BY <1>1, <1>3, <1>4, <1>5, SequenceMadeForms

LEMMA UpdatesStayMade ==
  ASSUME Stepping
  PROVE  /\ UpdatesMade(upd)
         /\ \A u, p : UpdatesMade(u) /\ u \in [Pair -> [Router -> Database]]
              => UpdatesMade([u EXCEPT ![p] = NoUpdates])
         /\ \A u \in [Pair -> [Router -> Database]], a \in Router : \A P, lsas :
              UpdatesMade(u) /\ WillBeMade(lsas)
                => UpdatesMade(Unacked(u, P, a, lsas))
<1>1. UpdatesMade(upd)
  <2>1. upd \in [Pair -> [Router -> Database]]
    BY DEF Stepping, TypeOK
  <2> QED BY <2>1, StaysMade DEF UpdatesMade, Stepping, InstancesAreMade
<1>2. ASSUME NEW u, NEW p, UpdatesMade(u), u \in [Pair -> [Router -> Database]]
      PROVE  UpdatesMade([u EXCEPT ![p] = NoUpdates])
  BY <1>2, StaysMade DEF UpdatesMade, NoUpdates
<1>3. ASSUME NEW u \in [Pair -> [Router -> Database]], NEW a \in Router, NEW P,
             NEW lsas, UpdatesMade(u), WillBeMade(lsas)
      PROVE  UpdatesMade(Unacked(u, P, a, lsas))
  BY <1>3 DEF UpdatesMade, Unacked
<1> QED BY <1>1, <1>2, <1>3

LEMMA MadeStep ==
  ASSUME Stepping, OutputMade(chan'), UpdatesMade(upd'), WillBeMade(rx'.lsas)
  PROVE  InstancesAreMade'
BY DatabasesStayMade DEF InstancesAreMade, Made, OutputMade, SequenceMade,
   MessageMadeNext, UpdatesMade, WillBeMade

LEMMA HandStaysMade ==
  ASSUME Stepping
  PROVE  WillBeMade(rx.lsas) /\ WillBeMade(Resting.lsas)
BY StaysMade DEF Stepping, TypeOK, InstancesAreMade, Resting

(* The packets that are not updates carry no instance.                     *)
LEMMA NotAnUpdate ==
  /\ MessageMadeNext(Hello)
  /\ \A i, m, seq, h : MessageMadeNext(DD(i, m, seq, h))
  /\ \A seq : MessageMadeNext(InitialDD(seq))
  /\ \A ids : MessageMadeNext(Request(ids))
  /\ \A a : MessageMadeNext(Ack(a))
  /\ \A lsas : WillBeMade(lsas) => MessageMadeNext(Update(lsas))
BY DEF MessageMadeNext, Hello, DD, InitialDD, Request, Ack, Update

LEMMA NextOwnMade ==
  ASSUME Stepping, NEW r \in Router, Originate(r)
  PROVE  WillBeMade(Only(r, NextOwn(r)))
<1>1. lsdb \in [Router -> Database] /\ lsdb' \in [Router -> Database]
  BY DEF Stepping, TypeOK
<1>2. lsdb'[r][r] = NextOwn(r)
  BY <1>1 DEF Originate, NextOwn, Database
<1>3. NextOwn(r) \in Int
  BY <1>1 DEF NextOwn, Database, None
<1>4. \A a \in Router : lsdb'[a][a] \in Int /\ -1 <= lsdb'[a][a]
  BY <1>1 DEF Database, None
<1> QED BY <1>2, <1>3, <1>4 DEF WillBeMade, Only, Empty, None

LEMMA MadeRestart ==
  ASSUME Stepping, NEW r, NEW n, <<r, n>> \in Pair, NEW q, Restart(r, n, q),
         q \in Pair => chan[q] # <<>>
  PROVE  OutputMade(chan') /\ UpdatesMade(upd')
<1> DEFINE m == InitialDD(IncDDseq(ddSeq[<<r, n>>]))
<1>1. ddSeq \in [Pair -> Nat] /\ now \in Nat
      /\ upd \in [Pair -> [Router -> Database]]
  BY DEF Stepping, TypeOK
<1>2. m \in Message /\ SequenceMade(<<m>>)
  BY <1>1, MessageMade, NotAnUpdate, SequenceMadeForms DEF IncDDseq
<1>3. /\ To(<<r, n>>, <<m>>) \in Output /\ OutputMade(To(<<r, n>>, <<m>>))
  BY <1>2, OutputType, OutputMadeForms
<1>4. OutputMade(chan')
  BY <1>3, TransmitMade DEF Restart
<1>5. UpdatesMade(upd')
  BY <1>1, UpdatesStayMade DEF Restart
<1> QED BY <1>4, <1>5

LEMMA MadeSendHellos ==
  ASSUME Stepping, NEW r \in Router, SendHellos(r)
  PROVE  InstancesAreMade'
<1> DEFINE out == ToEach({<<r, n>> : n \in Neighbours(r)}, Hello)
<1>1. out \in Output /\ OutputMade(out)
  BY OutputType, OutputMadeForms, NotAnUpdate, MessageMade
<1>2. Transmit(<<>>, out)
  BY DEF SendHellos
<1> HIDE DEF out
<1>3. OutputMade(chan')
  BY <1>1, <1>2, TransmitMade, NoEmptyPair
<1> QED BY <1>3, MadeStep, UpdatesStayMade, HandStaysMade DEF SendHellos, ackVars

(* What receiveHello sends and keeps when the link comes up again.         *)
LEMMA MadeHeardFrom ==
  ASSUME Stepping, NEW r, NEW n, <<r, n>> \in Pair, HeardFrom(r, n)
  PROVE  /\ ToEach(UpFlood(r, n), Update(Only(r, NextOwn(r)))) \in Output
         /\ OutputMade(ToEach(UpFlood(r, n), Update(Only(r, NextOwn(r)))))
         /\ UpdatesMade(upd')
<1> DEFINE lsa == Only(r, NextOwn(r))
<1>1. /\ r \in Router /\ lsa \in Database /\ Update(lsa) \in Message
      /\ upd \in [Pair -> [Router -> Database]]
  BY PairType, NextOwnType DEF Stepping, TypeOK
<1>2. ToEach(UpFlood(r, n), Update(lsa)) \in Output
  BY <1>1, OutputType
<1>3. upd' = Unacked(upd, UpFlood(r, n), r, lsa)
  BY DEF HeardFrom
<1>4. CASE LinkUp(r, n)
  <2>1. WillBeMade(lsa)
    BY <1>1, <1>4, NextOwnMade DEF HeardFrom
  <2> HIDE DEF lsa
  <2>2. OutputMade(ToEach(UpFlood(r, n), Update(lsa)))
    BY <1>1, <2>1, OutputMadeForms, NotAnUpdate
  <2>3. UpdatesMade(upd')
    BY <1>1, <1>3, <2>1, UpdatesStayMade
  <2> QED BY <1>2, <2>2, <2>3 DEF lsa
<1>5. CASE ~LinkUp(r, n)
  <2>1. UpFlood(r, n) = {}
    BY <1>5 DEF UpFlood
  <2>2. upd' = upd
    BY <1>1, <1>3, <2>1 DEF Unacked
  <2> QED BY <1>2, <2>1, <2>2, OutputMadeForms, UpdatesStayMade
<1> QED BY <1>4, <1>5

LEMMA MadeReceiveHelloTwoWay ==
  ASSUME Stepping, NEW r, NEW n, <<r, n>> \in Pair, ReceiveHelloTwoWay(r, n)
  PROVE  InstancesAreMade'
<1> DEFINE p == <<r, n>>
           first == IncDDseq(ddSeq[p])
           flood == ToEach(UpFlood(r, n), Update(Only(r, NextOwn(r))))
           out == [q \in Pair |-> IF q = p /\ state[p] <= INIT
                                  THEN <<InitialDD(first)>> ELSE flood[q]]
<1>1. ddSeq \in [Pair -> Nat] /\ now \in Nat
  BY DEF Stepping, TypeOK
<1>2. HeardFrom(r, n)
  BY DEF ReceiveHelloTwoWay
<1>3. flood \in Output /\ OutputMade(flood) /\ UpdatesMade(upd')
  BY <1>2, MadeHeardFrom
<1>4. InitialDD(first) \in Message
  BY <1>1, MessageMade DEF IncDDseq
<1>5. <<InitialDD(first)>> \in Seq(Message) /\ SequenceMade(<<InitialDD(first)>>)
  BY <1>4, NotAnUpdate, SequenceMadeForms
<1>6. Transmit(<<n, r>>, out) /\ chan[<<n, r>>] # <<>>
  BY DEF ReceiveHelloTwoWay, Arrived
<1>7. out \in Output /\ OutputMade(out)
  <2> HIDE DEF flood, first
  <2> QED BY <1>3, <1>5, Zenon DEF Output, OutputMade
<1>8. OutputMade(chan')
  <2> HIDE DEF out
  <2> QED BY <1>6, <1>7, TransmitMade
<1> QED BY <1>2, <1>3, <1>8, MadeStep, HandStaysMade DEF HeardFrom

LEMMA MadeReceiveHelloOneWay ==
  ASSUME Stepping, NEW r, NEW n, <<r, n>> \in Pair, ReceiveHelloOneWay(r, n)
  PROVE  InstancesAreMade'
<1>1. HeardFrom(r, n) /\ chan[<<n, r>>] # <<>>
  BY DEF ReceiveHelloOneWay, Arrived
<1>2. OutputMade(chan') /\ UpdatesMade(upd')
  BY <1>1, MadeHeardFrom, TransmitMade DEF ReceiveHelloOneWay
<1> QED BY <1>1, <1>2, MadeStep, HandStaysMade DEF HeardFrom

LEMMA MadeInactivityExpires ==
  ASSUME Stepping, NEW r, NEW n, <<r, n>> \in Pair, InactivityExpires(r, n)
  PROVE  InstancesAreMade'
<1> DEFINE p == <<r, n>>
           P == IF n \in upLinks[r] THEN FloodOwn(r, n) ELSE {}
           lsa == Only(r, NextOwn(r))
           cleared == [upd EXCEPT ![p] = NoUpdates]
<1>1. /\ r \in Router /\ lsa \in Database /\ Update(lsa) \in Message
      /\ upd \in [Pair -> [Router -> Database]]
  BY PairType, NextOwnType DEF Stepping, TypeOK
<1>2. cleared \in [Pair -> [Router -> Database]] /\ UpdatesMade(cleared)
  BY <1>1, NoneType, UpdatesStayMade
<1>3. /\ upd' = Unacked(cleared, P, r, lsa)
      /\ Transmit(<<>>, ToEach(P, Update(lsa)))
      /\ rx' = rx
  BY DEF InactivityExpires
<1>4. ToEach(P, Update(lsa)) \in Output
  BY <1>1, OutputType
<1>5. UpdatesMade(upd') /\ OutputMade(ToEach(P, Update(lsa)))
  <2>1. CASE n \in upLinks[r]
    <3>1. WillBeMade(lsa)
      BY <1>1, <2>1, NextOwnMade DEF InactivityExpires
    <3> HIDE DEF lsa, cleared, P
    <3> QED BY <1>1, <1>2, <1>3, <3>1, UpdatesStayMade, OutputMadeForms, NotAnUpdate
  <2>2. CASE n \notin upLinks[r]
    <3>1. P = {}
      BY <2>2
    <3>2. upd' = cleared
      BY <1>2, <1>3, <3>1 DEF Unacked
    <3> QED BY <1>2, <3>1, <3>2, OutputMadeForms
  <2> QED BY <2>1, <2>2
<1> HIDE DEF P, lsa
<1>6. OutputMade(chan')
  BY <1>3, <1>4, <1>5, TransmitMade, NoEmptyPair
<1> QED BY <1>3, <1>5, <1>6, MadeStep, HandStaysMade

(* A handler that answers with anything but updates and leaves what is     *)
(* kept and in hand alone.                                                 *)
LEMMA MadeReply ==
  ASSUME Stepping, NEW r, NEW n, <<r, n>> \in Pair, chan[<<n, r>>] # <<>>,
         NEW msgs \in Seq(Message), SequenceMade(msgs),
         Transmit(<<n, r>>, To(<<r, n>>, msgs)), UNCHANGED <<upd, rx>>
  PROVE  InstancesAreMade'
<1>1. To(<<r, n>>, msgs) \in Output /\ OutputMade(To(<<r, n>>, msgs))
  BY OutputType, OutputMadeForms
<1>2. OutputMade(chan')
  BY <1>1, TransmitMade
<1> QED BY <1>2, MadeStep, UpdatesStayMade, HandStaysMade

LEMMA MadeDropped ==
  ASSUME Stepping, NEW q \in Pair, chan[q] # <<>>, Transmit(q, Silent),
         UNCHANGED <<upd, rx>>
  PROVE  InstancesAreMade'
<1>1. OutputMade(chan')
  BY OutputType, OutputMadeForms, TransmitMade
<1> QED BY <1>1, MadeStep, UpdatesStayMade, HandStaysMade

LEMMA MadeNegotiation ==
  ASSUME Stepping, NEW r, NEW n, <<r, n>> \in Pair,
         \/ NegotiateAsSlave(r, n) \/ NegotiateAsMaster(r, n)
         \/ RolesUndecided(r, n)
  PROVE  InstancesAreMade'
<1> DEFINE p == <<r, n>>
           m == Head(chan[<<n, r>>])
           next == IncDDseq(StartSeq(p))
           slave == DD(0, 0, m.seq, lsdb[r])
           master == DD(0, 1, next, lsdb[r])
<1>1. Negotiating(r, n) /\ AcceptDD(r, n) /\ TypeOK
  BY DEF NegotiateAsSlave, NegotiateAsMaster, RolesUndecided, Negotiating, Stepping
<1>2. /\ chan[<<n, r>>] # <<>> /\ m.seq \in Nat
      /\ StartSeq(p) \in Nat /\ next \in Nat /\ StartDD(p) \in Seq(Message)
  BY <1>1, DDFacts, NegotiatingType
<1>3. lsdb[r] \in Database
  BY <1>1, PairType DEF TypeOK
<1>4. slave \in Message /\ master \in Message /\ InitialDD(StartSeq(p)) \in Message
  BY <1>2, <1>3, MessageMade
<1>5. SequenceMade(StartDD(p))
  BY <1>4, NotAnUpdate, SequenceMadeForms DEF StartDD
<1>6. /\ SequenceMade(Append(StartDD(p), slave))
      /\ SequenceMade(Append(StartDD(p), master))
      /\ Append(StartDD(p), slave) \in Seq(Message)
      /\ Append(StartDD(p), master) \in Seq(Message)
  BY <1>2, <1>4, <1>5, NotAnUpdate, SequenceMadeForms, AppendProperties
<1>7. UNCHANGED <<upd, rx>>
  BY <1>1 DEF Negotiating
<1>8. \/ Transmit(<<n, r>>, To(p, Append(StartDD(p), slave)))
      \/ Transmit(<<n, r>>, To(p, Append(StartDD(p), master)))
      \/ Transmit(<<n, r>>, To(p, StartDD(p)))
  BY DEF NegotiateAsSlave, NegotiateAsMaster, RolesUndecided
<1> HIDE DEF slave, master
<1> QED BY <1>2, <1>5, <1>6, <1>7, <1>8, MadeReply

LEMMA MadeDDOutOfTurn ==
  ASSUME Stepping, NEW r, NEW n, <<r, n>> \in Pair, DDOutOfTurn(r, n)
  PROVE  InstancesAreMade'
<1> DEFINE p == <<r, n>>
           m == Head(chan[<<n, r>>])
           echo == IF ms[p] = 0 THEN <<m>> ELSE <<>>
<1>1. /\ chan[<<n, r>>] # <<>> /\ m \in Message /\ m.type = "DD"
      /\ rx' = rx
  BY DDFacts DEF DDOutOfTurn, AcceptDD, Arrived, Stepping
<1>2. CASE InStep(p, m) /\ Duplicate(p, m)
  <2>1. echo \in Seq(Message) /\ SequenceMade(echo)
    BY <1>1, SequenceMadeForms, EmptySeq DEF MessageMadeNext
  <2>2. Transmit(<<n, r>>, To(p, echo)) /\ UNCHANGED <<upd, rx>>
    BY <1>2 DEF DDOutOfTurn
  <2> HIDE DEF echo
  <2> QED BY <1>1, <2>1, <2>2, MadeReply
<1>3. CASE ~(InStep(p, m) /\ Duplicate(p, m))
  <2>1. Restart(r, n, <<n, r>>)
    BY <1>3 DEF DDOutOfTurn
  <2> QED BY <1>1, <2>1, MadeRestart, MadeStep, HandStaysMade
<1> QED BY <1>2, <1>3

LEMMA MadeDDProcessed ==
  ASSUME Stepping, NEW r, NEW n, <<r, n>> \in Pair, DDProcessed(r, n)
  PROVE  InstancesAreMade'
<1> DEFINE p == <<r, n>>
           m == Head(chan[<<n, r>>])
           wanted == Wanted(r, n, m)
           ask == IF wanted = {} THEN <<>> ELSE <<Request(wanted)>>
           reply == <<DD(0, 0, m.seq, headers[p])>>
           msgs == IF ms[p] = 1 THEN ask ELSE reply \o ask
<1>1. chan[<<n, r>>] # <<>> /\ m.seq \in Nat
  BY DDFacts DEF DDProcessed, Stepping
<1>2. headers[p] \in Database /\ requests[p] \in SUBSET Router
  BY DEF Stepping, TypeOK
<1>3. Request(wanted) \in Message /\ DD(0, 0, m.seq, headers[p]) \in Message
  BY <1>1, <1>2, MessageMade DEF Wanted
<1>4. ask \in Seq(Message) /\ reply \in Seq(Message)
  BY <1>3
<1>5. SequenceMade(ask) /\ SequenceMade(reply)
  BY <1>3, NotAnUpdate, SequenceMadeForms
<1>6. Transmit(<<n, r>>, To(p, msgs)) /\ UNCHANGED <<upd, rx>>
  BY DEF DDProcessed
<1> HIDE DEF ask, reply
<1>7. msgs \in Seq(Message) /\ SequenceMade(msgs)
  BY <1>4, <1>5, SequenceMadeForms, ConcatProperties
<1> HIDE DEF msgs
<1> QED BY <1>1, <1>6, <1>7, MadeReply

LEMMA MadeReceiveRequest ==
  ASSUME Stepping, NEW r, NEW n, <<r, n>> \in Pair, ReceiveRequest(r, n)
  PROVE  InstancesAreMade'
<1> DEFINE p == <<r, n>>
           ids == Head(chan[<<n, r>>]).ids
           missing == ids \ Held(lsdb[r])
           lsas == [a \in Router |-> IF a \in ids THEN lsdb[r][a] ELSE None]
<1>1. chan[<<n, r>>] # <<>> /\ rx' = rx
  BY DEF ReceiveRequest, Arrived
<1>2. CASE missing = {}
  <2>1. /\ lsdb \in [Router -> Database] /\ r \in Router
        /\ upd \in [Pair -> [Router -> Database]]
    BY PairType DEF Stepping, TypeOK
  <2>2. lsas \in Database /\ Made(lsas)
    <3>1. Made(lsdb[r])
      BY <2>1 DEF Stepping, InstancesAreMade
    <3>2. \A a \in Router : lsdb[a][a] \in Int /\ None <= lsdb[a][a]
      BY <2>1 DEF Database, None
    <3> QED BY <2>1, <3>1, <3>2 DEF Made, Database
  <2>3. /\ upd' = Unacked(upd, {p}, r, lsas)
        /\ Transmit(<<n, r>>, To(p, <<Update(lsas)>>))
    BY <1>2 DEF ReceiveRequest
  <2> HIDE DEF lsas
  <2>4. WillBeMade(lsas) /\ Update(lsas) \in Message
    BY <2>2, StaysMade, MessageMade
  <2>5. To(p, <<Update(lsas)>>) \in Output /\ OutputMade(To(p, <<Update(lsas)>>))
    BY <2>4, NotAnUpdate, OutputMadeForms, OutputType
  <2>6. OutputMade(chan')
    BY <1>1, <2>3, <2>5, TransmitMade
  <2>7. UpdatesMade(upd')
    BY <2>1, <2>3, <2>4, UpdatesStayMade
  <2> QED BY <1>1, <2>6, <2>7, MadeStep, HandStaysMade
<1>3. CASE missing # {}
  <2>1. Restart(r, n, <<n, r>>)
    BY <1>3 DEF ReceiveRequest
  <2> QED BY <1>1, <2>1, MadeRestart, MadeStep, HandStaysMade
<1> QED BY <1>2, <1>3

LEMMA MadeReceiveUpdate ==
  ASSUME Stepping, NEW r, NEW n, <<r, n>> \in Pair, ReceiveUpdate(r, n)
  PROVE  InstancesAreMade'
<1> DEFINE q == <<n, r>>
<1>1. /\ q \in Pair /\ chan[q] # <<>> /\ chan[q] \in Seq(Message)
      /\ Head(chan[q]).type = "UPDATE"
  BY PairReverse DEF ReceiveUpdate, Arrived, Stepping, TypeOK
<1>2. Head(chan[q]) \in Message /\ Head(chan[q]) = chan[q][1] /\ 1 \in DOMAIN chan[q]
  BY <1>1, HeadTailProperties, LenProperties, EmptySeq
<1>3. Head(chan[q]).lsas \in Database /\ Made(Head(chan[q]).lsas)
  BY <1>1, <1>2, MessageFields DEF Stepping, InstancesAreMade
<1>4. WillBeMade(rx'.lsas)
  BY <1>3, StaysMade DEF ReceiveUpdate
<1>5. OutputMade(chan')
  BY <1>1, OutputType, OutputMadeForms, TransmitMade DEF ReceiveUpdate
<1> QED BY <1>4, <1>5, MadeStep, UpdatesStayMade DEF ReceiveUpdate, ackVars

(* An LSA that r takes up is made, and so is the rest of the update.       *)
LEMMA MadeTakesUp ==
  ASSUME Stepping, NEW r, NEW n, <<r, n>> \in Pair, NEW a \in Router, TakesUp(r, n, a)
  PROVE  WillBeMade(Only(a, rx.lsas[a])) /\ WillBeMade(rx'.lsas)
<1>1. /\ rx \in [at : Pair \cup {<<>>}, entry : DOWN..FULL, lsas : Database]
      /\ lsdb' \in [Router -> Database]
  BY DEF Stepping, TypeOK
<1>2. rx'.lsas = [rx.lsas EXCEPT ![a] = None]
  BY <1>1 DEF TakesUp
<1>3. WillBeMade(rx.lsas) /\ WillBeMade(Empty)
  BY HandStaysMade, StaysMade
<1>4. rx.lsas \in Database /\ Empty \in Database
  BY <1>1, DatabaseType
<1>5. WillBeMade(Only(a, rx.lsas[a]))
  BY <1>3, <1>4 DEF WillBeMade, Only, Database
<1>6. WillBeMade(rx'.lsas)
  BY <1>2, <1>3, <1>4 DEF WillBeMade, Database, Empty
<1> QED BY <1>5, <1>6

LEMMA MadeInstallLSA ==
  ASSUME Stepping, NEW r, NEW n, <<r, n>> \in Pair, NEW a \in Router,
         InstallLSA(r, n, a)
  PROVE  InstancesAreMade'
<1> DEFINE P == Flooded(r, n, a)
           lsa == Only(a, rx.lsas[a])
           flood == ToEach(P, Update(lsa))
           out == [q \in Pair |-> IF q = <<r, n>> THEN <<Ack(a)>> ELSE flood[q]]
<1>1. TakesUp(r, n, a) /\ TypeOK /\ upd \in [Pair -> [Router -> Database]]
  BY DEF InstallLSA, Stepping, TypeOK
<1>2. WillBeMade(lsa) /\ WillBeMade(rx'.lsas) /\ Update(lsa) \in Message
  BY <1>1, TakesUpType, MadeTakesUp
<1>3. upd' = Unacked(upd, P, a, lsa) /\ Transmit(<<>>, out)
  BY DEF InstallLSA
<1> HIDE DEF lsa, P
<1>4. flood \in Output /\ OutputMade(flood)
  BY <1>2, OutputType, OutputMadeForms, NotAnUpdate
<1> HIDE DEF flood
<1>5. Ack(a) \in Message
  BY MessageMade
<1>6. <<Ack(a)>> \in Seq(Message) /\ SequenceMade(<<Ack(a)>>)
  BY <1>5, NotAnUpdate, SequenceMadeForms
<1>7. out \in Output /\ OutputMade(out)
  BY <1>4, <1>6, Zenon DEF Output, OutputMade
<1> HIDE DEF out
<1>8. OutputMade(chan')
  BY <1>3, <1>7, TransmitMade, NoEmptyPair
<1>9. UpdatesMade(upd')
  BY <1>1, <1>2, <1>3, UpdatesStayMade
<1> QED BY <1>2, <1>8, <1>9, MadeStep

LEMMA MadeOlderLSA ==
  ASSUME Stepping, NEW r, NEW n, <<r, n>> \in Pair, NEW a \in Router,
         OlderLSA(r, n, a)
  PROVE  InstancesAreMade'
<1> DEFINE p == <<r, n>>
           lsa == Only(a, lsdb[r][a])
<1>1. /\ r \in Router /\ lsdb \in [Router -> Database]
      /\ upd \in [Pair -> [Router -> Database]]
      /\ TakesUp(r, n, a)
  BY PairType DEF Stepping, TypeOK, OlderLSA
<1>2. lsa \in Database /\ Made(lsa)
  <2>1. lsdb[r] \in Database /\ Made(lsdb[r])
    BY <1>1 DEF Stepping, InstancesAreMade
  <2>2. \A b \in Router : lsdb[b][b] \in Int /\ None <= lsdb[b][b]
    BY <1>1 DEF Database, None
  <2>3. lsa \in Database
    BY <2>1, DatabaseType DEF Database
  <2> QED BY <2>1, <2>2, <2>3 DEF Made, Only, Empty
<1>3. /\ upd' = Unacked(upd, {p}, r, lsa)
      /\ Transmit(<<>>, To(p, <<Update(lsa)>>))
  BY DEF OlderLSA
<1> HIDE DEF lsa
<1>4. WillBeMade(lsa) /\ Update(lsa) \in Message
  BY <1>2, StaysMade, MessageMade
<1>5. To(p, <<Update(lsa)>>) \in Output /\ OutputMade(To(p, <<Update(lsa)>>))
  BY <1>4, NotAnUpdate, OutputMadeForms, OutputType
<1>6. OutputMade(chan')
  BY <1>3, <1>5, TransmitMade, NoEmptyPair
<1>7. UpdatesMade(upd')
  BY <1>1, <1>3, <1>4, UpdatesStayMade
<1> QED BY <1>1, <1>6, <1>7, MadeTakesUp, MadeStep

LEMMA MadeAckUpdates ==
  ASSUME Stepping, NEW p \in Pair, NEW a, AckUpdates(p, a)
  PROVE  UpdatesMade(upd')
<1>1. upd \in [Pair -> [Router -> Database]]
  BY DEF Stepping, TypeOK
<1>2. upd' = upd \/ upd' = [upd EXCEPT ![p] = NoUpdates]
  BY <1>1 DEF AckUpdates
<1> QED BY <1>1, <1>2, UpdatesStayMade

LEMMA MadeRestOfWork ==
  ASSUME Stepping, NEW r, NEW n, <<r, n>> \in Pair,
         \/ \E a \in Router : UnexpectedLSA(r, n, a) \/ EqualLSA(r, n, a)
         \/ FinishUpdate(r, n)
  PROVE  InstancesAreMade'
<1>1. ASSUME NEW a \in Router, UnexpectedLSA(r, n, a) PROVE InstancesAreMade'
  <2>1. Restart(r, n, <<>>) /\ rx' = Resting
    BY <1>1 DEF UnexpectedLSA
  <2> QED BY <2>1, MadeRestart, NoEmptyPair, MadeStep, HandStaysMade
<1>2. ASSUME NEW a \in Router, EqualLSA(r, n, a) PROVE InstancesAreMade'
  <2>1. /\ TakesUp(r, n, a) /\ AckUpdates(<<r, n>>, a)
        /\ Transmit(<<>>, To(<<r, n>>, <<Ack(a)>>))
    BY <1>2 DEF EqualLSA
  <2>2. /\ To(<<r, n>>, <<Ack(a)>>) \in Output
        /\ OutputMade(To(<<r, n>>, <<Ack(a)>>))
    BY MessageMade, NotAnUpdate, OutputMadeForms, OutputType
  <2>3. OutputMade(chan')
    BY <2>1, <2>2, TransmitMade, NoEmptyPair
  <2> QED BY <2>1, <2>3, MadeAckUpdates, MadeTakesUp, MadeStep
<1>3. CASE FinishUpdate(r, n)
  <2>1. upd' = upd /\ chan' = chan /\ rx' = Resting
    BY <1>3 DEF FinishUpdate
  <2> QED BY <2>1, MadeUnsent, MadeStep, UpdatesStayMade, HandStaysMade
<1> QED BY <1>1, <1>2, <1>3

LEMMA MadeReceiveAck ==
  ASSUME Stepping, NEW r, NEW n, <<r, n>> \in Pair, ReceiveAck(r, n)
  PROVE  InstancesAreMade'
<1>1. /\ <<n, r>> \in Pair /\ chan[<<n, r>>] # <<>> /\ rx' = rx
      /\ Transmit(<<n, r>>, Silent)
      /\ AckUpdates(<<r, n>>, Head(chan[<<n, r>>]).adv)
  BY PairReverse DEF ReceiveAck, Arrived
<1>2. OutputMade(chan')
  BY <1>1, OutputType, OutputMadeForms, TransmitMade
<1> QED BY <1>1, <1>2, MadeAckUpdates, MadeStep, HandStaysMade

LEMMA MadeResendMessages ==
  ASSUME Stepping, NEW p \in Pair, NEW ack, NEW up, ResendMessages(p, ack, up)
  PROVE  InstancesAreMade'
<1> DEFINE msgs == IF Unanswered(p) # <<>> THEN Unanswered(p) ELSE UpdatesDue(p)
<1>1. /\ upd \in [Pair -> [Router -> Database]]
      /\ Unanswered(p) \in Seq(Message) /\ UpdatesDue(p) \in Seq(Message)
      /\ dd[p].seq \in Nat /\ dd[p].headers \in Database /\ req[p] \in SUBSET Router
  BY UnansweredType, UpdatesDueType DEF Stepping, TypeOK
<1>2. SequenceMade(Unanswered(p))
  <2>1. /\ DD(0, 1, dd[p].seq, dd[p].headers) \in Message
        /\ Request(req[p]) \in Message
    BY <1>1, MessageMade
  <2> QED BY <2>1, NotAnUpdate, SequenceMadeForms DEF Unanswered
<1>3. SequenceMade(UpdatesDue(p))
  <2>1. ASSUME NEW i \in 1..Cardinality(Pending(p))
        PROVE  MessageMadeNext(Update(upd[p][PendingAt(p, i)]))
    <3>1. PendingAt(p, i) \in Router
      BY RankIsNumbering DEF Pending
    <3> QED BY <3>1, UpdatesStayMade, NotAnUpdate DEF UpdatesMade
  <2> QED BY <2>1 DEF SequenceMade, UpdatesDue
<1>4. /\ Transmit(<<>>, To(p, msgs)) /\ UNCHANGED <<upd, rx>>
      /\ msgs \in Seq(Message) /\ SequenceMade(msgs)
  BY <1>1, <1>2, <1>3 DEF ResendMessages
<1> HIDE DEF msgs
<1>5. OutputMade(chan')
  BY <1>4, OutputType, OutputMadeForms, TransmitMade, NoEmptyPair
<1> QED BY <1>4, <1>5, MadeStep, UpdatesStayMade, HandStaysMade

LEMMA MadeCostChanged ==
  ASSUME Stepping, NEW r \in Router, CostChanged(r)
  PROVE  InstancesAreMade'
<1> DEFINE P == FloodOwn(r, r)
           lsa == Only(r, NextOwn(r))
<1>1. /\ upd \in [Pair -> [Router -> Database]]
      /\ WillBeMade(lsa) /\ Update(lsa) \in Message
  BY NextOwnType, NextOwnMade DEF CostChanged, Stepping, TypeOK
<1>2. /\ upd' = Unacked(upd, P, r, lsa) /\ rx' = rx
      /\ Transmit(<<>>, ToEach(P, Update(lsa)))
  BY DEF CostChanged
<1> HIDE DEF P, lsa
<1>3. OutputMade(chan')
  BY <1>1, <1>2, OutputType, OutputMadeForms, NotAnUpdate, TransmitMade, NoEmptyPair
<1>4. UpdatesMade(upd')
  BY <1>1, <1>2, UpdatesStayMade
<1> QED BY <1>2, <1>3, <1>4, MadeStep, HandStaysMade

LEMMA MadeNext ==
  ASSUME TypeOK, InstancesAreMade, [Next]_vars
  PROVE  InstancesAreMade'
<1>0. Stepping
  BY TypeNext, DatabaseStep DEF Stepping
<1>1. ASSUME NEW r, NEW n, <<r, n>> \in Pair, Receive(r, n) PROVE InstancesAreMade'
  <2>1. CASE ReceiveHelloTwoWay(r, n) \/ ReceiveHelloOneWay(r, n)
    BY <1>0, <1>1, <2>1, MadeReceiveHelloTwoWay, MadeReceiveHelloOneWay
  <2>2. CASE \/ NegotiateAsSlave(r, n) \/ NegotiateAsMaster(r, n)
             \/ RolesUndecided(r, n)
    BY <1>0, <1>1, <2>2, MadeNegotiation
  <2>3. CASE DDOutOfTurn(r, n) \/ DDProcessed(r, n)
    BY <1>0, <1>1, <2>3, MadeDDOutOfTurn, MadeDDProcessed
  <2>4. CASE ReceiveRequest(r, n) \/ ReceiveUpdate(r, n) \/ ReceiveAck(r, n)
    BY <1>0, <1>1, <2>4, MadeReceiveRequest, MadeReceiveUpdate, MadeReceiveAck
  <2>5. CASE DDIgnored(r, n) \/ Dropped(r, n)
    <3>1. /\ <<n, r>> \in Pair /\ chan[<<n, r>>] # <<>>
          /\ Transmit(<<n, r>>, Silent) /\ UNCHANGED <<upd, rx>>
      BY <1>1, <2>5, PairReverse DEF DDIgnored, AcceptDD, Arrived, Dropped, ackVars
    <3> QED BY <1>0, <3>1, MadeDropped
  <2> QED BY <1>1, <2>1, <2>2, <2>3, <2>4, <2>5 DEF Receive
<1>2. ASSUME NEW r, NEW n, <<r, n>> \in Pair, WorkThrough(r, n) PROVE InstancesAreMade'
  BY <1>0, <1>2, MadeInstallLSA, MadeOlderLSA, MadeRestOfWork DEF WorkThrough
<1>3. ASSUME NEW r, NEW n, <<r, n>> \in Pair, Timer(r, n) PROVE InstancesAreMade'
  BY <1>0, <1>3, MadeResendMessages, MadeInactivityExpires
     DEF Timer, AckTimerExpires, UpdTimerExpires
<1>4. ASSUME NEW p \in Pair, Lose(p) PROVE InstancesAreMade'
  BY <1>0, <1>4, MadeDropped DEF Lose, ackVars
<1>5. ASSUME NEW r \in Router, AgingAborts(r) PROVE InstancesAreMade'
  BY <1>0, <1>5, MadeStep, MadeUnsent, UpdatesStayMade, HandStaysMade
     DEF AgingAborts, ackVars
<1>6. CASE UNCHANGED vars
  BY <1>0, <1>6, MadeStep, MadeUnsent, UpdatesStayMade, HandStaysMade
     DEF vars, ackVars
<1>7. CASE Next
  <2>1. ASSUME NEW p \in Pair, \/ Receive(p[1], p[2]) \/ WorkThrough(p[1], p[2])
                               \/ Timer(p[1], p[2]) \/ Lose(p)
        PROVE  InstancesAreMade'
    BY <1>1, <1>2, <1>3, <1>4, <2>1, PairIsTuple
  <2> QED BY <1>0, <1>5, <1>7, <2>1, MadeSendHellos, MadeCostChanged DEF Next
<1> QED BY <1>6, <1>7

LEMMA MadeInit == Init => InstancesAreMade
<1> SUFFICES ASSUME Init PROVE InstancesAreMade
  OBVIOUS
<1>1. \A r \in Router : Made(Only(r, 0))
  BY DEF Init, Made, Only, Empty, None
<1>2. Made(Empty)
  BY DEF Init, Made, Only, Empty, None
<1>3. lsdb = [r \in Router |-> Only(r, 0)] /\ rx.lsas = Empty
  BY DEF Init, Resting
<1>4. upd = [p \in Pair |-> NoUpdates] /\ chan = [p \in Pair |-> <<>>]
  BY DEF Init
<1> QED BY <1>1, <1>2, <1>3, <1>4 DEF InstancesAreMade, NoUpdates

(* No database, no update on its way, kept or in hand ever has an instance *)
(* its originator has not put in its own database: what sendFlooding and   *)
(* receiveRequest pass on is never newer than the original.                *)
THEOREM InstancesMade == Spec => []InstancesAreMade
<1>1. Init => TypeOK /\ InstancesAreMade
  BY TypeInit, MadeInit
<1>2. TypeOK /\ InstancesAreMade /\ [Next]_vars => (TypeOK /\ InstancesAreMade)'
  BY TypeNext, MadeNext
<1> QED BY <1>1, <1>2, PTL DEF Spec

(* Every step of the agents, from any state a run can reach, leaves the    *)
(* databases alone or is a step of LinkStateReplicas.                      *)
THEOREM DatabasesOnlyAdvance == Spec => InstancesOnlyAdvance
<1>1. TypeOK /\ InstancesAreMade /\ [Next]_vars => [Replicas!Next]_lsdb
  BY DatabaseStep
<1> QED BY <1>1, TypeCorrect, InstancesMade, PTL DEF Spec, InstancesOnlyAdvance

(* The agents implement LinkStateReplicas: an originator alone makes       *)
(* instances of its advertisement, and a router that has one never goes    *)
(* back to an older one.                                                   *)
THEOREM Refinement == Spec => ImplementsReplicas
<1>1. Init => Replicas!Init
  BY DEF Init, Replicas!Init, Only, Empty, None, Replicas!None
<1>2. Spec => [][Replicas!Next]_lsdb
  BY DatabasesOnlyAdvance DEF InstancesOnlyAdvance
<1> QED BY <1>1, <1>2, PTL DEF Spec, ImplementsReplicas, Replicas!Spec
=============================================================================
