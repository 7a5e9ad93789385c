-------------------------- MODULE OspfAgingProofs --------------------------
(***************************************************************************)
(* Theorems about OspfAging, for any finite set of routers, any network,   *)
(* delay and times: the copies of an LSA, the packets and the lists stay   *)
(* well formed, and no router holds a copy that nothing will ever age.     *)
(* For any connected network whose delays are as small beside the times,   *)
(* and whose times are as far apart, as utils.h has them: a refresh        *)
(* reaches all, and when all is quiet all copies are the same.             *)
(***************************************************************************)
EXTENDS OspfAging, FiniteSetTheorems, SequenceTheorems, TLAPS

-----------------------------------------------------------------------------
(* Links, instances and messages.                                          *)

LEMMA LinkType ==
  ASSUME NEW e \in Adjacent
  PROVE  /\ e[1] \in Router /\ e[2] \in Router /\ e[1] # e[2]
         /\ e = <<e[1], e[2]>> /\ <<e[2], e[1]>> \in Adjacent
<1>1. /\ Adjacent \subseteq {f \in Router \X Router : f[1] # f[2]}
      /\ \A f \in Adjacent : <<f[2], f[1]>> \in Adjacent
  BY AgingAssumption, Zenon
<1>2. e \in Router \X Router /\ e[1] # e[2]
  BY <1>1
<1> QED BY <1>1, <1>2

LEMMA LinkEnds ==
  ASSUME NEW s, NEW r, <<s, r>> \in Adjacent
  PROVE  s \in Router /\ r \in Router /\ s # r /\ <<r, s>> \in Adjacent
<1>1. <<s, r>>[1] = s /\ <<s, r>>[2] = r
  OBVIOUS
<1> QED BY <1>1, LinkType

LEMMA Times ==
  /\ Second \in Nat /\ Second > 0 /\ Delay \in Nat /\ MaxAge \in Nat /\ MaxAge > 0
  /\ MaxAgeDiff \in Nat /\ RefreshTime \in Nat /\ RefreshTime > 0 /\ MaxRound \in Nat
  /\ Originator \in Router
BY AgingAssumption

LEMMA Numbers ==
  /\ MaxSeq \in Nat /\ 0 \in 0..MaxSeq /\ 0..MaxSeq \subseteq Nat
  /\ InitSeqs \subseteq 0..MaxSeq
  /\ \A n \in 0..MaxSeq : n # WraparoundThreshold /\ (n < MaxSeq => n + 1 \in 0..MaxSeq)
BY AgingAssumption

LEMMA InstanceType ==
  ASSUME NEW ls \in Instance
  PROVE  /\ ls.seq \in Nat /\ ls.age \in Nat /\ ls.links \in Nat
         /\ \A d \in Nat : [ls EXCEPT !.age = @ + d] \in Instance
         /\ \A d \in Nat : [ls EXCEPT !.age = @ + d].age = ls.age + d
         /\ ls # NoLSA /\ ls.seq # WraparoundThreshold
BY Numbers DEF Instance, NoLSA

LEMMA MessageType ==
  /\ Ack \in Message
  /\ \A ls \in Instance : Update(ls) \in Message /\ Update(ls).lsa = ls
                          /\ Update(ls).type = "update"
  /\ \A m \in Message : m.type = "update" => m.lsa \in Instance
  /\ Ack.type # "update"
BY DEF Message, Update, Ack

(* What one handler sends over each link: one packet, or none.             *)
Sending == [Adjacent -> {<<>>} \cup {<<m>> : m \in Message}]

LEMMA FloodType ==
  ASSUME NEW ls \in Instance, NEW r, NEW except
  PROVE  /\ Flood(r, ls, except) \in Sending
         /\ \A e : [Flood(r, ls, except) EXCEPT ![e] = <<Ack>>] \in Sending
<1>1. [ls EXCEPT !.age = @ + Delay] \in Instance
  BY InstanceType, Times
<1>2. Update([ls EXCEPT !.age = @ + Delay]) \in Message
  BY <1>1, MessageType
<1>3. Flood(r, ls, except) \in Sending
  BY <1>2 DEF Flood, Sending
<1> HIDE DEF Flood
<1>4. ASSUME NEW e PROVE [Flood(r, ls, except) EXCEPT ![e] = <<Ack>>] \in Sending
  BY <1>3, MessageType DEF Sending
<1> QED BY <1>3, <1>4

LEMMA ReplyType ==
  /\ NoPackets \in Sending
  /\ \A r, n : \A m \in Message : Reply(r, n, m) \in Sending
BY DEF NoPackets, Reply, Sending

-----------------------------------------------------------------------------
(* Links and lists.                                                        *)

Links == [Adjacent -> Seq(Message)]
Copies == [Adjacent -> Nat]
IsStore(u) ==
  /\ u = [e \in Adjacent |-> u[e]]
  /\ \A e \in Adjacent : DOMAIN u[e] \subseteq Router /\ u[e] \in [DOMAIN u[e] -> Instance]

LEMMA TypeSplit ==
  TypeOK <=> /\ db \in [Router -> Instance \cup {NoLSA}]
             /\ due \subseteq timer /\ timer \subseteq Router
             /\ retrans \in Copies /\ IsStore(upd) /\ chan \in Links
             /\ changes \in Nat /\ round \in 0..MaxRound
BY DEF TypeOK, Copies, IsStore, Links

LEMMA SentType ==
  ASSUME NEW sent \in Sending, NEW e \in Adjacent
  PROVE  /\ sent[e] \in Seq(Message)
         /\ Recorded(e, sent) => Head(sent[e]).lsa \in Instance
<1>1. sent[e] = <<>> \/ \E m \in Message : sent[e] = <<m>>
  BY DEF Sending
<1>2. CASE sent[e] = <<>>
  BY <1>2 DEF Recorded
<1>3. ASSUME NEW m \in Message, sent[e] = <<m>>
      PROVE  /\ sent[e] \in Seq(Message)
             /\ Recorded(e, sent) => Head(sent[e]).lsa \in Instance
  <2>1. /\ <<m>> \in Seq(Message) /\ Head(<<m>>) = m
        /\ \A i \in DOMAIN <<m>> : <<m>>[i] = m
    OBVIOUS
  <2>2. Recorded(e, sent) => m.type = "update"
    BY <1>3, <2>1 DEF Recorded
  <2> QED BY <1>3, <2>1, <2>2, MessageType
<1> QED BY <1>1, <1>2, <1>3

LEMMA TransmitType ==
  ASSUME NEW links \in Links, NEW copies \in Copies, NEW stored, IsStore(stored),
         NEW sent \in Sending, NEW origin \in Router,
         Transmit(links, copies, stored, sent, origin)
  PROVE  chan' \in Links /\ retrans' \in Copies /\ IsStore(upd')
<1>1. ASSUME NEW e \in Adjacent
      PROVE  /\ links[e] \o sent[e] \in Seq(Message)
             /\ copies[e] + (IF Recorded(e, sent) THEN 1 ELSE 0) \in Nat
  <2>1. links[e] \in Seq(Message) /\ sent[e] \in Seq(Message) /\ copies[e] \in Nat
    BY SentType DEF Links, Copies
  <2> QED BY <2>1, ConcatProperties
<1>2. chan' \in Links
  BY <1>1 DEF Transmit, Links
<1>3. retrans' \in Copies
  BY <1>1 DEF Transmit, Copies
<1>4. ASSUME NEW e \in Adjacent
      PROVE  DOMAIN upd'[e] \subseteq Router /\ upd'[e] \in [DOMAIN upd'[e] -> Instance]
  <2>1. /\ DOMAIN stored[e] \subseteq Router /\ stored[e] \in [DOMAIN stored[e] -> Instance]
    BY DEF IsStore
  <2>2. CASE ~Recorded(e, sent)
    <3>1. upd'[e] = stored[e]
      BY <2>2 DEF Transmit
    <3> QED BY <2>1, <3>1
  <2>3. CASE Recorded(e, sent)
    <3>1. upd'[e] = [o \in DOMAIN stored[e] \cup {origin} |->
                       IF o = origin THEN Head(sent[e]).lsa ELSE stored[e][o]]
      BY <2>3 DEF Transmit
    <3>2. Head(sent[e]).lsa \in Instance
      BY <2>3, SentType
    <3> QED BY <2>1, <3>1, <3>2
  <2> QED BY <2>2, <2>3
<1>5. upd' = [e \in Adjacent |-> upd'[e]]
  BY DEF Transmit
<1> QED BY <1>2, <1>3, <1>4, <1>5 DEF IsStore

LEMMA ArrivalType ==
  ASSUME TypeOK, NEW s, NEW r, NEW type, Arrives(s, r, type)
  PROVE  /\ s \in Router /\ r \in Router /\ s # r
         /\ <<s, r>> \in Adjacent /\ <<r, s>> \in Adjacent
         /\ Head(chan[<<s, r>>]) \in Message /\ Head(chan[<<s, r>>]).type = type
         /\ Received(<<s, r>>) \in Links
         /\ type = "update" => Head(chan[<<s, r>>]).lsa \in Instance
         /\ ~Quiet
<1>1. <<s, r>> \in Adjacent /\ chan[<<s, r>>] # <<>> /\ Head(chan[<<s, r>>]).type = type
  BY DEF Arrives
<1>2. chan \in Links
  BY TypeSplit
<1>3. chan[<<s, r>>] \in Seq(Message)
  BY <1>1, <1>2 DEF Links
<1>4. Head(chan[<<s, r>>]) \in Message /\ Tail(chan[<<s, r>>]) \in Seq(Message)
  BY <1>1, <1>3, HeadTailProperties
<1>5. Received(<<s, r>>) \in Links
  BY <1>2, <1>4 DEF Received, Links
<1>6. ~Quiet
  BY <1>1 DEF Quiet
<1> QED BY <1>1, <1>4, <1>5, <1>6, LinkEnds, MessageType

LEMMA CopiesType ==
  ASSUME TypeOK, NEW e
  PROVE  OneLess(e) \in Copies /\ IsStore(Repeated(e))
<1>1. retrans \in Copies /\ IsStore(upd)
  BY TypeSplit
<1>2. OneLess(e) \in Copies
  <2>1. \A n \in Nat : (IF n > 0 THEN n - 1 ELSE 0) \in Nat
    OBVIOUS
  <2>2. OneLess(e) = [f \in Adjacent |-> IF f = e
                      THEN IF retrans[f] > 0 THEN retrans[f] - 1 ELSE 0 ELSE retrans[f]]
    BY <1>1 DEF OneLess, Copies
  <2> QED BY <1>1, <2>1, <2>2 DEF Copies
<1>3. NoUpdates \in [{} -> Instance] /\ DOMAIN NoUpdates = {}
  BY DEF NoUpdates
<1>4. Repeated(e) = [f \in Adjacent |-> Repeated(e)[f]]
  BY <1>1 DEF Repeated, IsStore
<1>5. ASSUME NEW f \in Adjacent
      PROVE  Repeated(e)[f] = upd[f] \/ Repeated(e)[f] = NoUpdates
  BY <1>1 DEF Repeated, IsStore
<1> QED BY <1>1, <1>2, <1>3, <1>4, <1>5 DEF IsStore

(* Flooding an LSA on leaves the delay in the stored message.              *)
LEMMA AgedType ==
  ASSUME TypeOK, NEW s, NEW r, Arrives(s, r, "update"),
         NEW ls, ls = Head(chan[<<s, r>>]).lsa
  PROVE  /\ Aged(s, r, ls) \in Instance
         /\ AgedOnLink(s, r, ls) \in Links
         /\ IsStore(AgedInStore(s, r, ls))
         /\ \A e \in Adjacent : DOMAIN AgedInStore(s, r, ls)[e] = DOMAIN upd[e]
<1>1. /\ ls \in Instance /\ Received(<<s, r>>) \in Links /\ IsStore(upd)
      /\ <<s, r>> \in Adjacent
  BY ArrivalType, TypeSplit
<1>2. Aged(s, r, ls) \in Instance
  BY <1>1, InstanceType, Times DEF Aged
<1>3. Update(Aged(s, r, ls)) \in Message
  BY <1>2, MessageType
<1> DEFINE c == Received(<<s, r>>)
           aged == [i \in DOMAIN c[<<s, r>>] |->
                      IF c[<<s, r>>][i] = Update(ls) THEN Update(Aged(s, r, ls))
                      ELSE c[<<s, r>>][i]]
<1>4. AgedOnLink(s, r, ls) = [c EXCEPT ![<<s, r>>] = aged]
  BY <1>1 DEF AgedOnLink, Links
<1>5. aged \in Seq(Message)
  <2>1. c[<<s, r>>] \in Seq(Message)
    BY <1>1 DEF Links
  <2>2. /\ c[<<s, r>>] \in [1..Len(c[<<s, r>>]) -> Message] /\ Len(c[<<s, r>>]) \in Nat
        /\ DOMAIN c[<<s, r>>] = 1..Len(c[<<s, r>>])
    BY <2>1, LenProperties
  <2>3. aged \in [1..Len(c[<<s, r>>]) -> Message]
    <3> HIDE DEF c
    <3> QED BY <2>2, <1>3
  <2> HIDE DEF c, aged
  <2> QED BY <2>2, <2>3, SeqDef
<1>6. AgedOnLink(s, r, ls) \in Links
  <2> HIDE DEF c, aged
  <2> QED BY <1>1, <1>4, <1>5 DEF Links, c
<1>7. ASSUME NEW e \in Adjacent
      PROVE  /\ DOMAIN AgedInStore(s, r, ls)[e] = DOMAIN upd[e]
             /\ AgedInStore(s, r, ls)[e] \in [DOMAIN upd[e] -> Instance]
  <2>1. upd[e] \in [DOMAIN upd[e] -> Instance]
    BY <1>1 DEF IsStore
  <2>2. AgedInStore(s, r, ls)[e] =
          IF e = <<s, r>>
          THEN [o \in DOMAIN upd[e] |-> IF upd[e][o] = ls THEN Aged(s, r, ls) ELSE upd[e][o]]
          ELSE upd[e]
    BY <1>1 DEF AgedInStore, IsStore
  <2> QED BY <1>2, <2>1, <2>2
<1>8. AgedInStore(s, r, ls) = [e \in Adjacent |-> AgedInStore(s, r, ls)[e]]
  BY <1>1 DEF AgedInStore, IsStore
<1> QED BY <1>1, <1>2, <1>6, <1>7, <1>8 DEF IsStore

(* The updates to repeat are numbered 1, 2, ... by the rank of their       *)
(* origins, so there is one at every position.                             *)
LEMMA RankIsNumbering ==
  ASSUME TypeOK, NEW e \in Adjacent
  PROVE  /\ Cardinality(DOMAIN upd[e]) \in Nat
         /\ \A i \in 1..Cardinality(DOMAIN upd[e]) : OriginAt(e, i) \in DOMAIN upd[e]
<1> DEFINE S == DOMAIN upd[e]
           N == 1..Cardinality(S)
           upTo(a) == {b \in S : b <= a}
           f == [a \in S |-> Rank(e, a)]
<1>1. S \subseteq Nat /\ IsFiniteSet(S) /\ Cardinality(S) \in Nat
  <2>1. S \in SUBSET Router
    BY TypeSplit DEF IsStore
  <2> QED BY <2>1, AgingAssumption, FS_Subset, FS_CardinalityType
<1>2. ASSUME NEW a \in S
      PROVE  /\ IsFiniteSet(upTo(a)) /\ Cardinality(upTo(a)) \in N
             /\ Rank(e, a) = Cardinality(upTo(a))
  <2>1. upTo(a) \in SUBSET S /\ a \in upTo(a)
    BY <1>1
  <2>2. IsFiniteSet(upTo(a)) /\ Cardinality(upTo(a)) <= Cardinality(S)
    BY <1>1, <2>1, FS_Subset
  <2>3. Cardinality(upTo(a)) \in Nat /\ Cardinality(upTo(a)) # 0
    BY <2>1, <2>2, FS_CardinalityType, FS_EmptySet
  <2> QED BY <1>1, <2>2, <2>3 DEF Rank
<1>3. ASSUME NEW a \in S, NEW b \in S, a < b
      PROVE  Cardinality(upTo(a)) # Cardinality(upTo(b))
  <2>1. upTo(a) \in SUBSET upTo(b) /\ b \in upTo(b) /\ b \notin upTo(a)
    BY <1>1, <1>3
  <2> QED BY <1>2, <2>1, FS_Subset
<1>4. f \in Injection(S, N)
  <2>1. f \in [S -> N]
    BY <1>2
  <2>2. ASSUME NEW a \in S, NEW b \in S, f[a] = f[b] PROVE a = b
    <3>1. ~(a < b) /\ ~(b < a)
      BY <1>2, <1>3, <2>2
    <3> QED BY <1>1, <3>1
  <2> QED BY <2>1, <2>2 DEF Injection, IsInjective
<1>5. IsFiniteSet(N) /\ Cardinality(N) = Cardinality(S)
  BY <1>1, FS_Interval
<1>6. f \in Surjection(S, N)
  BY <1>4, <1>5, FS_Injection
<1>7. \A i \in N : \E a \in S : Rank(e, a) = i
  BY <1>6 DEF Surjection
<1> QED BY <1>1, <1>7 DEF OriginAt

(* No instance has the number at which an older one is discarded.          *)
LEMMA OlderIsAnswered ==
  ASSUME TypeOK, NEW s, NEW r, OlderLSA(s, r)
  PROVE  /\ db[r] \in Instance
         /\ Transmit(Received(<<s, r>>), retrans, upd, Reply(r, s, Update(db[r])), r)
<1>1. Arrives(s, r, "update") /\ Lookup(r, Head(chan[<<s, r>>]).lsa) = "OLDER"
  BY DEF OlderLSA
<1>2. db[r] \in Instance
  BY <1>1, ArrivalType, TypeSplit DEF Lookup, Holds
<1>3. Answer(s, r) = Reply(r, s, Update(db[r]))
  BY <1>2, InstanceType DEF Answer, Discarded
<1> QED BY <1>2, <1>3 DEF OlderLSA

(* The instances the originator makes.                                     *)
LEMMA RefreshedType ==
  ASSUME NEW r, db[r] \in Instance
  PROVE  /\ Refreshed(r) \in Instance /\ Refreshed(r).seq = 0 /\ Refreshed(r).age = 0
         /\ Refreshed(r).links = db[r].links
BY Numbers DEF Refreshed, Instance

LEMMA ChangedType ==
  ASSUME TypeOK, LinkStateChanged
  PROVE  LET old == db[Originator] IN
         /\ old \in Instance /\ Changed(old) \in Instance
         /\ Changed(old).seq = old.seq + 1 /\ Changed(old).age = 0
         /\ Changed(old).links = changes + 1
<1>1. db[Originator] \in Instance /\ changes \in Nat
  BY TypeSplit, Times DEF LinkStateChanged, Holds
<1>2. db[Originator].seq \in 0..MaxSeq /\ db[Originator].seq < MaxSeq
  BY <1>1 DEF LinkStateChanged, Instance
<1> QED BY <1>1, <1>2, Numbers DEF Changed, Instance

-----------------------------------------------------------------------------
(* Types.                                                                  *)

LEMMA TypeInit == Init => TypeOK
<1> SUFFICES ASSUME Init PROVE TypeOK
  OBVIOUS
<1>1. PICK s \in InitSeqs : \E age \in [Router -> {0, Delay}] :
        db = [r \in Router |-> [seq |-> s, age |-> age[r], links |-> 0]]
  BY DEF Init
<1>2. PICK age \in [Router -> {0, Delay}] :
        db = [r \in Router |-> [seq |-> s, age |-> age[r], links |-> 0]]
  BY <1>1
<1>3. s \in 0..MaxSeq /\ 0 \in Nat /\ Delay \in Nat
  BY AgingAssumption
<1>4. db \in [Router -> Instance \cup {NoLSA}]
  BY <1>2, <1>3 DEF Instance
<1>5. NoUpdates \in [{} -> Instance] /\ DOMAIN NoUpdates = {} /\ <<>> \in Seq(Message)
  BY DEF NoUpdates
<1>6. retrans \in Copies /\ IsStore(upd) /\ chan \in Links
  BY <1>5 DEF Init, Copies, IsStore, Links
<1>7. due \subseteq timer /\ timer \subseteq Router /\ changes \in Nat /\ round \in 0..MaxRound
  BY Times DEF Init
<1> QED BY <1>4, <1>6, <1>7, TypeSplit

LEMMA TypeTimers ==
  ASSUME TypeOK, NEW r \in Router, RefreshLSA(r) \/ RemoveLSA(r) \/ AgeLSA(r)
  PROVE  TypeOK'
<1>1. /\ db \in [Router -> Instance \cup {NoLSA}]
      /\ due \subseteq timer /\ timer \subseteq Router
      /\ retrans \in Copies /\ IsStore(upd) /\ chan \in Links
      /\ changes \in Nat /\ round \in 0..MaxRound
  BY TypeSplit
<1>2. r \in due /\ due' = due \ {r}
  BY DEF RefreshLSA, RemoveLSA, AgeLSA, Expires
<1>3. CASE RefreshLSA(r)
  <2>1. Holds(r) /\ db[r] \in Instance
    BY <1>1, <1>3 DEF RefreshLSA, RefreshDue, Holds
  <2>2. Refreshed(r) \in Instance
    BY <2>1, RefreshedType
  <2>3. Flood(r, Refreshed(r), r) \in Sending
    BY <2>2, FloodType
  <2>4. chan' \in Links /\ retrans' \in Copies /\ IsStore(upd')
    BY <1>1, <1>3, <2>3, Times, TransmitType DEF RefreshLSA
  <2>5. db' \in [Router -> Instance \cup {NoLSA}] /\ UNCHANGED <<timer, changes, round>>
    BY <1>1, <1>3, <2>2 DEF RefreshLSA
  <2> QED BY <1>1, <1>2, <2>4, <2>5, TypeSplit DEF TypeOK, Copies, IsStore, Links
<1>4. CASE RemoveLSA(r)
  <2>1. /\ db' \in [Router -> Instance \cup {NoLSA}] /\ timer' = timer \ {r}
        /\ UNCHANGED <<retrans, upd, chan, changes, round>>
    BY <1>1, <1>4 DEF RemoveLSA
  <2> QED BY <1>1, <1>2, <2>1 DEF TypeOK, Copies, IsStore, Links
<1>5. CASE AgeLSA(r)
  <2> DEFINE new == IF Holds(r) THEN [db[r] EXCEPT !.age = @ + Second] ELSE NoLSA
  <2>1. new \in Instance \cup {NoLSA}
    BY <1>1, InstanceType, Times DEF Holds
  <2>2. /\ db' = [db EXCEPT ![r] = new]
        /\ UNCHANGED <<timer, retrans, upd, chan, changes, round>>
    BY <1>5, Zenon DEF AgeLSA
  <2>3. db' \in [Router -> Instance \cup {NoLSA}]
    <3> HIDE DEF new
    <3> QED BY <1>1, <2>1, <2>2
  <2> QED BY <1>1, <1>2, <2>2, <2>3 DEF TypeOK, Copies, IsStore, Links
<1> QED BY <1>3, <1>4, <1>5

LEMMA TypeDeliver ==
  ASSUME TypeOK, NEW s, NEW r, Deliver(s, r)
  PROVE  TypeOK'
<1>1. /\ db \in [Router -> Instance \cup {NoLSA}]
      /\ due \subseteq timer /\ timer \subseteq Router
      /\ retrans \in Copies /\ IsStore(upd) /\ chan \in Links
      /\ changes \in Nat /\ round \in 0..MaxRound
  BY TypeSplit
<1> DEFINE ls == Head(chan[<<s, r>>]).lsa
<1>2. CASE InstallLSA(s, r)
  <2>1. Arrives(s, r, "update")
    BY <1>2 DEF InstallLSA
  <2>2. s \in Router /\ r \in Router /\ ls \in Instance
    BY <2>1, ArrivalType
  <2>3. /\ Aged(s, r, ls) \in Instance /\ AgedOnLink(s, r, ls) \in Links
        /\ IsStore(AgedInStore(s, r, ls))
    BY <2>1, AgedType
  <2>4. [Flood(r, ls, s) EXCEPT ![<<r, s>>] = <<Ack>>] \in Sending
    BY <2>2, FloodType
  <2>5. /\ Transmit(AgedOnLink(s, r, ls), retrans, AgedInStore(s, r, ls),
                     [Flood(r, ls, s) EXCEPT ![<<r, s>>] = <<Ack>>], Originator)
        /\ db' = [db EXCEPT ![r] = Aged(s, r, ls)]
        /\ CreateLSA(r) /\ UNCHANGED <<changes, round>>
    BY <1>2 DEF InstallLSA
  <2>6. chan' \in Links /\ retrans' \in Copies /\ IsStore(upd')
    <3> HIDE DEF ls
    <3> QED BY <1>1, <2>3, <2>4, <2>5, Times, TransmitType
  <2>7. db' \in [Router -> Instance \cup {NoLSA}]
    BY <1>1, <2>3, <2>5
  <2>8. due' \subseteq timer' /\ timer' \subseteq Router
    BY <1>1, <2>2, <2>5 DEF CreateLSA
  <2> QED BY <1>1, <2>5, <2>6, <2>7, <2>8 DEF TypeOK, Copies, IsStore, Links
<1>3. CASE EqualLSA(s, r) \/ OlderLSA(s, r) \/ ReceiveAck(s, r)
  <2>1. PICK type : Arrives(s, r, type)
    BY <1>3 DEF EqualLSA, OlderLSA, ReceiveAck
  <2>2. s \in Router /\ r \in Router /\ Received(<<s, r>>) \in Links
    BY <2>1, ArrivalType
  <2>3. OneLess(<<r, s>>) \in Copies /\ IsStore(Repeated(<<r, s>>))
    BY CopiesType
  <2>4. Reply(r, s, Ack) \in Sending /\ NoPackets \in Sending
    BY ReplyType, MessageType
  <2>5. chan' \in Links /\ retrans' \in Copies /\ IsStore(upd')
    <3>1. CASE EqualLSA(s, r)
      BY <2>2, <2>3, <2>4, <3>1, Times, TransmitType DEF EqualLSA
    <3>2. CASE OlderLSA(s, r)
      <4>1. /\ db[r] \in Instance
            /\ Transmit(Received(<<s, r>>), retrans, upd, Reply(r, s, Update(db[r])), r)
        BY <3>2, OlderIsAnswered
      <4>2. Reply(r, s, Update(db[r])) \in Sending
        BY <4>1, MessageType, ReplyType
      <4> QED BY <1>1, <2>2, <4>1, <4>2, TransmitType
    <3>3. CASE ReceiveAck(s, r)
      BY <2>2, <2>3, <2>4, <3>3, TransmitType DEF ReceiveAck
    <3> QED BY <1>3, <3>1, <3>2, <3>3
  <2>6. UNCHANGED <<db, timer, due, changes, round>>
    BY <1>3 DEF EqualLSA, OlderLSA, ReceiveAck
  <2> QED BY <1>1, <2>5, <2>6 DEF TypeOK, Copies, IsStore, Links
<1> QED BY <1>2, <1>3 DEF Deliver

LEMMA TypeRest ==
  ASSUME TypeOK,
         \/ \E e \in Adjacent : ResendUpdates(e)
         \/ LinkStateChanged \/ NextRound \/ UNCHANGED vars
  PROVE  TypeOK'
<1>1. /\ db \in [Router -> Instance \cup {NoLSA}]
      /\ due \subseteq timer /\ timer \subseteq Router
      /\ retrans \in Copies /\ IsStore(upd) /\ chan \in Links
      /\ changes \in Nat /\ round \in 0..MaxRound
  BY TypeSplit
<1>2. ASSUME NEW e \in Adjacent, ResendUpdates(e) PROVE TypeOK'
  <2>1. ASSUME NEW i \in 1..Cardinality(DOMAIN upd[e])
        PROVE  Update(upd[e][OriginAt(e, i)]) \in Message
    <3>1. OriginAt(e, i) \in DOMAIN upd[e]
      BY RankIsNumbering
    <3>2. upd[e][OriginAt(e, i)] \in Instance
      BY <1>1, <3>1 DEF IsStore
    <3> QED BY <3>2, MessageType
  <2>2. UpdatesDue(e) \in [1..Cardinality(DOMAIN upd[e]) -> Message]
    BY <2>1 DEF UpdatesDue
  <2>3. UpdatesDue(e) \in Seq(Message) /\ chan[e] \in Seq(Message)
    BY <1>1, <2>2, RankIsNumbering, SeqDef DEF Links
  <2>4. chan[e] \o UpdatesDue(e) \in Seq(Message)
    BY <2>3, ConcatProperties
  <2>5. chan' \in Links
    BY <1>1, <1>2, <2>4 DEF ResendUpdates, Links
  <2> QED BY <1>1, <1>2, <2>5 DEF ResendUpdates, TypeOK, Copies, IsStore, Links
<1>3. CASE LinkStateChanged
  <2>1. Changed(db[Originator]) \in Instance
    BY <1>3, ChangedType
  <2>2. Flood(Originator, Changed(db[Originator]), Originator) \in Sending
    BY <2>1, FloodType
  <2>3. chan' \in Links /\ retrans' \in Copies /\ IsStore(upd')
    BY <1>1, <1>3, <2>2, Times, TransmitType DEF LinkStateChanged
  <2>4. /\ db' \in [Router -> Instance \cup {NoLSA}] /\ changes' \in Nat
        /\ UNCHANGED <<timer, due, round>>
    <3>1. /\ db' = [db EXCEPT ![Originator] = Changed(db[Originator])]
          /\ changes' = changes + 1 /\ UNCHANGED <<timer, due, round>>
      BY <1>3, Zenon DEF LinkStateChanged, Changed
    <3>2. db' \in [Router -> Instance \cup {NoLSA}]
      BY <1>1, <2>1, <3>1
    <3>3. changes' \in Nat
      BY <1>1, <3>1
    <3> QED BY <3>1, <3>2, <3>3
  <2> QED BY <1>1, <2>3, <2>4 DEF TypeOK, Copies, IsStore, Links
<1>4. CASE NextRound
  <2>1. round' \in 0..MaxRound /\ due' = timer
        /\ UNCHANGED <<db, timer, retrans, upd, chan, changes>>
    BY <1>1, <1>4, Times DEF NextRound
  <2> QED BY <1>1, <2>1 DEF TypeOK, Copies, IsStore, Links
<1>5. CASE UNCHANGED vars
  BY <1>1, <1>5 DEF vars, TypeOK, Copies, IsStore, Links
<1> QED BY <1>2, <1>3, <1>4, <1>5

LEMMA TypeStep == TypeOK /\ [Next]_vars => TypeOK'
BY TypeTimers, TypeDeliver, TypeRest DEF Next

(* TypeOK: every handler of the aging keeps the copies, links and lists    *)
(* well formed; no retransmission count falls below zero.                  *)
THEOREM TypeCorrect == Spec => []TypeOK
BY TypeInit, TypeStep, PTL DEF Spec

-----------------------------------------------------------------------------
(* No copy is left without a timer.                                        *)

(* An update that is kept for repetition has a copy on the retransmission  *)
(* list as well.                                                           *)
KeptAreUnacked == \A e \in Adjacent : DOMAIN upd[e] # {} => retrans[e] > 0

(* A timer that expires at the originator while its LSA is at MaxAge finds *)
(* it acknowledged: the age has not changed since the round began, and     *)
(* only the originator could have made the network busy again, with a new  *)
(* age.  At the other routers the removal may wait in vain.                *)
OriginatorAtRest ==
  /\ Holds(Originator) => Originator \in timer
  /\ Originator \in due /\ AtMaxAge(Originator) => Quiet /\ Acked

Timed == KeptAreUnacked /\ OriginatorAtRest /\ HeldAreAged

LEMMA TransmitKeeps ==
  ASSUME NEW links \in Links, NEW copies \in Copies, NEW stored, NEW sent \in Sending,
         NEW origin, Transmit(links, copies, stored, sent, origin),
         \A e \in Adjacent : DOMAIN stored[e] # {} => copies[e] > 0
  PROVE  KeptAreUnacked'
<1> SUFFICES ASSUME NEW e \in Adjacent, DOMAIN upd'[e] # {} PROVE retrans'[e] > 0
  BY DEF KeptAreUnacked
<1>1. /\ copies[e] \in Nat
      /\ retrans'[e] = copies[e] + IF Recorded(e, sent) THEN 1 ELSE 0
      /\ ~Recorded(e, sent) => upd'[e] = stored[e]
  BY DEF Transmit, Copies
<1> QED BY <1>1

LEMMA RepeatedKeeps ==
  ASSUME TypeOK, KeptAreUnacked, NEW e
  PROVE  \A f \in Adjacent : DOMAIN Repeated(e)[f] # {} => OneLess(e)[f] > 0
<1>1. retrans \in Copies /\ IsStore(upd)
  BY TypeSplit
<1>2. ASSUME NEW f \in Adjacent
      PROVE  /\ Repeated(e)[f] = IF f = e /\ retrans[f] = 1 THEN NoUpdates ELSE upd[f]
             /\ OneLess(e)[f] = IF f = e
                                THEN IF retrans[f] > 0 THEN retrans[f] - 1 ELSE 0
                                ELSE retrans[f]
  BY <1>1 DEF Repeated, OneLess, IsStore, Copies
<1>3. DOMAIN NoUpdates = {}
  BY DEF NoUpdates
<1>4. \A f \in Adjacent : retrans[f] \in Nat /\ (DOMAIN upd[f] # {} => retrans[f] > 0)
  BY <1>1 DEF Copies, KeptAreUnacked
<1> QED BY <1>2, <1>3, <1>4

LEMMA KeptStep == TypeOK /\ KeptAreUnacked /\ [Next]_vars => KeptAreUnacked'
<1> SUFFICES ASSUME TypeOK, KeptAreUnacked, [Next]_vars PROVE KeptAreUnacked'
  OBVIOUS
<1>1. /\ db \in [Router -> Instance \cup {NoLSA}]
      /\ retrans \in Copies /\ chan \in Links
      /\ \A e \in Adjacent : DOMAIN upd[e] # {} => retrans[e] > 0
  BY TypeSplit DEF KeptAreUnacked
<1>2. CASE UNCHANGED <<upd, retrans>>
  BY <1>2 DEF KeptAreUnacked
<1>3. ASSUME NEW r \in Router, RefreshLSA(r) PROVE KeptAreUnacked'
  <2>1. db[r] \in Instance
    BY <1>1, <1>3 DEF RefreshLSA, RefreshDue, Holds
  <2>2. Flood(r, Refreshed(r), r) \in Sending
    BY <2>1, FloodType, RefreshedType
  <2> QED BY <1>1, <1>3, <2>2, TransmitKeeps DEF RefreshLSA
<1>4. ASSUME NEW s, NEW r, Deliver(s, r) PROVE KeptAreUnacked'
  <2> DEFINE ls == Head(chan[<<s, r>>]).lsa
  <2>1. PICK type : Arrives(s, r, type)
    BY <1>4 DEF Deliver, InstallLSA, EqualLSA, OlderLSA, ReceiveAck
  <2>2. r \in Router /\ Received(<<s, r>>) \in Links
    BY <2>1, ArrivalType
  <2>3. OneLess(<<r, s>>) \in Copies
    BY CopiesType
  <2>4. Reply(r, s, Ack) \in Sending /\ NoPackets \in Sending
    BY ReplyType, MessageType
  <2>5. CASE InstallLSA(s, r)
    <3>1. Arrives(s, r, "update")
      BY <2>5 DEF InstallLSA
    <3>2. ls \in Instance
      BY <3>1, ArrivalType
    <3>3. /\ AgedOnLink(s, r, ls) \in Links
          /\ \A e \in Adjacent : DOMAIN AgedInStore(s, r, ls)[e] = DOMAIN upd[e]
      BY <3>1, AgedType
    <3>4. [Flood(r, ls, s) EXCEPT ![<<r, s>>] = <<Ack>>] \in Sending
      BY <3>2, FloodType
    <3>5. Transmit(AgedOnLink(s, r, ls), retrans, AgedInStore(s, r, ls),
                   [Flood(r, ls, s) EXCEPT ![<<r, s>>] = <<Ack>>], Originator)
      BY <2>5 DEF InstallLSA
    <3> HIDE DEF ls
    <3> QED BY <1>1, <3>3, <3>4, <3>5, TransmitKeeps
  <2>6. CASE EqualLSA(s, r)
    BY <2>2, <2>3, <2>4, <2>6, RepeatedKeeps, TransmitKeeps DEF EqualLSA
  <2>7. CASE OlderLSA(s, r)
    <3>1. /\ db[r] \in Instance
          /\ Transmit(Received(<<s, r>>), retrans, upd, Reply(r, s, Update(db[r])), r)
      BY <2>7, OlderIsAnswered
    <3>2. Reply(r, s, Update(db[r])) \in Sending
      BY <3>1, MessageType, ReplyType
    <3> QED BY <1>1, <2>2, <3>1, <3>2, TransmitKeeps
  <2>8. CASE ReceiveAck(s, r)
    BY <2>2, <2>3, <2>4, <2>8, RepeatedKeeps, TransmitKeeps DEF ReceiveAck
  <2> QED BY <1>4, <2>5, <2>6, <2>7, <2>8 DEF Deliver
<1>5. CASE LinkStateChanged
  <2>1. Flood(Originator, Changed(db[Originator]), Originator) \in Sending
    BY <1>5, ChangedType, FloodType
  <2> QED BY <1>1, <1>5, <2>1, TransmitKeeps DEF LinkStateChanged
<1> QED BY <1>2, <1>3, <1>4, <1>5
        DEF Next, RemoveLSA, AgeLSA, ResendUpdates, NextRound, vars

(* The copies, and their timers, after a step.                             *)
LEMMA RestAndHeld ==
  TypeOK /\ Timed /\ [Next]_vars => OriginatorAtRest' /\ HeldAreAged'
<1> SUFFICES ASSUME TypeOK, Timed, [Next]_vars
             PROVE  OriginatorAtRest' /\ HeldAreAged'
  OBVIOUS
<1>1. /\ db \in [Router -> Instance \cup {NoLSA}]
      /\ due \subseteq timer /\ timer \subseteq Router
      /\ Originator \in Router /\ MaxAge > 0
      /\ KeptAreUnacked /\ OriginatorAtRest /\ HeldAreAged
  BY TypeSplit, Times DEF Timed
<1> DEFINE o == Originator
<1>2. ASSUME NEW r \in Router, RefreshLSA(r)
      PROVE  OriginatorAtRest' /\ HeldAreAged'
  <2>1. /\ r = o /\ r \in due /\ due' = due \ {r} /\ timer' = timer
        /\ \A q \in Router : q # r => db'[q] = db[q]
    BY <1>1, <1>2 DEF RefreshLSA, RefreshDue, Expires
  <2> QED BY <1>1, <2>1 DEF OriginatorAtRest, HeldAreAged, Holds, AtMaxAge
<1>3. ASSUME NEW r \in Router, RemoveLSA(r)
      PROVE  OriginatorAtRest' /\ HeldAreAged'
  <2>1. /\ r \in due /\ due' = due \ {r} /\ timer' = timer \ {r}
        /\ AtMaxAge(r) /\ UNCHANGED <<retrans, chan>>
        /\ \A q \in Router : q # r => db'[q] = db[q]
        /\ db'[r] = IF Unacked(r) THEN db[r] ELSE NoLSA
    BY <1>1, <1>3 DEF RemoveLSA, Expires
  <2>2. r = o => ~Unacked(r)
    <3> SUFFICES ASSUME r = o, NEW n \in Neighbours(r), retrans[<<r, n>>] > 0 PROVE FALSE
      BY DEF Unacked
    <3>1. Acked /\ <<r, n>> \in Adjacent
      BY <1>1, <2>1 DEF OriginatorAtRest, Neighbours
    <3> QED BY <3>1 DEF Acked
  <2>3. HeldAreAged'
    BY <1>1, <2>1 DEF HeldAreAged, Holds, AtMaxAge
  <2>4. OriginatorAtRest'
    <3>1. Quiet' = Quiet /\ Acked' = Acked
      BY <2>1 DEF Quiet, Acked
    <3> QED BY <1>1, <2>1, <2>2, <3>1 DEF OriginatorAtRest, Holds, AtMaxAge
  <2> QED BY <2>3, <2>4
<1>4. ASSUME NEW r \in Router, AgeLSA(r)
      PROVE  OriginatorAtRest' /\ HeldAreAged'
  <2>1. /\ r \in due /\ due' = due \ {r} /\ timer' = timer /\ UNCHANGED <<retrans, chan>>
        /\ \A q \in Router : q # r => db'[q] = db[q]
        /\ Holds(r)' => Holds(r)
    BY <1>1, <1>4 DEF AgeLSA, Expires, Holds
  <2>2. Quiet' = Quiet /\ Acked' = Acked
    BY <2>1 DEF Quiet, Acked
  <2> QED BY <1>1, <2>1, <2>2 DEF OriginatorAtRest, HeldAreAged, Holds, AtMaxAge
<1>5. ASSUME NEW s, NEW r, Deliver(s, r)
      PROVE  OriginatorAtRest' /\ HeldAreAged'
  <2>1. PICK type : Arrives(s, r, type)
    BY <1>5 DEF Deliver, InstallLSA, EqualLSA, OlderLSA, ReceiveAck
  <2>2. r \in Router /\ ~Quiet
    BY <2>1, ArrivalType
  <2>3. o \in due => ~AtMaxAge(o)
    BY <1>1, <2>2 DEF OriginatorAtRest
  <2>4. CASE InstallLSA(s, r)
    <3>1. /\ timer' = timer \cup {r} /\ due' = due \ {r}
          /\ \A q \in Router : q # r => db'[q] = db[q]
      BY <1>1, <2>4 DEF InstallLSA, CreateLSA
    <3> QED BY <1>1, <2>2, <2>3, <3>1 DEF OriginatorAtRest, HeldAreAged, Holds, AtMaxAge
  <2>5. CASE UNCHANGED <<db, timer, due>>
    BY <1>1, <2>3, <2>5 DEF OriginatorAtRest, HeldAreAged, Holds, AtMaxAge
  <2> QED BY <1>5, <2>4, <2>5 DEF Deliver, EqualLSA, OlderLSA, ReceiveAck
<1>6. ASSUME NEW e \in Adjacent, ResendUpdates(e)
      PROVE  OriginatorAtRest' /\ HeldAreAged'
  <2>1. UNCHANGED <<db, timer, due>> /\ ~Acked
    BY <1>1, <1>6 DEF ResendUpdates, KeptAreUnacked, Acked
  <2> QED BY <1>1, <2>1 DEF OriginatorAtRest, HeldAreAged, Holds, AtMaxAge
<1>7. CASE LinkStateChanged
  <2>1. /\ Holds(o) /\ UNCHANGED <<timer, due>>
        /\ \A q \in Router : q # o => db'[q] = db[q]
        /\ db'[o] = Changed(db[o])
    BY <1>1, <1>7 DEF LinkStateChanged
  <2>2. db'[o].age = 0
    BY <2>1 DEF Changed
  <2> QED BY <1>1, <2>1, <2>2 DEF OriginatorAtRest, HeldAreAged, Holds, AtMaxAge
<1>8. CASE NextRound
  <2>1. UNCHANGED <<db, timer, retrans, chan>> /\ Quiet /\ Acked
    BY <1>8 DEF NextRound
  <2>2. Quiet' /\ Acked'
    BY <2>1 DEF Quiet, Acked
  <2> QED BY <1>1, <2>1, <2>2 DEF OriginatorAtRest, HeldAreAged, Holds
<1>9. CASE UNCHANGED vars
  BY <1>1, <1>9 DEF vars, OriginatorAtRest, HeldAreAged, Holds, AtMaxAge, Quiet, Acked
<1> QED BY <1>2, <1>3, <1>4, <1>5, <1>6, <1>7, <1>8, <1>9 DEF Next

LEMMA TimedInit == Init => Timed
<1> SUFFICES ASSUME Init PROVE Timed
  OBVIOUS
<1>1. timer = Router /\ due = Router /\ \A e \in Adjacent : upd[e] = NoUpdates
  BY DEF Init
<1>2. Quiet /\ Acked
  BY DEF Init, Quiet, Acked
<1>3. DOMAIN NoUpdates = {}
  BY DEF NoUpdates
<1> QED BY <1>1, <1>2, <1>3, Times
        DEF Timed, KeptAreUnacked, OriginatorAtRest, HeldAreAged

(* HeldAreAged: as long as a router holds an LSA its aging timer runs, or  *)
(* it has reached MaxAge exactly and waits in vain for acknowledgements:   *)
(* neither a removal that races with a flood nor a flood that races with a *)
(* removal leaves a copy of another age behind.                            *)
THEOREM CopiesAreAged == Spec => []HeldAreAged
<1>1. TypeOK /\ Timed /\ [Next]_vars => Timed'
  BY KeptStep, RestAndHeld DEF Timed
<1>2. Timed => HeldAreAged
  BY DEF Timed
<1> QED BY <1>1, <1>2, TimedInit, TypeCorrect, PTL DEF Spec

(* The originator's own copy is always aged, so the refresh is not stopped *)
(* by the removal.                                                         *)
THEOREM OwnCopyIsAged == Spec => [](Holds(Originator) => Originator \in timer)
<1>1. TypeOK /\ Timed /\ [Next]_vars => Timed'
  BY KeptStep, RestAndHeld DEF Timed
<1>2. Timed => (Holds(Originator) => Originator \in timer)
  BY DEF Timed, OriginatorAtRest
<1> QED BY <1>1, <1>2, TimedInit, TypeCorrect, PTL DEF Spec
-----------------------------------------------------------------------------
(* The refresh.                                                            *)

(* A flood that each router passes on once adds this much at most.         *)
Spread(F) == Delay * Cardinality(F)
Connected ==
  \A S \in SUBSET Router :
    Originator \in S /\ (\A e \in Adjacent : e[1] \in S => e[2] \in S) => S = Router

InSeconds(t) == \E k \in 0..t : t = k * Second

(* The times are those of utils.h in their order: the originator's age     *)
(* meets RefreshTime, and neither the delays of a flood nor a second tell  *)
(* instances apart, where a refresh does.                                  *)
TimesApart ==
  /\ InSeconds(RefreshTime)
  /\ Spread(Router) < Second /\ Second <= MaxAgeDiff
  /\ MaxAgeDiff + Spread(Router) < RefreshTime
  /\ RefreshTime + Second + Spread(Router) < MaxAge

(* The age when the round began.                                           *)
AgeBefore(r) == db[r].age - IF r \in due THEN 0 ELSE Second

AllUnchanged ==
  /\ \A r \in Router : Holds(r) /\ db[r].seq = 0
  /\ timer = Router

AreClose(S, t) == \A r \in S : t <= AgeBefore(r) /\ AgeBefore(r) <= t + Spread(Router)

(* Nothing is sent; all copies are as old as the originator's, but for the *)
(* delays.  It has not expired in the round in which it is refreshed.      *)
Calm ==
  /\ Quiet /\ \A e \in Adjacent : DOMAIN upd[e] = {}
  /\ LET t == AgeBefore(Originator) IN
     /\ t \in Nat /\ InSeconds(t) /\ t <= RefreshTime
     /\ AreClose(Router, t)
     /\ t = RefreshTime => Originator \in due

(* The routers that have the refreshed instance.                           *)
Fresh == {r \in Router : db[r].age <= Spread(Router)}

Young(ls, F) == ls.seq = 0 /\ ls.age <= Spread(F)
HasUpdate(q) == \E i \in DOMAIN q : q[i].type = "update"

YoungLinks(c, F) ==
  \A e \in Adjacent : \A i \in DOMAIN c[e] :
    c[e][i].type = "update" => e[1] \in F /\ Young(c[e][i].lsa, F)
YoungStore(u, F) ==
  \A e \in Adjacent : \A o \in DOMAIN u[e] : e[1] \in F /\ Young(u[e][o], F)
OnTheWay(c, F) ==
  \A e \in Adjacent : e[1] \in F /\ e[2] \notin F => HasUpdate(c[e])

(* The refreshed instance is with some, whose timers have been set again,  *)
(* and on its way to all their neighbours.                                 *)
Refreshing ==
  /\ db[Originator].age = 0
  /\ Fresh \cap due = {} /\ Originator \notin due
  /\ \A r \in Fresh : Young(db[r], Fresh)
  /\ AreClose(Router \ Fresh, RefreshTime)
  /\ YoungLinks(chan, Fresh) /\ YoungStore(upd, Fresh) /\ OnTheWay(chan, Fresh)

Unchanged == changes = 0 => AllUnchanged /\ (Calm \/ Refreshing)

-----------------------------------------------------------------------------
(* Arithmetic.                                                             *)

LEMMA SpreadType ==
  ASSUME NEW F \in SUBSET Router
  PROVE  /\ IsFiniteSet(F) /\ Spread(F) \in Nat /\ Spread(F) <= Spread(Router)
         /\ \A r \in Router \ F : Spread(F \cup {r}) = Spread(F) + Delay
         /\ \A r \in F : Delay <= Spread(F)
<1>1. IsFiniteSet(Router)
  BY AgingAssumption
<1>2. /\ IsFiniteSet(F) /\ Cardinality(F) \in Nat /\ Cardinality(Router) \in Nat
      /\ Cardinality(F) <= Cardinality(Router)
  BY <1>1, FS_Subset, FS_CardinalityType
<1>3. \A d, m, n \in Nat : /\ m <= n => d * m <= d * n
                           /\ d * m \in Nat /\ d * (m + 1) = d * m + d
                           /\ m # 0 => d <= d * m
  <2>1. ASSUME NEW d \in Nat, NEW m \in Nat, NEW n \in Nat, m <= n PROVE d * m <= d * n
    <3>1. n - m \in Nat /\ d * n = d * m + d * (n - m) /\ d * m \in Nat
      BY <2>1
    <3>2. d * (n - m) \in Nat
      BY <3>1
    <3>3. d * n \in Nat
      OBVIOUS
    <3> QED BY <3>1, <3>2, <3>3
  <2>2. ASSUME NEW d \in Nat, NEW m \in Nat
        PROVE d * m \in Nat /\ d * (m + 1) = d * m + d
    OBVIOUS
  <2>3. ASSUME NEW d \in Nat, NEW m \in Nat, m # 0 PROVE d <= d * m
    <3>1. 1 <= m /\ d * 1 = d
      BY <2>3
    <3> QED BY <2>1, <3>1
  <2> QED BY <2>1, <2>2, <2>3
<1>4. Delay \in Nat
  BY Times
<1>5. Spread(F) \in Nat /\ Spread(F) <= Spread(Router)
  BY <1>2, <1>3, <1>4 DEF Spread
<1>6. ASSUME NEW r \in Router \ F PROVE Spread(F \cup {r}) = Spread(F) + Delay
  <2>1. Cardinality(F \cup {r}) = Cardinality(F) + 1
    BY <1>2, FS_AddElement
  <2> QED BY <1>2, <1>3, <1>4, <2>1 DEF Spread
<1>7. ASSUME NEW r \in F PROVE Delay <= Spread(F)
  <2>1. Cardinality(F) # 0
    BY <1>2, FS_EmptySet
  <2> QED BY <1>2, <1>3, <1>4, <2>1 DEF Spread
<1> QED BY <1>2, <1>5, <1>6, <1>7

LEMMA SecondsAdd ==
  /\ InSeconds(0)
  /\ \A t \in Nat : InSeconds(t) => InSeconds(t + Second)
  /\ \A t, u \in Nat : InSeconds(t) /\ InSeconds(u) /\ t < u => t + Second <= u
<1>1. Second \in Nat /\ Second >= 1
  BY Times
<1>2. InSeconds(0)
  BY <1>1 DEF InSeconds
<1>3. ASSUME NEW t \in Nat, InSeconds(t) PROVE InSeconds(t + Second)
  <2>1. PICK k \in 0..t : t = k * Second
    BY <1>3 DEF InSeconds
  <2>2. k + 1 \in 0..(t + Second) /\ t + Second = (k + 1) * Second
    BY <1>1, <2>1
  <2> QED BY <2>2 DEF InSeconds
<1>4. ASSUME NEW t \in Nat, NEW u \in Nat, InSeconds(t), InSeconds(u), t < u
      PROVE  t + Second <= u
  <2>1. PICK k \in 0..t : t = k * Second
    BY <1>4 DEF InSeconds
  <2>2. PICK m \in 0..u : u = m * Second
    BY <1>4 DEF InSeconds
  <2>3. k \in Nat /\ m \in Nat
    OBVIOUS
  <2>4. CASE k >= m
    <3>1. k - m \in Nat /\ k * Second = m * Second + (k - m) * Second
      BY <1>1, <2>3, <2>4
    <3>2. (k - m) * Second \in Nat
      BY <1>1, <3>1
    <3>3. k * Second >= m * Second
      BY <1>1, <2>3, <3>1, <3>2
    <3> QED BY <1>4, <2>1, <2>2, <3>3
  <2>5. CASE k < m
    <3>1. m - (k + 1) \in Nat /\ m * Second = (k * Second + Second) + (m - (k + 1)) * Second
      BY <1>1, <2>3, <2>5
    <3>2. (m - (k + 1)) * Second \in Nat
      BY <1>1, <3>1
    <3> QED BY <2>1, <2>2, <2>3, <1>1, <3>1, <3>2
  <2> QED BY <2>3, <2>4, <2>5
<1> QED BY <1>2, <1>3, <1>4

-----------------------------------------------------------------------------
(* What a step does to the links and lists during a flood.                 *)

LEMMA YoungType ==
  ASSUME TypeOK, NEW ls \in Instance, NEW F \in SUBSET Router, Young(ls, F)
  PROVE  ls.seq = 0 /\ ls.age \in Nat /\ ls.age <= Spread(F) /\ ls.age <= Spread(Router)
                   /\ Spread(F) \in Nat
BY SpreadType, InstanceType DEF Young

(* c has the elements of p and q.                                          *)
Merges(c, p, q) ==
  /\ \A i \in DOMAIN c : (\E j \in DOMAIN p : c[i] = p[j]) \/ (\E j \in DOMAIN q : c[i] = q[j])
  /\ \A j \in DOMAIN p : \E i \in DOMAIN c : c[i] = p[j]
  /\ \A j \in DOMAIN q : \E i \in DOMAIN c : c[i] = q[j]

LEMMA Appended ==
  ASSUME NEW p \in Seq(Message), NEW q \in Seq(Message)
  PROVE  Merges(p \o q, p, q)
<1> DEFINE c == p \o q
           m == Len(p)
           n == Len(q)
<1>1. m \in Nat /\ n \in Nat /\ DOMAIN p = 1..m /\ DOMAIN q = 1..n
  BY LenProperties
<1>2. /\ c \in Seq(Message) /\ Len(c) = m + n
      /\ \A i \in 1..(m + n) : c[i] = IF i <= m THEN p[i] ELSE q[i - m]
  BY ConcatProperties
<1>3. DOMAIN c = 1..(m + n)
  BY <1>2, LenProperties
<1> HIDE DEF c, m, n
<1>4. ASSUME NEW i \in DOMAIN c
      PROVE  (\E j \in DOMAIN p : c[i] = p[j]) \/ (\E j \in DOMAIN q : c[i] = q[j])
  <2>1. CASE i <= m
    <3>1. i \in DOMAIN p /\ c[i] = p[i]
      BY <1>1, <1>2, <1>3, <2>1
    <3> QED BY <3>1
  <2>2. CASE ~(i <= m)
    <3>1. i - m \in DOMAIN q
      BY <1>1, <1>3, <2>2
    <3>2. c[i] = q[i - m]
      BY <1>2, <1>3, <2>2
    <3> QED BY <3>1, <3>2
  <2> QED BY <2>1, <2>2
<1>5. ASSUME NEW j \in DOMAIN p PROVE j \in DOMAIN c /\ c[j] = p[j]
  <2>1. j \in 1..(m + n) /\ j <= m
    BY <1>1
  <2> QED BY <1>2, <1>3, <2>1
<1>6. ASSUME NEW j \in DOMAIN q PROVE m + j \in DOMAIN c /\ c[m + j] = q[j]
  <2>1. m + j \in 1..(m + n) /\ ~(m + j <= m) /\ (m + j) - m = j
    BY <1>1
  <2> QED BY <1>2, <1>3, <2>1
<1>7. Merges(c, p, q)
  BY <1>4, <1>5, <1>6 DEF Merges
<1> QED BY <1>7 DEF c

LEMMA TransmitYoung ==
  ASSUME NEW links \in Links, NEW copies, NEW stored, NEW sent \in Sending,
         NEW origin, Transmit(links, copies, stored, sent, origin), NEW F,
         YoungLinks(links, F), YoungStore(stored, F), YoungLinks(sent, F)
  PROVE  /\ YoungLinks(chan', F) /\ YoungStore(upd', F)
         /\ \A e \in Adjacent : HasUpdate(links[e]) \/ HasUpdate(sent[e]) => HasUpdate(chan'[e])
<1>1. ASSUME NEW e \in Adjacent PROVE Merges(chan'[e], links[e], sent[e])
  <2>1. links[e] \in Seq(Message) /\ sent[e] \in Seq(Message)
    BY SentType DEF Links
  <2>2. chan'[e] = links[e] \o sent[e]
    BY DEF Transmit
  <2> QED BY <2>1, <2>2, Appended
<1>2. YoungLinks(chan', F)
  <2> SUFFICES ASSUME NEW e \in Adjacent, NEW i \in DOMAIN chan'[e], chan'[e][i].type = "update"
               PROVE  e[1] \in F /\ Young(chan'[e][i].lsa, F)
    BY DEF YoungLinks
  <2> QED BY <1>1 DEF YoungLinks, Merges
<1>3. YoungStore(upd', F)
  <2> SUFFICES ASSUME NEW e \in Adjacent, NEW o \in DOMAIN upd'[e]
               PROVE  e[1] \in F /\ Young(upd'[e][o], F)
    BY DEF YoungStore
  <2>1. CASE ~Recorded(e, sent)
    <3>1. upd'[e] = stored[e]
      BY <2>1 DEF Transmit
    <3> QED BY <3>1 DEF YoungStore
  <2>2. CASE Recorded(e, sent)
    <3>1. upd'[e] = [a \in DOMAIN stored[e] \cup {origin} |->
                       IF a = origin THEN Head(sent[e]).lsa ELSE stored[e][a]]
      BY <2>2 DEF Transmit
    <3>2. PICK i \in DOMAIN sent[e] : sent[e][i].type = "update"
      BY <2>2 DEF Recorded
    <3>3. sent[e] = <<>> \/ \E m \in Message : sent[e] = <<m>>
      BY DEF Sending
    <3>4. Head(sent[e]) = sent[e][i]
      BY <3>2, <3>3
    <3>5. e[1] \in F /\ Young(Head(sent[e]).lsa, F)
      BY <3>2, <3>4 DEF YoungLinks
    <3> QED BY <3>1, <3>5 DEF YoungStore
  <2> QED BY <2>1, <2>2
<1>4. ASSUME NEW e \in Adjacent, HasUpdate(links[e]) \/ HasUpdate(sent[e])
      PROVE  HasUpdate(chan'[e])
  BY <1>1, <1>4 DEF HasUpdate, Merges
<1> QED BY <1>2, <1>3, <1>4

-----------------------------------------------------------------------------
(* The copies.                                                             *)

LEMMA Apart ==
  ASSUME TimesApart
  PROVE  /\ Spread(Router) \in Nat /\ Delay \in Nat /\ Second \in Nat /\ RefreshTime \in Nat
         /\ MaxAge \in Nat /\ MaxAgeDiff \in Nat
         /\ 0 < RefreshTime /\ Spread(Router) < Second /\ Spread(Router) < MaxAgeDiff
         /\ MaxAgeDiff + Spread(Router) < RefreshTime
         /\ RefreshTime + Second + Spread(Router) < MaxAge
         /\ Delay <= Spread(Router)
<1>1. Spread(Router) \in Nat /\ Delay <= Spread(Router)
  BY SpreadType, Times
<1> QED BY <1>1, Times DEF TimesApart

LEMMA CopyType ==
  ASSUME TypeOK, AllUnchanged, NEW r \in Router
  PROVE  db[r] \in Instance /\ db[r].age \in Nat /\ db[r].seq = 0 /\ Holds(r)
<1>1. db[r] \in Instance
  BY TypeSplit DEF AllUnchanged, Holds
<1> QED BY <1>1, InstanceType DEF AllUnchanged

(* No copy gets near MaxAge.                                               *)
LEMMA CloseAreYoung ==
  ASSUME TypeOK, TimesApart, AllUnchanged, NEW S, NEW t \in Nat, t <= RefreshTime,
         AreClose(S, t), NEW r \in S, r \in Router
  PROVE  /\ db[r].age <= RefreshTime + Second + Spread(Router)
         /\ r \in due => db[r].age <= RefreshTime + Spread(Router)
         /\ t <= db[r].age
<1>1. t <= AgeBefore(r) /\ AgeBefore(r) <= t + Spread(Router)
  BY DEF AreClose
<1> QED BY <1>1, CopyType, Apart DEF AgeBefore

LEMMA AgesLimited ==
  ASSUME TypeOK, TimesApart, AllUnchanged, Calm \/ Refreshing, NEW r \in Router
  PROVE  /\ db[r].age <= RefreshTime + Second + Spread(Router)
         /\ ~AtMaxAge(r)
<1>1. CASE Calm
  <2>1. PICK t : t \in Nat /\ t <= RefreshTime /\ AreClose(Router, t)
    BY <1>1 DEF Calm
  <2>2. db[r].age <= RefreshTime + Second + Spread(Router)
    BY <2>1, CloseAreYoung
  <2> QED BY <2>2, CopyType, Apart DEF AtMaxAge
<1>2. CASE Refreshing
  <2>1. CASE r \in Fresh
    <3>1. db[r].age <= Spread(Router)
      BY <2>1 DEF Fresh
    <3> QED BY <3>1, CopyType, Apart DEF AtMaxAge
  <2>2. CASE r \notin Fresh
    <3>1. AreClose(Router \ Fresh, RefreshTime) /\ RefreshTime \in Nat
      BY <1>2, Apart DEF Refreshing
    <3>2. db[r].age <= RefreshTime + Second + Spread(Router)
      BY <2>2, <3>1, CloseAreYoung, Apart
    <3> QED BY <3>2, CopyType, Apart DEF AtMaxAge
  <2> QED BY <2>1, <2>2
<1> QED BY <1>1, <1>2

LEMMA SameCopies ==
  ASSUME UNCHANGED <<db, due>>
  PROVE  /\ Fresh' = Fresh
         /\ \A r : AgeBefore(r)' = AgeBefore(r)
         /\ \A S, t : AreClose(S, t)' <=> AreClose(S, t)
<1>1. Fresh' = Fresh
  BY DEF Fresh
<1>2. \A r : AgeBefore(r)' = AgeBefore(r)
  BY DEF AgeBefore
<1> QED BY <1>1, <1>2 DEF AreClose

LEMMA UnchangedInit ==
  ASSUME InitSeqs \subseteq {0}, TimesApart, Init PROVE AllUnchanged /\ Calm
<1>1. PICK s \in InitSeqs : \E age \in [Router -> {0, Delay}] :
        /\ age[Originator] = 0
        /\ db = [r \in Router |-> [seq |-> s, age |-> age[r], links |-> 0]]
  BY DEF Init
<1>2. PICK age \in [Router -> {0, Delay}] :
        /\ age[Originator] = 0
        /\ db = [r \in Router |-> [seq |-> s, age |-> age[r], links |-> 0]]
  BY <1>1
<1>3. timer = Router /\ due = Router /\ Originator \in Router
  BY Times DEF Init
<1>4. \A r \in Router : db[r].seq = 0 /\ db[r].age \in {0, Delay} /\ Holds(r)
  BY <1>2 DEF Holds, NoLSA
<1>5. db[Originator].age = 0
  BY <1>2, <1>3
<1>6. \A r \in Router : AgeBefore(r) = db[r].age
  BY <1>3, <1>4, Apart DEF AgeBefore
<1>7. AreClose(Router, 0)
  BY <1>4, <1>6, Apart DEF AreClose
<1>8. Quiet /\ \A e \in Adjacent : DOMAIN upd[e] = {}
  BY DEF Init, Quiet, NoUpdates
<1>9. AgeBefore(Originator) = 0
  BY <1>3, <1>5, <1>6
<1>10. AllUnchanged
  BY <1>3, <1>4 DEF AllUnchanged
<1>11. Calm
  BY <1>3, <1>7, <1>8, <1>9, SecondsAdd, Apart DEF Calm
<1> QED BY <1>10, <1>11

-----------------------------------------------------------------------------
(* The timers.                                                             *)

(* A copy that is aged by its timer is as old as before, by the round.     *)
LEMMA AgeStep ==
  ASSUME TypeOK, TimesApart, AllUnchanged, NEW r \in Router, AgeLSA(r)
  PROVE  /\ AllUnchanged' /\ UNCHANGED <<timer, retrans, upd, chan, changes>>
         /\ r \in due /\ due' = due \ {r}
         /\ db'[r].age = db[r].age + Second
         /\ \A q \in Router : q # r => db'[q] = db[q]
         /\ \A q \in Router : AgeBefore(q)' = AgeBefore(q)
         /\ \A S \in SUBSET Router : \A t : AreClose(S, t)' <=> AreClose(S, t)
<1>1. /\ r \in due /\ due' = due \ {r}
      /\ UNCHANGED <<timer, retrans, upd, chan, changes>>
  BY DEF AgeLSA, Expires
<1>2. db[r] \in Instance /\ Holds(r)
  BY CopyType
<1>3. db' = [db EXCEPT ![r] = [db[r] EXCEPT !.age = @ + Second]]
  BY <1>2, Zenon DEF AgeLSA
<1>4. db \in [Router -> Instance \cup {NoLSA}]
  BY TypeSplit
<1>5. db'[r] = [db[r] EXCEPT !.age = @ + Second] /\ \A q \in Router : q # r => db'[q] = db[q]
  BY <1>3, <1>4
<1>6. [db[r] EXCEPT !.age = @ + Second] \in Instance
      /\ [db[r] EXCEPT !.age = @ + Second].age = db[r].age + Second
      /\ [db[r] EXCEPT !.age = @ + Second].seq = db[r].seq
  BY <1>2, InstanceType, Apart DEF Instance
<1>7. db'[r] \in Instance /\ db'[r].age = db[r].age + Second /\ db'[r].seq = db[r].seq
  BY <1>5, <1>6
<1>8. \A q \in Router : Holds(q)' /\ db'[q].seq = 0
  BY <1>5, <1>7, InstanceType DEF AllUnchanged, Holds
<1>9. AllUnchanged'
  BY <1>1, <1>8 DEF AllUnchanged
<1>10. ASSUME NEW q \in Router PROVE AgeBefore(q)' = AgeBefore(q)
  <2>1. CASE q = r
    <3>1. AgeBefore(r) = db[r].age /\ AgeBefore(r)' = db'[r].age - Second
      BY <1>1, <1>2, InstanceType DEF AgeBefore
    <3> QED BY <1>2, <1>7, <2>1, <3>1, InstanceType, Apart
  <2>2. CASE q # r
    BY <1>1, <1>5, <2>2 DEF AgeBefore
  <2> QED BY <2>1, <2>2
<1>11. \A S \in SUBSET Router : \A t : AreClose(S, t)' <=> AreClose(S, t)
  BY <1>10 DEF AreClose
<1> QED BY <1>1, <1>5, <1>7, <1>9, <1>10, <1>11

LEMMA AgeCalm ==
  ASSUME TypeOK, TimesApart, AllUnchanged, Calm, NEW r \in Router, AgeLSA(r)
  PROVE  AllUnchanged' /\ Calm'
<1> DEFINE t == AgeBefore(Originator)
<1>1. /\ Quiet /\ \A e \in Adjacent : DOMAIN upd[e] = {}
      /\ t \in Nat /\ InSeconds(t) /\ t <= RefreshTime /\ AreClose(Router, t)
      /\ t = RefreshTime => Originator \in due
  BY DEF Calm
<1>2. /\ AllUnchanged' /\ UNCHANGED <<upd, chan>> /\ r \in due /\ due' = due \ {r}
      /\ t' = t /\ (AreClose(Router, t)' <=> AreClose(Router, t))
  <2>1. \A u : AreClose(Router, u)' <=> AreClose(Router, u)
    BY AgeStep
  <2> QED BY <2>1, AgeStep, Times
<1>3. ASSUME t = RefreshTime PROVE r # Originator
  <2>1. ASSUME r = Originator PROVE FALSE
    <3>1. AgeBefore(r) = db[r].age
      BY <1>2, CopyType DEF AgeBefore
    <3>2. RefreshDue(r)
      BY <1>3, <2>1, <3>1, CopyType DEF RefreshDue
    <3> QED BY <3>2 DEF AgeLSA
  <2> QED BY <2>1
<1>4. Quiet' /\ \A e \in Adjacent : DOMAIN upd'[e] = {}
  BY <1>1, <1>2 DEF Quiet
<1>5. AreClose(Router, AgeBefore(Originator))'
  <2>1. \A q \in Router : AgeBefore(q)' = AgeBefore(q)
    BY AgeStep
  <2> QED BY <1>1, <1>2, <2>1 DEF AreClose
<1>6. t' \in Nat /\ InSeconds(t') /\ t' <= RefreshTime /\ (t' = RefreshTime => Originator \in due')
  BY <1>1, <1>2, <1>3
<1> QED BY <1>2, <1>4, <1>5, <1>6 DEF Calm

LEMMA AgeRefreshing ==
  ASSUME TypeOK, TimesApart, AllUnchanged, Refreshing, NEW r \in Router, AgeLSA(r)
  PROVE  AllUnchanged' /\ Refreshing'
<1>1. /\ AllUnchanged' /\ UNCHANGED <<upd, chan>> /\ r \in due /\ due' = due \ {r}
      /\ db'[r].age = db[r].age + Second
      /\ \A q \in Router : q # r => db'[q] = db[q]
      /\ \A S \in SUBSET Router : \A t : AreClose(S, t)' <=> AreClose(S, t)
  BY AgeStep
<1>2. /\ db[Originator].age = 0 /\ Fresh \cap due = {} /\ Originator \notin due
      /\ \A q \in Fresh : Young(db[q], Fresh)
      /\ AreClose(Router \ Fresh, RefreshTime)
      /\ YoungLinks(chan, Fresh) /\ YoungStore(upd, Fresh) /\ OnTheWay(chan, Fresh)
  BY DEF Refreshing
<1>3. r \notin Fresh /\ r # Originator
  BY <1>1, <1>2
<1>4. Fresh' = Fresh
  <2>1. ~(db[r].age <= Spread(Router))
    BY <1>3 DEF Fresh
  <2>2. ~(db'[r].age <= Spread(Router))
    BY <1>1, <2>1, CopyType, Apart
  <2> QED BY <1>1, <2>1, <2>2 DEF Fresh
<1>5. db'[Originator].age = 0
  BY <1>1, <1>2, <1>3, Times
<1>6. \A q \in Fresh : Young(db'[q], Fresh)
  <2>1. Fresh \subseteq Router
    BY DEF Fresh
  <2> QED BY <1>1, <1>2, <1>3, <2>1
<1>7. AreClose(Router \ Fresh, RefreshTime)'
  <2>1. \A q \in Router : AgeBefore(q)' = AgeBefore(q)
    BY AgeStep
  <2> QED BY <1>2, <1>4, <2>1 DEF AreClose
<1>8. Fresh' \cap due' = {} /\ Originator \notin due'
  BY <1>1, <1>2, <1>4
<1> QED BY <1>1, <1>2, <1>4, <1>5, <1>6, <1>7, <1>8 DEF Refreshing

-----------------------------------------------------------------------------
(* What the handlers take off the links and put on them.                   *)

LEMMA FloodYoung ==
  ASSUME NEW ls \in Instance, ls.seq = 0, NEW F, ls.age + Delay <= Spread(F), NEW r \in F,
         NEW except
  PROVE  /\ YoungLinks(Flood(r, ls, except), F)
         /\ \A e \in Adjacent : e[1] = r /\ e[2] # except => HasUpdate(Flood(r, ls, except)[e])
         /\ \A f : YoungLinks([Flood(r, ls, except) EXCEPT ![f] = <<Ack>>], F)
<1> DEFINE sent == [ls EXCEPT !.age = @ + Delay]
           m == Update(sent)
<1>1. sent \in Instance /\ sent.age = ls.age + Delay /\ sent.seq = 0
  BY InstanceType, Times DEF Instance
<1>2. Young(sent, F)
  BY <1>1 DEF Young
<1>3. m.lsa = sent /\ m.type = "update"
  BY DEF Update
<1>4. \A e \in Adjacent : Flood(r, ls, except)[e] = IF e[1] = r /\ e[2] # except
                                                    THEN <<m>> ELSE <<>>
  BY DEF Flood
<1> HIDE DEF sent, m
<1>5. DOMAIN <<m>> = {1} /\ <<m>>[1] = m
  OBVIOUS
<1>6. YoungLinks(Flood(r, ls, except), F)
  <2> SUFFICES ASSUME NEW e \in Adjacent, NEW i \in DOMAIN Flood(r, ls, except)[e]
               PROVE  e[1] \in F /\ Young(Flood(r, ls, except)[e][i].lsa, F)
    BY DEF YoungLinks
  <2>1. e[1] = r /\ Flood(r, ls, except)[e] = <<m>>
    BY <1>4
  <2> QED BY <1>2, <1>3, <1>5, <2>1
<1>7. ASSUME NEW e \in Adjacent, e[1] = r, e[2] # except
      PROVE  HasUpdate(Flood(r, ls, except)[e])
  <2>1. Flood(r, ls, except)[e] = <<m>>
    BY <1>4, <1>7
  <2> QED BY <1>3, <1>5, <2>1 DEF HasUpdate
<1>8. ASSUME NEW f PROVE YoungLinks([Flood(r, ls, except) EXCEPT ![f] = <<Ack>>], F)
  <2> DEFINE c == [Flood(r, ls, except) EXCEPT ![f] = <<Ack>>]
  <2>1. \A e \in Adjacent : c[e] = IF e = f THEN <<Ack>> ELSE Flood(r, ls, except)[e]
    BY DEF Flood
  <2>2. \A i \in DOMAIN <<Ack>> : <<Ack>>[i].type # "update"
    BY DEF Ack
  <2> HIDE DEF c
  <2>3. YoungLinks(c, F)
    BY <1>6, <2>1, <2>2 DEF YoungLinks
  <2> QED BY <2>3 DEF c
<1> QED BY <1>6, <1>7, <1>8

LEMMA AckYoung ==
  ASSUME NEW F
  PROVE  YoungLinks(NoPackets, F) /\ \A r, s : YoungLinks(Reply(r, s, Ack), F)
<1>1. YoungLinks(NoPackets, F)
  BY DEF YoungLinks, NoPackets
<1>2. ASSUME NEW r, NEW s PROVE YoungLinks(Reply(r, s, Ack), F)
  <2>1. \A e \in Adjacent : Reply(r, s, Ack)[e] = IF e = <<r, s>> THEN <<Ack>> ELSE <<>>
    BY DEF Reply, NoPackets
  <2>2. \A i \in DOMAIN <<Ack>> : <<Ack>>[i].type # "update"
    BY DEF Ack
  <2> QED BY <2>1, <2>2 DEF YoungLinks
<1> QED BY <1>1, <1>2

LEMMA RestOfQueue ==
  ASSUME NEW q \in Seq(Message), q # <<>>
  PROVE  /\ \A i \in DOMAIN Tail(q) : i + 1 \in DOMAIN q /\ Tail(q)[i] = q[i + 1]
         /\ \A i \in DOMAIN q : q[i] = Head(q) \/ \E j \in DOMAIN Tail(q) : Tail(q)[j] = q[i]
         /\ 1 \in DOMAIN q /\ Head(q) = q[1]
<1>1. Len(q) \in Nat /\ Len(q) >= 1 /\ DOMAIN q = 1..Len(q)
  BY LenProperties, EmptySeq
<1>2. /\ Tail(q) \in Seq(Message) /\ Len(Tail(q)) = Len(q) - 1
      /\ \A i \in 1..(Len(q) - 1) : Tail(q)[i] = q[i + 1]
      /\ Head(q) = q[1]
  BY HeadTailProperties
<1>3. DOMAIN Tail(q) = 1..(Len(q) - 1)
  BY <1>2, LenProperties
<1>4. ASSUME NEW i \in DOMAIN Tail(q) PROVE i + 1 \in DOMAIN q /\ Tail(q)[i] = q[i + 1]
  BY <1>1, <1>2, <1>3
<1>5. ASSUME NEW i \in DOMAIN q, i # 1 PROVE \E j \in DOMAIN Tail(q) : Tail(q)[j] = q[i]
  <2>1. i - 1 \in DOMAIN Tail(q) /\ (i - 1) + 1 = i
    BY <1>1, <1>3, <1>5
  <2>2. Tail(q)[i - 1] = q[i]
    BY <1>2, <1>3, <2>1
  <2> QED BY <2>1, <2>2
<1> QED BY <1>1, <1>2, <1>4, <1>5

LEMMA ReceivedYoung ==
  ASSUME TypeOK, NEW s, NEW r, NEW type, Arrives(s, r, type), NEW F, YoungLinks(chan, F)
  PROVE  /\ YoungLinks(Received(<<s, r>>), F)
         /\ type = "update" => s \in F /\ Young(Head(chan[<<s, r>>]).lsa, F)
         /\ \A e \in Adjacent : /\ e # <<s, r>> => Received(<<s, r>>)[e] = chan[e]
                                /\ type = "ack" /\ HasUpdate(chan[e])
                                   => HasUpdate(Received(<<s, r>>)[e])
<1> DEFINE f == <<s, r>>
           q == chan[<<s, r>>]
<1>1. f \in Adjacent /\ q # <<>> /\ Head(q).type = type /\ f[1] = s
  BY DEF Arrives
<1>2. chan \in Links /\ q \in Seq(Message)
  BY <1>1, TypeSplit DEF Links
<1>3. \A e \in Adjacent : Received(f)[e] = IF e = f THEN Tail(q) ELSE chan[e]
  BY <1>2 DEF Received, Links
<1>4. /\ \A i \in DOMAIN Tail(q) : i + 1 \in DOMAIN q /\ Tail(q)[i] = q[i + 1]
      /\ \A i \in DOMAIN q : q[i] = Head(q) \/ \E j \in DOMAIN Tail(q) : Tail(q)[j] = q[i]
      /\ 1 \in DOMAIN q /\ Head(q) = q[1]
  BY <1>1, <1>2, RestOfQueue
<1>5. \A i \in DOMAIN q : q[i].type = "update" => s \in F /\ Young(q[i].lsa, F)
  BY <1>1 DEF YoungLinks
<1> HIDE DEF f, q
<1>6. YoungLinks(Received(f), F)
  <2> SUFFICES ASSUME NEW e \in Adjacent, NEW i \in DOMAIN Received(f)[e],
                      Received(f)[e][i].type = "update"
               PROVE  e[1] \in F /\ Young(Received(f)[e][i].lsa, F)
    BY DEF YoungLinks
  <2>1. CASE e = f
    <3>1. Received(f)[e] = Tail(q) /\ e[1] = s
      BY <1>1, <1>3, <2>1
    <3>2. i + 1 \in DOMAIN q /\ Received(f)[e][i] = q[i + 1]
      BY <1>4, <3>1
    <3> QED BY <1>5, <3>1, <3>2
  <2>2. CASE e # f
    BY <1>3, <2>2 DEF YoungLinks
  <2> QED BY <2>1, <2>2
<1>7. ASSUME type = "update" PROVE s \in F /\ Young(Head(q).lsa, F)
  BY <1>1, <1>4, <1>5, <1>7
<1>8. ASSUME NEW e \in Adjacent, type = "ack", HasUpdate(chan[e])
      PROVE  HasUpdate(Received(f)[e])
  <2>1. CASE e = f
    <3>1. PICK i \in DOMAIN q : q[i].type = "update"
      BY <1>8, <2>1 DEF HasUpdate, f, q
    <3>2. q[i] # Head(q)
      BY <1>1, <1>8, <3>1
    <3>3. PICK j \in DOMAIN Tail(q) : Tail(q)[j] = q[i]
      BY <1>4, <3>2
    <3> QED BY <1>3, <2>1, <3>1, <3>3 DEF HasUpdate
  <2>2. CASE e # f
    BY <1>3, <1>8, <2>2
  <2> QED BY <2>1, <2>2
<1>9. \A e \in Adjacent : e # f => Received(f)[e] = chan[e]
  BY <1>3
<1> QED BY <1>6, <1>7, <1>8, <1>9 DEF f, q

LEMMA RepeatedYoung ==
  ASSUME TypeOK, NEW F, YoungStore(upd, F), NEW e
  PROVE  YoungStore(Repeated(e), F)
<1>1. IsStore(upd)
  BY TypeSplit
<1>2. \A f \in Adjacent : Repeated(e)[f] = upd[f] \/ Repeated(e)[f] = NoUpdates
  BY <1>1 DEF Repeated, IsStore
<1>3. DOMAIN NoUpdates = {}
  BY DEF NoUpdates
<1> QED BY <1>2, <1>3 DEF YoungStore

-----------------------------------------------------------------------------
(* The refresh starts.                                                     *)

LEMMA RefreshStep ==
  ASSUME TypeOK, TimesApart, AllUnchanged, Calm \/ Refreshing, NEW r \in Router, RefreshLSA(r)
  PROVE  AllUnchanged' /\ Refreshing'
<1> DEFINE o == Originator
           ls == Refreshed(o)
           sent == Flood(o, ls, o)
<1>1. /\ r = o /\ o \in Router /\ db[o].age = RefreshTime /\ o \in due
      /\ due' = due \ {o} /\ db' = [db EXCEPT ![o] = ls]
      /\ UNCHANGED <<timer, changes>>
      /\ Transmit(chan, retrans, upd, sent, o)
  BY Times DEF RefreshLSA, RefreshDue, Expires
<1>2. Calm
  BY <1>1 DEF Refreshing
<1>3. /\ Quiet /\ \A e \in Adjacent : DOMAIN upd[e] = {}
      /\ AreClose(Router, RefreshTime)
  <2>1. AgeBefore(o) = RefreshTime
    BY <1>1, Apart DEF AgeBefore
  <2> QED BY <1>2, <2>1 DEF Calm
<1>4. ls \in Instance /\ ls.seq = 0 /\ ls.age = 0 /\ ls # NoLSA
  <2>1. db[o] \in Instance
    BY <1>1, CopyType
  <2>2. ls \in Instance /\ ls.seq = 0 /\ ls.age = 0
    BY <2>1, RefreshedType
  <2> QED BY <2>2, InstanceType
<1>5. db'[o] = ls /\ \A q \in Router : q # o => db'[q] = db[q]
  <2>1. db \in [Router -> Instance \cup {NoLSA}]
    BY TypeSplit
  <2> QED BY <1>1, <2>1
<1>6. AllUnchanged'
  <2>1. \A q \in Router : Holds(q)' /\ db'[q].seq = 0
    BY <1>4, <1>5 DEF AllUnchanged, Holds
  <2> QED BY <1>1, <2>1 DEF AllUnchanged
<1>7. Fresh' = {o}
  <2>1. ASSUME NEW q \in Router, q # o PROVE ~(db'[q].age <= Spread(Router))
    <3>1. RefreshTime <= db[q].age
      BY <1>3, CloseAreYoung, Apart
    <3> QED BY <1>5, <2>1, <3>1, CopyType, Apart
  <2>2. db'[o].age <= Spread(Router)
    BY <1>4, <1>5, Apart
  <2> QED BY <1>1, <2>1, <2>2 DEF Fresh
<1>8. AreClose(Router \ {o}, RefreshTime)'
  <2>1. \A q \in Router \ {o} : AgeBefore(q)' = AgeBefore(q)
    BY <1>1, <1>5 DEF AgeBefore
  <2> QED BY <1>3, <2>1 DEF AreClose
<1>9. Spread({o}) \in Nat /\ Delay <= Spread({o})
  BY <1>1, SpreadType
<1>10. \A q \in {o} : Young(db'[q], {o})
  BY <1>4, <1>5, <1>9 DEF Young
<1> HIDE DEF ls
<1>11. /\ sent \in Sending /\ YoungLinks(sent, {o})
       /\ \A e \in Adjacent : e[1] = o /\ e[2] # o => HasUpdate(sent[e])
  <2>1. sent \in Sending
    BY <1>4, FloodType
  <2>2. ls.age + Delay <= Spread({o})
    BY <1>4, <1>9, Apart
  <2> QED BY <1>4, <2>1, <2>2, FloodYoung
<1> HIDE DEF sent
<1>12. YoungLinks(chan, {o}) /\ YoungStore(upd, {o})
  <2>1. \A e \in Adjacent : DOMAIN chan[e] = {}
    BY <1>3 DEF Quiet
  <2> QED BY <1>3, <2>1 DEF YoungLinks, YoungStore
<1>13. chan \in Links
  BY TypeSplit
<1>14. /\ YoungLinks(chan', {o}) /\ YoungStore(upd', {o})
       /\ \A e \in Adjacent : HasUpdate(chan[e]) \/ HasUpdate(sent[e]) => HasUpdate(chan'[e])
  BY <1>1, <1>11, <1>12, <1>13, TransmitYoung
<1>15. OnTheWay(chan', {o})
  BY <1>11, <1>14 DEF OnTheWay
<1>16. db'[o].age = 0 /\ {o} \cap due' = {} /\ o \notin due'
  BY <1>1, <1>4, <1>5
<1> HIDE DEF o
<1>17. Refreshing'
  BY <1>7, <1>8, <1>10, <1>14, <1>15, <1>16 DEF Refreshing, o
<1> QED BY <1>6, <1>17

-----------------------------------------------------------------------------
(* The refreshed instance passes on.                                       *)

(* Sequence numbers are equal: the age alone tells the refreshed instance. *)
LEMMA LookupRefreshed ==
  ASSUME TypeOK, TimesApart, AllUnchanged, Refreshing, NEW r \in Router,
         NEW ls \in Instance, Young(ls, Fresh)
  PROVE  Lookup(r, ls) = IF r \in Fresh THEN "EQUALS" ELSE "NEWER"
<1>1. db[r].age \in Nat /\ db[r].seq = 0 /\ Holds(r)
  BY CopyType
<1>2. ls.seq = 0 /\ ls.age \in Nat /\ ls.age <= Spread(Router)
  <2>1. Fresh \in SUBSET Router
    BY DEF Fresh
  <2> QED BY <2>1, YoungType
<1>3. db[r].age # MaxAge /\ ls.age # MaxAge
  <2>1. db[r].age # MaxAge
    BY <1>1, AgesLimited DEF AtMaxAge
  <2> QED BY <1>2, <2>1, Apart
<1>4. Lookup(r, ls) = IF db[r].age - ls.age > MaxAgeDiff THEN "NEWER" ELSE "EQUALS"
  BY <1>1, <1>2, <1>3 DEF Lookup
<1>5. CASE r \in Fresh
  <2>1. db[r].age <= Spread(Router)
    BY <1>5 DEF Fresh
  <2>2. ~(db[r].age - ls.age > MaxAgeDiff)
    BY <1>1, <1>2, <2>1, Apart
  <2> QED BY <1>4, <1>5, <2>2
<1>6. CASE r \notin Fresh
  <2>1. RefreshTime <= db[r].age
    <3>1. AreClose(Router \ Fresh, RefreshTime) /\ r \in Router \ Fresh
      BY <1>6 DEF Refreshing
    <3>2. RefreshTime \in Nat /\ RefreshTime <= RefreshTime
      BY Apart
    <3> QED BY <3>1, <3>2, CloseAreYoung
  <2>2. db[r].age - ls.age > MaxAgeDiff
    BY <1>1, <1>2, <2>1, Apart
  <2> QED BY <1>4, <1>6, <2>2
<1> QED BY <1>5, <1>6

LEMMA YoungGrows ==
  ASSUME NEW F \in SUBSET Router, NEW r \in Router \ F
  PROVE  /\ F \cup {r} \in SUBSET Router
         /\ \A ls \in Instance : Young(ls, F) => Young(ls, F \cup {r})
         /\ \A ls \in Instance : Young(ls, F) =>
              Young([ls EXCEPT !.age = @ + Delay], F \cup {r})
<1>1. /\ Spread(F) \in Nat /\ Delay \in Nat /\ Spread(F \cup {r}) = Spread(F) + Delay
  BY SpreadType, Times
<1>2. ASSUME NEW ls \in Instance, Young(ls, F)
      PROVE  /\ Young(ls, F \cup {r})
             /\ Young([ls EXCEPT !.age = @ + Delay], F \cup {r})
  <2>1. ls.seq = 0 /\ ls.age \in Nat /\ ls.age <= Spread(F)
    BY <1>2, InstanceType DEF Young
  <2>2. [ls EXCEPT !.age = @ + Delay].age = ls.age + Delay
        /\ [ls EXCEPT !.age = @ + Delay].seq = ls.seq
    BY <1>1, InstanceType DEF Instance
  <2> QED BY <1>1, <2>1, <2>2 DEF Young
<1> QED BY <1>2

LEMMA YoungAged ==
  ASSUME TypeOK, NEW s, NEW r, Arrives(s, r, "update"), NEW F \in SUBSET Router, r \notin F,
         YoungLinks(chan, F), YoungStore(upd, F),
         NEW ls, ls = Head(chan[<<s, r>>]).lsa
  PROVE  /\ Young(Aged(s, r, ls), F \cup {r})
         /\ YoungLinks(AgedOnLink(s, r, ls), F \cup {r})
         /\ YoungStore(AgedInStore(s, r, ls), F \cup {r})
         /\ \A e \in Adjacent : e # <<s, r>> => AgedOnLink(s, r, ls)[e] = chan[e]
<1> DEFINE f == <<s, r>>
           G == F \cup {r}
<1>1. /\ ls \in Instance /\ f \in Adjacent /\ r \in Router \ F /\ f[1] = s
      /\ Received(f) \in Links
  BY ArrivalType
<1>2. /\ YoungLinks(Received(f), F) /\ s \in F /\ Young(ls, F)
      /\ \A e \in Adjacent : e # f => Received(f)[e] = chan[e]
  BY ReceivedYoung
<1>3. /\ \A x \in Instance : Young(x, F) => Young(x, G)
      /\ Young([ls EXCEPT !.age = @ + Delay], G)
  BY <1>1, <1>2, YoungGrows
<1>4. Young(Aged(s, r, ls), G)
  BY <1>1, <1>2, <1>3 DEF Aged
<1>5. AgedOnLink(s, r, ls)
        = [Received(f) EXCEPT ![f] =
            [i \in DOMAIN Received(f)[f] |->
               IF Received(f)[f][i] = Update(ls) THEN Update(Aged(s, r, ls))
               ELSE Received(f)[f][i]]]
  BY <1>1 DEF AgedOnLink, Links
<1>6. \A e \in Adjacent :
        AgedOnLink(s, r, ls)[e] =
          IF e = f THEN [i \in DOMAIN Received(f)[f] |->
                           IF Received(f)[f][i] = Update(ls) THEN Update(Aged(s, r, ls))
                           ELSE Received(f)[f][i]]
          ELSE Received(f)[e]
  BY <1>1, <1>5 DEF Links
<1> HIDE DEF f, G
<1>7. ASSUME NEW e \in Adjacent, NEW i \in DOMAIN Received(f)[e],
             Received(f)[e][i].type = "update"
      PROVE  e[1] \in G /\ Young(Received(f)[e][i].lsa, G)
  <2>1. e[1] \in F /\ Young(Received(f)[e][i].lsa, F)
    BY <1>2, <1>7 DEF YoungLinks
  <2>2. Received(f)[e] \in Seq(Message)
    BY <1>1 DEF Links
  <2>3. Received(f)[e][i] \in Message
    BY <2>2, ElementOfSeq, LenProperties
  <2>4. Received(f)[e][i].lsa \in Instance
    BY <1>7, <2>3, MessageType
  <2> QED BY <1>3, <2>1, <2>4 DEF G
<1>8. YoungLinks(AgedOnLink(s, r, ls), G)
  <2> SUFFICES ASSUME NEW e \in Adjacent, NEW i \in DOMAIN AgedOnLink(s, r, ls)[e],
                      AgedOnLink(s, r, ls)[e][i].type = "update"
               PROVE  e[1] \in G /\ Young(AgedOnLink(s, r, ls)[e][i].lsa, G)
    BY DEF YoungLinks
  <2>1. CASE e # f
    <3>1. AgedOnLink(s, r, ls)[e] = Received(f)[e]
      BY <1>6, <2>1
    <3> QED BY <1>7, <3>1
  <2>2. CASE e = f
    <3>1. /\ i \in DOMAIN Received(f)[e]
          /\ AgedOnLink(s, r, ls)[e][i] = IF Received(f)[e][i] = Update(ls)
                                          THEN Update(Aged(s, r, ls)) ELSE Received(f)[e][i]
      BY <1>6, <2>2
    <3>2. CASE Received(f)[e][i] = Update(ls)
      <4>1. AgedOnLink(s, r, ls)[e][i].lsa = Aged(s, r, ls)
        BY <3>1, <3>2 DEF Update
      <4>2. e[1] \in G
        BY <1>1, <1>2, <2>2 DEF G
      <4> QED BY <1>4, <4>1, <4>2
    <3>3. CASE Received(f)[e][i] # Update(ls)
      BY <1>7, <3>1, <3>3
    <3> QED BY <3>2, <3>3
  <2> QED BY <2>1, <2>2
<1>9. YoungStore(AgedInStore(s, r, ls), G)
  <2> SUFFICES ASSUME NEW e \in Adjacent, NEW o \in DOMAIN AgedInStore(s, r, ls)[e]
               PROVE  e[1] \in G /\ Young(AgedInStore(s, r, ls)[e][o], G)
    BY DEF YoungStore
  <2>1. o \in DOMAIN upd[e]
    BY AgedType
  <2>2. upd[e][o] \in Instance /\ IsStore(upd)
    BY <2>1, TypeSplit DEF IsStore
  <2>3. e[1] \in G /\ Young(upd[e][o], G)
    <3>1. e[1] \in F /\ Young(upd[e][o], F)
      BY <2>1 DEF YoungStore
    <3> QED BY <1>3, <2>2, <3>1 DEF G
  <2>4. AgedInStore(s, r, ls)[e][o] = upd[e][o] \/ AgedInStore(s, r, ls)[e][o] = Aged(s, r, ls)
    <3>1. AgedInStore(s, r, ls)[e] =
            IF e = <<s, r>>
            THEN [a \in DOMAIN upd[e] |-> IF upd[e][a] = ls THEN Aged(s, r, ls) ELSE upd[e][a]]
            ELSE upd[e]
      BY <2>2 DEF AgedInStore, IsStore
    <3> QED BY <2>1, <3>1
  <2> QED BY <1>4, <2>3, <2>4
<1>10. \A e \in Adjacent : e # f => AgedOnLink(s, r, ls)[e] = chan[e]
  BY <1>2, <1>6
<1> QED BY <1>4, <1>8, <1>9, <1>10 DEF f, G

(* One more router has it, and it is on its way to the neighbours of that. *)
LEMMA InstallRefreshed ==
  ASSUME TypeOK, TimesApart, AllUnchanged, Refreshing, NEW s, NEW r, InstallLSA(s, r)
  PROVE  AllUnchanged' /\ Refreshing'
<1> DEFINE o == Originator
           ls == Head(chan[<<s, r>>]).lsa
           new == Aged(s, r, ls)
           G == Fresh \cup {r}
           sent == [Flood(r, ls, s) EXCEPT ![<<r, s>>] = <<Ack>>]
<1>1. /\ Arrives(s, r, "update") /\ Lookup(r, ls) \in {"NO_EXIST", "NEWER"}
      /\ db' = [db EXCEPT ![r] = new]
      /\ Transmit(AgedOnLink(s, r, ls), retrans, AgedInStore(s, r, ls), sent, o)
      /\ timer' = timer \cup {r} /\ due' = due \ {r} /\ changes' = changes
  BY DEF InstallLSA, CreateLSA
<1>2. s \in Router /\ r \in Router /\ s # r /\ ls \in Instance
  BY <1>1, ArrivalType
<1>3. /\ db[o].age = 0 /\ Fresh \cap due = {} /\ o \notin due
      /\ \A q \in Fresh : Young(db[q], Fresh)
      /\ AreClose(Router \ Fresh, RefreshTime)
      /\ YoungLinks(chan, Fresh) /\ YoungStore(upd, Fresh) /\ OnTheWay(chan, Fresh)
  BY DEF Refreshing
<1>4. Fresh \in SUBSET Router /\ o \in Router /\ o \in Fresh
  BY <1>3, Times, Apart DEF Fresh
<1>5. s \in Fresh /\ Young(ls, Fresh)
  BY <1>1, <1>3, ReceivedYoung
<1>6. r \notin Fresh /\ r # o
  <2>1. Lookup(r, ls) = IF r \in Fresh THEN "EQUALS" ELSE "NEWER"
    BY <1>2, <1>5, LookupRefreshed
  <2>2. r \notin Fresh
    BY <1>1, <2>1
  <2> QED BY <1>4, <2>2
<1>7. /\ Young(new, G) /\ YoungLinks(AgedOnLink(s, r, ls), G)
      /\ YoungStore(AgedInStore(s, r, ls), G)
      /\ \A e \in Adjacent : e # <<s, r>> => AgedOnLink(s, r, ls)[e] = chan[e]
  BY <1>1, <1>3, <1>4, <1>6, YoungAged
<1>8. new \in Instance /\ AgedOnLink(s, r, ls) \in Links
  BY <1>1, AgedType
<1>9. /\ G \in SUBSET Router /\ Spread(G) = Spread(Fresh) + Delay
      /\ Spread(Fresh) \in Nat /\ Spread(G) \in Nat /\ Spread(G) <= Spread(Router)
  BY <1>2, <1>4, <1>6, SpreadType
<1>10. db'[r] = new /\ \A q \in Router : q # r => db'[q] = db[q]
  BY <1>1, <1>2, TypeSplit
<1>11. new.seq = 0 /\ new.age <= Spread(G) /\ new.age \in Nat /\ new # NoLSA
  BY <1>7, <1>8, InstanceType DEF Young
<1>12. timer = Router /\ timer' = Router
  BY <1>1, <1>2 DEF AllUnchanged
<1>13. \A e \in Adjacent : e[1] = r /\ e[2] # s => HasUpdate(Flood(r, ls, s)[e])
  <2>1. ls.seq = 0 /\ ls.age <= Spread(Fresh) /\ ls.age \in Nat
    BY <1>2, <1>5, InstanceType DEF Young
  <2>2. ls.age + Delay <= Spread(G) /\ r \in G
    BY <1>9, <2>1, Apart
  <2> HIDE DEF ls, G
  <2> QED BY <1>2, <2>1, <2>2, FloodYoung
<1>14. sent \in Sending /\ YoungLinks(sent, G)
  <2>1. ls.seq = 0 /\ ls.age <= Spread(Fresh) /\ ls.age \in Nat
    BY <1>2, <1>5, InstanceType DEF Young
  <2>2. ls.age + Delay <= Spread(G) /\ r \in G
    BY <1>9, <2>1, Apart
  <2> HIDE DEF ls, G
  <2>3. sent \in Sending
    BY <1>2, FloodType
  <2>4. YoungLinks(sent, G)
    BY <1>2, <2>1, <2>2, FloodYoung
  <2> QED BY <2>3, <2>4
<1>15. \A e \in Adjacent : e # <<r, s>> => sent[e] = Flood(r, ls, s)[e]
  BY DEF Flood
<1> HIDE DEF ls, new, G, sent, o
<1>16. AllUnchanged'
  <2>1. \A q \in Router : Holds(q)' /\ db'[q].seq = 0
    BY <1>10, <1>11 DEF AllUnchanged, Holds
  <2> QED BY <1>12, <2>1 DEF AllUnchanged
<1>17. Fresh' = G
  <2>1. db'[r].age <= Spread(Router)
    BY <1>9, <1>10, <1>11, Apart
  <2>2. \A q \in Router : q # r => (db'[q].age <= Spread(Router) <=> q \in Fresh)
    BY <1>10 DEF Fresh
  <2>3. Fresh' = {q \in Router : db'[q].age <= Spread(Router)}
    BY DEF Fresh
  <2> QED BY <1>2, <1>4, <2>1, <2>2, <2>3 DEF G
<1>18. \A q \in G : Young(db'[q], G)
  <2>1. Young(db'[r], G)
    BY <1>7, <1>10
  <2>2. ASSUME NEW q \in Fresh PROVE Young(db'[q], G)
    <3>1. q # r /\ q \in Router /\ db'[q] = db[q]
      BY <1>4, <1>6, <1>10
    <3>2. db[q] \in Instance /\ Young(db[q], Fresh)
      BY <1>3, <3>1, CopyType
    <3> QED BY <1>2, <1>4, <1>6, <3>1, <3>2, YoungGrows DEF G
  <2> QED BY <2>1, <2>2 DEF G
<1>19. AreClose(Router \ Fresh, RefreshTime)'
  <2>1. \A q \in Router \ G : AgeBefore(q)' = AgeBefore(q)
    BY <1>1, <1>10 DEF AgeBefore, G
  <2>2. \A q \in Router \ G : /\ RefreshTime <= AgeBefore(q)'
                            /\ AgeBefore(q)' <= RefreshTime + Spread(Router)
    BY <1>3, <2>1 DEF AreClose, G
  <2> QED BY <1>17, <2>2 DEF AreClose
<1>20. retrans \in Copies /\ chan \in Links
  BY TypeSplit
<1>21. /\ YoungLinks(chan', G) /\ YoungStore(upd', G)
       /\ \A e \in Adjacent :
            HasUpdate(AgedOnLink(s, r, ls)[e]) \/ HasUpdate(sent[e]) => HasUpdate(chan'[e])
  BY <1>1, <1>7, <1>8, <1>14, TransmitYoung
<1>22. OnTheWay(chan', G)
  <2> SUFFICES ASSUME NEW e \in Adjacent, e[1] \in G, e[2] \notin G PROVE HasUpdate(chan'[e])
    BY DEF OnTheWay
  <2>1. CASE e[1] = r
    <3>1. e[2] # s
      BY <1>5 DEF G
    <3>2. e # <<r, s>> /\ HasUpdate(Flood(r, ls, s)[e])
      BY <1>13, <2>1, <3>1
    <3>3. HasUpdate(sent[e])
      BY <1>15, <3>2
    <3> QED BY <1>21, <3>3
  <2>2. CASE e[1] # r
    <3>1. e[1] \in Fresh /\ e[2] \notin Fresh /\ e[2] # r
      BY <2>2 DEF G
    <3>2. HasUpdate(chan[e])
      BY <1>3, <3>1 DEF OnTheWay
    <3>3. e # <<s, r>>
      BY <3>1
    <3>4. HasUpdate(AgedOnLink(s, r, ls)[e])
      BY <1>7, <3>2, <3>3
    <3> QED BY <1>21, <3>4
  <2> QED BY <2>1, <2>2
<1>23. db'[o].age = 0 /\ G \cap due' = {} /\ o \notin due'
  <2>1. db'[o] = db[o]
    BY <1>4, <1>6, <1>10
  <2> QED BY <1>1, <1>3, <2>1 DEF G
<1>24. Refreshing'
  BY <1>17, <1>18, <1>19, <1>21, <1>22, <1>23 DEF Refreshing, o
<1> QED BY <1>16, <1>24

(* Those who have it take it for the same, and no instance is older.       *)
LEMMA OtherRefreshed ==
  ASSUME TypeOK, TimesApart, AllUnchanged, Refreshing, NEW s, NEW r,
         EqualLSA(s, r) \/ OlderLSA(s, r) \/ ReceiveAck(s, r)
  PROVE  AllUnchanged' /\ Refreshing'
<1> DEFINE ls == Head(chan[<<s, r>>]).lsa
<1>1. /\ db[Originator].age = 0 /\ Fresh \cap due = {} /\ Originator \notin due
      /\ \A q \in Fresh : Young(db[q], Fresh)
      /\ AreClose(Router \ Fresh, RefreshTime)
      /\ YoungLinks(chan, Fresh) /\ YoungStore(upd, Fresh) /\ OnTheWay(chan, Fresh)
  BY DEF Refreshing
<1>2. UNCHANGED <<db, timer, due>>
  BY DEF EqualLSA, OlderLSA, ReceiveAck
<1>3. PICK type : Arrives(s, r, type) /\ type = IF ReceiveAck(s, r) THEN "ack" ELSE "update"
  BY DEF EqualLSA, OlderLSA, ReceiveAck
<1>4. s \in Router /\ r \in Router /\ Received(<<s, r>>) \in Links
  BY <1>3, ArrivalType
<1>5. /\ YoungLinks(Received(<<s, r>>), Fresh)
      /\ \A e \in Adjacent : /\ e # <<s, r>> => Received(<<s, r>>)[e] = chan[e]
                             /\ type = "ack" /\ HasUpdate(chan[e])
                                => HasUpdate(Received(<<s, r>>)[e])
  BY <1>1, <1>3, ReceivedYoung
<1>6. /\ YoungStore(Repeated(<<r, s>>), Fresh)
      /\ YoungLinks(NoPackets, Fresh) /\ YoungLinks(Reply(r, s, Ack), Fresh)
      /\ NoPackets \in Sending /\ Reply(r, s, Ack) \in Sending
  BY <1>1, RepeatedYoung, AckYoung, ReplyType, MessageType
<1>7. ASSUME ~ReceiveAck(s, r)
      PROVE  Lookup(r, ls) = IF r \in Fresh THEN "EQUALS" ELSE "NEWER"
  <2>1. Arrives(s, r, "update")
    BY <1>3, <1>7
  <2>2. ls \in Instance
    BY <2>1, ArrivalType
  <2>3. Young(ls, Fresh)
    BY <1>1, <2>1, ReceivedYoung
  <2> QED BY <1>4, <2>2, <2>3, LookupRefreshed
<1>8. PICK sent \in Sending :
        /\ YoungLinks(sent, Fresh)
        /\ \E origin : Transmit(Received(<<s, r>>), OneLess(<<r, s>>),
                                Repeated(<<r, s>>), sent, origin)
  <2>1. CASE ReceiveAck(s, r)
    <3>1. Transmit(Received(<<s, r>>), OneLess(<<r, s>>), Repeated(<<r, s>>), NoPackets, r)
      BY <2>1 DEF ReceiveAck
    <3> QED BY <1>6, <3>1
  <2>2. CASE ~ReceiveAck(s, r)
    <3>1. EqualLSA(s, r)
      BY <1>7, <2>2 DEF OlderLSA
    <3>2. Transmit(Received(<<s, r>>), OneLess(<<r, s>>), Repeated(<<r, s>>),
                   Reply(r, s, Ack), Originator)
      BY <3>1 DEF EqualLSA
    <3> QED BY <1>6, <3>2
  <2> QED BY <2>1, <2>2
<1>9. /\ YoungLinks(chan', Fresh) /\ YoungStore(upd', Fresh)
      /\ \A e \in Adjacent : HasUpdate(Received(<<s, r>>)[e]) => HasUpdate(chan'[e])
  <2>1. PICK origin : Transmit(Received(<<s, r>>), OneLess(<<r, s>>),
                               Repeated(<<r, s>>), sent, origin)
    BY <1>8
  <2> QED BY <1>4, <1>5, <1>6, <1>8, <2>1, TransmitYoung
<1>10. OnTheWay(chan', Fresh)
  <2> SUFFICES ASSUME NEW e \in Adjacent, e[1] \in Fresh, e[2] \notin Fresh
               PROVE  HasUpdate(chan'[e])
    BY DEF OnTheWay
  <2>1. HasUpdate(chan[e])
    BY <1>1 DEF OnTheWay
  <2>2. CASE ReceiveAck(s, r)
    BY <1>3, <1>5, <1>9, <2>1, <2>2
  <2>3. CASE ~ReceiveAck(s, r)
    <3>1. r \in Fresh
      BY <1>7, <2>3 DEF EqualLSA, OlderLSA
    <3>2. e # <<s, r>>
      BY <3>1
    <3> QED BY <1>5, <1>9, <2>1, <3>2
  <2> QED BY <2>2, <2>3
<1>11. AllUnchanged'
  BY <1>2 DEF AllUnchanged, Holds
<1>12. /\ Fresh' = Fresh /\ (AreClose(Router \ Fresh, RefreshTime))'
  <2>1. Fresh' = Fresh /\ \A q : AgeBefore(q)' = AgeBefore(q)
    BY <1>2, SameCopies
  <2> QED BY <1>1, <2>1 DEF AreClose
<1>13. db'[Originator].age = 0 /\ Fresh \cap due' = {} /\ Originator \notin due'
       /\ \A q \in Fresh : Young(db'[q], Fresh)
  BY <1>1, <1>2
<1> HIDE DEF ls
<1>14. Refreshing'
  BY <1>9, <1>10, <1>12, <1>13 DEF Refreshing
<1> QED BY <1>11, <1>14

LEMMA ResendRefreshed ==
  ASSUME TypeOK, AllUnchanged, Calm \/ Refreshing, NEW e \in Adjacent, ResendUpdates(e)
  PROVE  AllUnchanged' /\ Refreshing'
<1>1. /\ DOMAIN upd[e] # {} /\ UNCHANGED <<db, timer, due, upd>>
      /\ chan' = [chan EXCEPT ![e] = @ \o UpdatesDue(e)]
  BY DEF ResendUpdates
<1>2. /\ db[Originator].age = 0 /\ Fresh \cap due = {} /\ Originator \notin due
      /\ \A q \in Fresh : Young(db[q], Fresh)
      /\ AreClose(Router \ Fresh, RefreshTime)
      /\ YoungLinks(chan, Fresh) /\ YoungStore(upd, Fresh) /\ OnTheWay(chan, Fresh)
  BY <1>1 DEF Refreshing, Calm
<1> DEFINE n == Cardinality(DOMAIN upd[e])
           more == UpdatesDue(e)
<1>3. n \in Nat /\ \A i \in 1..n : OriginAt(e, i) \in DOMAIN upd[e]
  BY RankIsNumbering
<1>4. DOMAIN more = 1..n /\ \A i \in 1..n : more[i] = Update(upd[e][OriginAt(e, i)])
  BY DEF UpdatesDue
<1>5. IsStore(upd) /\ chan \in Links
  BY TypeSplit
<1>6. ASSUME NEW i \in DOMAIN more
      PROVE  more[i] \in Message /\ e[1] \in Fresh /\ Young(more[i].lsa, Fresh)
  <2> HIDE DEF n, more
  <2>1. OriginAt(e, i) \in DOMAIN upd[e] /\ more[i] = Update(upd[e][OriginAt(e, i)])
    BY <1>3, <1>4, <1>6
  <2>2. upd[e][OriginAt(e, i)] \in Instance
    BY <1>5, <2>1 DEF IsStore
  <2>3. more[i] \in Message /\ more[i].lsa = upd[e][OriginAt(e, i)]
    BY <2>1, <2>2, MessageType
  <2> QED BY <1>2, <2>1, <2>3 DEF YoungStore
<1> HIDE DEF n, more
<1>7. more \in Seq(Message)
  <2>1. more \in [1..n -> Message]
    BY <1>4, <1>6 DEF UpdatesDue, more
  <2> QED BY <1>3, <2>1, SeqDef
<1>8. chan[e] \in Seq(Message)
  BY <1>5 DEF Links
<1>9. Merges(chan'[e], chan[e], more) /\ \A f \in Adjacent : f # e => chan'[f] = chan[f]
  <2>1. chan'[e] = chan[e] \o more /\ \A f \in Adjacent : f # e => chan'[f] = chan[f]
    BY <1>1, <1>5 DEF Links, more
  <2> QED BY <1>7, <1>8, <2>1, Appended
<1>10. YoungLinks(chan', Fresh)
  <2> SUFFICES ASSUME NEW f \in Adjacent, NEW i \in DOMAIN chan'[f],
                      chan'[f][i].type = "update"
               PROVE  f[1] \in Fresh /\ Young(chan'[f][i].lsa, Fresh)
    BY DEF YoungLinks
  <2>1. CASE f # e
    BY <1>2, <1>9, <2>1 DEF YoungLinks
  <2>2. CASE f = e
    BY <1>2, <1>6, <1>9, <2>2 DEF YoungLinks, Merges
  <2> QED BY <2>1, <2>2
<1>11. \A f \in Adjacent : HasUpdate(chan[f]) => HasUpdate(chan'[f])
  BY <1>9 DEF HasUpdate, Merges
<1>12. OnTheWay(chan', Fresh)
  BY <1>2, <1>11 DEF OnTheWay
<1>13. AllUnchanged'
  BY <1>1 DEF AllUnchanged, Holds
<1>14. Fresh' = Fresh /\ (AreClose(Router \ Fresh, RefreshTime))'
  <2>1. Fresh' = Fresh /\ \A q : AgeBefore(q)' = AgeBefore(q)
    BY <1>1, SameCopies
  <2> QED BY <1>2, <2>1 DEF AreClose
<1>15. /\ db'[Originator].age = 0 /\ Fresh \cap due' = {} /\ Originator \notin due'
       /\ \A q \in Fresh : Young(db'[q], Fresh)
       /\ YoungStore(upd', Fresh)
  BY <1>1, <1>2
<1>16. Refreshing'
  BY <1>10, <1>12, <1>14, <1>15 DEF Refreshing
<1> QED BY <1>13, <1>16

-----------------------------------------------------------------------------
(* The next round.                                                         *)

(* When the links are quiet everyone has been reached.                     *)
LEMMA AllReached ==
  ASSUME Connected, Refreshing, Quiet, TimesApart
  PROVE  Fresh = Router
<1>1. Originator \in Fresh /\ Fresh \in SUBSET Router
  BY Times, Apart DEF Refreshing, Fresh
<1>2. ASSUME NEW e \in Adjacent, e[1] \in Fresh, e[2] \notin Fresh PROVE FALSE
  <2>1. HasUpdate(chan[e])
    BY <1>2 DEF Refreshing, OnTheWay
  <2>2. chan[e] = <<>>
    BY DEF Quiet
  <2> QED BY <2>1, <2>2 DEF HasUpdate
<1> QED BY <1>1, <1>2 DEF Connected

LEMMA RoundStep ==
  ASSUME TypeOK, KeptAreUnacked, Connected, TimesApart, AllUnchanged, Calm \/ Refreshing,
         NextRound
  PROVE  AllUnchanged' /\ Calm'
<1> DEFINE o == Originator
<1>1. /\ due = {} /\ due' = timer /\ Quiet /\ Acked
      /\ UNCHANGED <<db, timer, retrans, upd, chan, changes>>
  BY DEF NextRound
<1>2. timer = Router /\ o \in Router
  BY Times DEF AllUnchanged
<1>3. AllUnchanged'
  BY <1>1 DEF AllUnchanged, Holds
<1>4. Quiet' /\ \A e \in Adjacent : DOMAIN upd'[e] = {}
  <2>1. \A e \in Adjacent : retrans[e] = 0
    BY <1>1 DEF Acked
  <2>2. \A e \in Adjacent : DOMAIN upd[e] = {}
    BY <2>1 DEF KeptAreUnacked
  <2> QED BY <1>1, <2>2 DEF Quiet
<1>5. \A q \in Router : /\ db[q].age \in Nat /\ AgeBefore(q)' = db[q].age
                        /\ AgeBefore(q) = db[q].age - Second
  <2> SUFFICES ASSUME NEW q \in Router
               PROVE  /\ db[q].age \in Nat /\ AgeBefore(q)' = db[q].age
                      /\ AgeBefore(q) = db[q].age - Second
    OBVIOUS
  <2>1. db[q].age \in Nat
    BY CopyType
  <2>2. q \notin due /\ q \in due' /\ db' = db
    BY <1>1, <1>2
  <2> QED BY <2>1, <2>2, Apart DEF AgeBefore
<1>6. ASSUME NEW t \in Nat, InSeconds(t), t <= RefreshTime, db[o].age = t,
             \A q \in Router : t <= db[q].age /\ db[q].age <= t + Spread(Router)
      PROVE  Calm'
  <2>1. AgeBefore(o)' = t
    BY <1>2, <1>5, <1>6
  <2>2. \A q \in Router : /\ AgeBefore(Originator)' <= AgeBefore(q)'
                          /\ AgeBefore(q)' <= AgeBefore(Originator)' + Spread(Router)
    BY <1>5, <1>6, <2>1
  <2>3. Originator \in due'
    BY <1>1, <1>2
  <2> QED BY <1>4, <1>6, <2>1, <2>2, <2>3 DEF Calm, AreClose
<1>7. CASE Calm
  <2> DEFINE t == AgeBefore(o)
  <2>1. /\ t \in Nat /\ InSeconds(t) /\ t <= RefreshTime /\ AreClose(Router, t)
        /\ t # RefreshTime
    BY <1>1, <1>7 DEF Calm
  <2> HIDE DEF t
  <2>2. InSeconds(t + Second) /\ t + Second <= RefreshTime /\ t + Second \in Nat
    <3>1. InSeconds(RefreshTime) /\ RefreshTime \in Nat /\ t < RefreshTime
      BY <2>1, Apart DEF TimesApart
    <3> QED BY <2>1, <3>1, SecondsAdd, Apart
  <2>3. db[o].age = t + Second
    BY <1>2, <1>5, Apart DEF t
  <2>4. \A q \in Router : /\ t + Second <= db[q].age
                          /\ db[q].age <= (t + Second) + Spread(Router)
    BY <1>5, <2>1, Apart DEF AreClose
  <2> QED BY <1>3, <1>6, <2>2, <2>3, <2>4
<1>8. CASE Refreshing
  <2>1. Fresh = Router
    BY <1>1, <1>8, AllReached
  <2>2. \A q \in Router : 0 <= db[q].age /\ db[q].age <= 0 + Spread(Router)
    BY <1>5, <2>1, Apart DEF Fresh
  <2>3. db[o].age = 0
    BY <1>8 DEF Refreshing
  <2> QED BY <1>3, <1>6, <2>2, <2>3, SecondsAdd, Apart
<1> QED BY <1>3, <1>7, <1>8

-----------------------------------------------------------------------------
LEMMA UnchangedStep ==
  ASSUME Connected, TimesApart, TypeOK, KeptAreUnacked, Unchanged, [Next]_vars
  PROVE  Unchanged'
<1> SUFFICES ASSUME changes' = 0 PROVE AllUnchanged' /\ (Calm' \/ Refreshing')
  BY DEF Unchanged
<1>1. ~LinkStateChanged
  <2>1. changes \in Nat
    BY TypeSplit
  <2> QED BY <2>1 DEF LinkStateChanged
<1>2. changes = 0
  BY <1>1 DEF Next, RefreshLSA, RemoveLSA, AgeLSA, Deliver, InstallLSA, EqualLSA, OlderLSA,
              ReceiveAck, ResendUpdates, NextRound, vars
<1>3. AllUnchanged /\ (Calm \/ Refreshing)
  BY <1>2 DEF Unchanged
<1>4. ASSUME NEW r \in Router, RefreshLSA(r) PROVE AllUnchanged' /\ Refreshing'
  BY <1>3, <1>4, RefreshStep
<1>5. ASSUME NEW r \in Router, RemoveLSA(r) PROVE FALSE
  BY <1>3, <1>5, AgesLimited DEF RemoveLSA
<1>6. ASSUME NEW r \in Router, AgeLSA(r) PROVE AllUnchanged' /\ (Calm' \/ Refreshing')
  BY <1>3, <1>6, AgeCalm, AgeRefreshing
<1>7. ASSUME NEW s, NEW r, Deliver(s, r) PROVE AllUnchanged' /\ Refreshing'
  <2>1. ~Quiet
    <3>1. PICK type : Arrives(s, r, type)
      BY <1>7 DEF Deliver, InstallLSA, EqualLSA, OlderLSA, ReceiveAck
    <3> QED BY <3>1, ArrivalType
  <2>2. Refreshing
    BY <1>3, <2>1 DEF Calm
  <2> QED BY <1>3, <1>7, <2>2, InstallRefreshed, OtherRefreshed DEF Deliver
<1>8. ASSUME NEW e \in Adjacent, ResendUpdates(e) PROVE AllUnchanged' /\ Refreshing'
  BY <1>3, <1>8, ResendRefreshed
<1>9. CASE NextRound
  BY <1>3, <1>9, RoundStep
<1>10. CASE UNCHANGED vars
  <2>1. AllUnchanged'
    BY <1>3, <1>10 DEF vars, AllUnchanged, Holds
  <2>2. UNCHANGED <<db, due, upd, chan>>
    BY <1>10 DEF vars
  <2>3. CASE Calm
    <3>1. Calm'
      BY <2>2, <2>3 DEF Calm, AgeBefore, AreClose, Quiet
    <3> QED BY <2>1, <3>1
  <2>4. CASE Refreshing
    <3>1. Refreshing'
      BY <2>2, <2>4 DEF Refreshing, AgeBefore, AreClose, Fresh
    <3> QED BY <2>1, <3>1
  <2> QED BY <1>3, <2>3, <2>4
<1> QED BY <1>1, <1>4, <1>5, <1>6, <1>7, <1>8, <1>9, <1>10 DEF Next

(* UnchangedIsRefreshed: in a connected network whose times are apart as   *)
(* those of utils.h are, an LSA that begins with the sequence number of a  *)
(* refresh and does not change is refreshed in time at every router, for   *)
(* ever: no copy gets more than two seconds older than the refresh time,   *)
(* whatever the network, the order of the timers and packets, and the      *)
(* repetitions.                                                            *)
THEOREM RefreshReachesAll ==
  ASSUME Connected, TimesApart, InitSeqs \subseteq {0}
  PROVE  Spec => []UnchangedIsRefreshed
<1>1. Init => KeptAreUnacked /\ Unchanged
  BY TimedInit, UnchangedInit DEF Timed, Unchanged
<1>2. TypeOK /\ (KeptAreUnacked /\ Unchanged) /\ [Next]_vars => (KeptAreUnacked /\ Unchanged)'
  BY KeptStep, UnchangedStep
<1>3. TypeOK /\ Unchanged => UnchangedIsRefreshed
  <2> SUFFICES ASSUME TypeOK, Unchanged, changes = 0, NEW r \in Router
               PROVE  db[r].age < RefreshTime + 2 * Second
    BY DEF UnchangedIsRefreshed
  <2>1. AllUnchanged /\ (Calm \/ Refreshing)
    BY DEF Unchanged
  <2>2. db[r].age <= RefreshTime + Second + Spread(Router) /\ db[r].age \in Nat
    BY <2>1, AgesLimited, CopyType
  <2> QED BY <2>2, Apart
<1> QED BY <1>1, <1>2, <1>3, TypeCorrect, PTL DEF Spec

-----------------------------------------------------------------------------
(* Agreement.  Every instance that some router holds, or that is on its    *)
(* way, is of one of two kinds in a round: those of the beginning, all the *)
(* same, and those the originator has made since.  Their order is that of  *)
(* their sequence numbers and, after a refresh, of their ages where these  *)
(* are equal.                                                              *)

TimesFarApart ==
  /\ Spread(Router) < Second /\ 4 * Second <= MaxAgeDiff
  /\ MaxAgeDiff + 4 * Second <= RefreshTime
  /\ RefreshTime + 5 * Second < MaxAge

(* What is settled for a round: whether the LSA has been refreshed in it,  *)
(* the sequence number and least age of the copies at its beginning, and   *)
(* the links of the instance at each place of the order.                   *)
Situations ==
  [refreshed : {0, 1}, seq : Nat, least : Nat, links : [Nat -> Nat]]

Order(w, x) ==
  2 * x.seq + IF w.refreshed = 1 /\ x.age <= Spread(Router) THEN 1 ELSE 0
IsNew(w, x) ==
  IF w.refreshed = 1 THEN x.age <= Spread(Router) ELSE x.seq > w.seq

(* Levels: the place in the order each router has reached.                 *)
Levels == [Router -> Nat]
HaveAt(f, k) == {r \in Router : f[r] >= k}
Slack(w) == IF w.refreshed = 1 THEN 0 ELSE Second
LatestAge(w, f) ==
  w.least + 3 * Second + IF f[Originator] < 2 * w.seq THEN 0 ELSE Delay

Known(w, f, x) ==
  /\ x.links = w.links[Order(w, x)]
  /\ IsNew(w, x) => /\ Order(w, x) <= f[Originator]
                    /\ x.age <= Slack(w) + Spread(HaveAt(f, Order(w, x)))
  /\ ~IsNew(w, x) => x.seq = w.seq

(* An instance sent by router a; the old one is only sent as an answer to  *)
(* the refreshed one.                                                      *)
Sent(w, f, a, x) ==
  /\ Known(w, f, x) /\ Order(w, x) <= f[a]
  /\ ~IsNew(w, x) => w.refreshed = 1 /\ w.least <= x.age /\ x.age <= LatestAge(w, f)

In(q) == {q[i] : i \in DOMAIN q}
Updates(q) == {m \in In(q) : m.type = "update"}

SentOnLinks(w, f, c) ==
  \A e \in Adjacent : \A m \in Updates(c[e]) : Sent(w, f, e[1], m.lsa)
SentFromStore(w, f, u) ==
  \A e \in Adjacent : \A o \in DOMAIN u[e] : Sent(w, f, e[1], u[e][o])

(* Who is ahead has sent the neighbour what it has, or, to an originator   *)
(* that has fallen behind by its refresh, will when it gets what that has  *)
(* sent.                                                                   *)
HasOrder(w, q, k) == \E m \in Updates(q) : Order(w, m.lsa) = k
HasOlder(q, k) == \E m \in Updates(q) : 2 * m.lsa.seq + 1 < k
Reaches(w, f, c) ==
  \A e \in Adjacent : f[e[1]] > f[e[2]] =>
    \/ HasOrder(w, c[e], f[e[1]])
    \/ e[2] = Originator /\ HasOlder(c[<<e[2], e[1]>>], f[e[1]])

(* The level of a router that holds nothing is that of the beginning.      *)
Level(w) == [r \in Router |-> IF Holds(r) THEN Order(w, db[r]) ELSE 2 * w.seq]

KnownCopies(w) ==
  /\ \A r \in Router : Holds(r) => Known(w, Level(w), db[r])
  /\ \A r \in Router \ {Originator} :
       /\ Level(w)[r] >= 2 * w.seq
       /\ Holds(r) /\ IsNew(w, db[r]) => r \notin due

OwnCopy(w) ==
  /\ Holds(Originator)
  /\ IsNew(w, db[Originator]) =>
       \/ db[Originator].age = 0
       \/ w.refreshed = 0 /\ db[Originator].age = Second /\ Originator \notin due
  /\ w.refreshed = 0 => IsNew(w, db[Originator])

OldCopies(w) ==
  /\ Originator \notin due /\ \A r \in Router : Holds(r)
  /\ RefreshTime <= w.least + 3 * Second /\ w.least <= RefreshTime + Second
  /\ \A r \in Router \ {Originator} : ~IsNew(w, db[r]) =>
       w.least <= AgeBefore(r) /\ AgeBefore(r) <= w.least + 2 * Second
  /\ ~IsNew(w, db[Originator]) =>
       /\ w.least <= db[Originator].age
       /\ db[Originator].age <= w.least + 3 * Second + Delay

(* The originator has made a new instance in this round.                   *)
Busy(w) ==
  /\ KnownCopies(w) /\ OwnCopy(w) /\ (w.refreshed = 1 => OldCopies(w))
  /\ SentOnLinks(w, Level(w), chan) /\ SentFromStore(w, Level(w), upd)
  /\ Reaches(w, Level(w), chan)

(* It has not, and nothing is sent.  If it can be refreshed yet, all have  *)
(* a copy, and about as old.                                               *)
Timely(w) ==
  /\ \A r \in Router : Holds(r)
  /\ \A r \in Router \ {Originator} :
       w.least <= AgeBefore(r) /\ AgeBefore(r) <= w.least + 2 * Second
  /\ w.least <= AgeBefore(Originator) + Second
  /\ AgeBefore(Originator) <= w.least + 3 * Second
AtRest(w) ==
  /\ Quiet /\ \A e \in Adjacent : DOMAIN upd[e] = {}
  /\ \A r \in Router : Holds(r) =>
       db[r].seq = w.seq /\ db[r].links = w.links[2 * w.seq]
  /\ Holds(Originator) /\ AgeBefore(Originator) <= RefreshTime => Timely(w)

Agreeing == \E w \in Situations : AtRest(w) \/ Busy(w)

-----------------------------------------------------------------------------
(* Arithmetic of the order.                                                *)

LEMMA FarApart ==
  ASSUME TimesFarApart
  PROVE  /\ Spread(Router) \in Nat /\ Delay \in Nat /\ Second \in Nat /\ RefreshTime \in Nat
         /\ MaxAge \in Nat /\ MaxAgeDiff \in Nat
         /\ Delay <= Spread(Router) /\ Spread(Router) < Second /\ 4 * Second <= MaxAgeDiff
         /\ MaxAgeDiff + 4 * Second <= RefreshTime
         /\ RefreshTime + 5 * Second < MaxAge
<1>1. Spread(Router) \in Nat /\ Delay <= Spread(Router)
  BY SpreadType, Times
<1> QED BY <1>1, Times DEF TimesFarApart

LEMMA SituationType ==
  ASSUME NEW w \in Situations
  PROVE  /\ w.refreshed \in {0, 1} /\ w.seq \in Nat /\ w.least \in Nat
         /\ w.links \in [Nat -> Nat]
BY DEF Situations

LEMMA OrderType ==
  ASSUME NEW w \in Situations, NEW x \in Instance
  PROVE  /\ Order(w, x) \in Nat
         /\ Order(w, x) = 2 * x.seq \/ Order(w, x) = 2 * x.seq + 1
         /\ w.refreshed = 0 => Order(w, x) = 2 * x.seq
         /\ w.refreshed = 1 /\ IsNew(w, x) => Order(w, x) = 2 * x.seq + 1
         /\ w.refreshed = 1 /\ ~IsNew(w, x) => Order(w, x) = 2 * x.seq
BY InstanceType DEF Order, IsNew

LEMMA SpreadGrows ==
  ASSUME NEW F \in SUBSET Router, NEW G \in SUBSET Router, F \subseteq G
  PROVE  /\ Spread(F) <= Spread(G)
         /\ \A r \in G \ F : Spread(F) + Delay <= Spread(G)
<1>1. IsFiniteSet(Router)
  BY AgingAssumption
<1>2. IsFiniteSet(G) /\ IsFiniteSet(F)
  BY <1>1, FS_Subset
<1>3. ASSUME NEW H \in SUBSET G PROVE Spread(H) \in Nat /\ Spread(G) \in Nat
                                      /\ Spread(H) <= Spread(G)
  <2>1. /\ Cardinality(H) \in Nat /\ Cardinality(G) \in Nat
        /\ Cardinality(H) <= Cardinality(G) /\ Delay \in Nat
    BY <1>2, FS_Subset, FS_CardinalityType, Times
  <2>2. \A d, m, n \in Nat : m <= n => d * m \in Nat /\ d * n \in Nat /\ d * m <= d * n
    <3>1. ASSUME NEW d \in Nat, NEW m \in Nat, NEW n \in Nat, m <= n
          PROVE  d * m \in Nat /\ d * n \in Nat /\ d * m <= d * n
      <4>1. n - m \in Nat /\ d * n = d * m + d * (n - m) /\ d * m \in Nat
        BY <3>1
      <4>2. d * (n - m) \in Nat /\ d * n \in Nat
        BY <4>1
      <4> QED BY <4>1, <4>2
    <3> QED BY <3>1
  <2> QED BY <2>1, <2>2 DEF Spread
<1>4. ASSUME NEW r \in G \ F PROVE Spread(F) + Delay <= Spread(G)
  <2>1. Spread(F \cup {r}) = Spread(F) + Delay
    BY SpreadType
  <2> QED BY <1>3, <2>1
<1> QED BY <1>3, <1>4

LEMMA HaveAtType ==
  ASSUME NEW f \in Levels, NEW k \in Nat
  PROVE  /\ HaveAt(f, k) \in SUBSET Router
         /\ Spread(HaveAt(f, k)) \in Nat /\ Spread(HaveAt(f, k)) <= Spread(Router)
         /\ \A r \in Router : f[r] >= k => Delay <= Spread(HaveAt(f, k))
<1>1. HaveAt(f, k) \in SUBSET Router
  BY DEF HaveAt
<1>2. \A r \in Router : f[r] >= k => r \in HaveAt(f, k)
  BY DEF HaveAt
<1> QED BY <1>1, <1>2, SpreadType

LEMMA HaveAtGrows ==
  ASSUME NEW f \in Levels, NEW g \in Levels, \A r \in Router : f[r] <= g[r], NEW k \in Nat
  PROVE  /\ Spread(HaveAt(f, k)) <= Spread(HaveAt(g, k))
         /\ \A r \in Router : f[r] < k /\ g[r] >= k
              => Spread(HaveAt(f, k)) + Delay <= Spread(HaveAt(g, k))
<1>1. /\ HaveAt(f, k) \in SUBSET Router /\ HaveAt(g, k) \in SUBSET Router
      /\ HaveAt(f, k) \subseteq HaveAt(g, k)
  BY DEF HaveAt, Levels
<1>2. \A r \in Router : f[r] < k /\ g[r] >= k => r \in HaveAt(g, k) \ HaveAt(f, k)
  BY DEF HaveAt, Levels
<1> QED BY <1>1, <1>2, SpreadGrows

LEMMA KnownGrows ==
  ASSUME NEW w \in Situations, NEW f \in Levels, NEW g \in Levels,
         \A r \in Router : f[r] <= g[r], NEW x \in Instance, Known(w, f, x)
  PROVE  /\ Known(w, g, x)
         /\ \A a \in Router : Sent(w, f, a, x) => Sent(w, g, a, x)
<1> DEFINE k == Order(w, x)
<1>1. k \in Nat /\ Originator \in Router /\ Second \in Nat /\ Delay \in Nat /\ x.age \in Nat
  BY OrderType, Times, InstanceType
<1>2. \A r \in Router : f[r] \in Nat /\ g[r] \in Nat
  BY DEF Levels
<1>3. /\ Spread(HaveAt(f, k)) <= Spread(HaveAt(g, k))
      /\ Spread(HaveAt(f, k)) \in Nat /\ Spread(HaveAt(g, k)) \in Nat
  BY <1>1, HaveAtGrows, HaveAtType
<1>4. Slack(w) \in Nat
  BY <1>1 DEF Slack
<1> HIDE DEF k
<1>5. Known(w, g, x)
  BY <1>1, <1>2, <1>3, <1>4 DEF Known, k
<1>6. LatestAge(w, f) <= LatestAge(w, g) /\ LatestAge(w, f) \in Nat /\ LatestAge(w, g) \in Nat
  BY <1>1, <1>2, SituationType DEF LatestAge
<1>7. ASSUME NEW a \in Router, Sent(w, f, a, x) PROVE Sent(w, g, a, x)
  <2>1. k <= g[a]
    BY <1>1, <1>2, <1>7 DEF Sent, k
  <2> QED BY <1>1, <1>5, <1>6, <1>7, <2>1 DEF Sent, k
<1> QED BY <1>5, <1>7

LEMMA UpdatesType ==
  ASSUME NEW q \in Seq(Message), NEW m \in Updates(q)
  PROVE  m \in Message /\ m.type = "update" /\ m.lsa \in Instance
<1>1. PICK i \in DOMAIN q : m = q[i]
  BY DEF Updates, In
<1>2. q[i] \in Message
  BY ElementOfSeq, LenProperties
<1>3. m.type = "update"
  BY DEF Updates
<1> QED BY <1>1, <1>2, <1>3, MessageType

LEMMA AllSentGrow ==
  ASSUME NEW w \in Situations, NEW f \in Levels, NEW g \in Levels,
         \A r \in Router : f[r] <= g[r]
  PROVE  /\ \A c \in Links : SentOnLinks(w, f, c) => SentOnLinks(w, g, c)
         /\ \A u : IsStore(u) /\ SentFromStore(w, f, u) => SentFromStore(w, g, u)
<1>1. ASSUME NEW c \in Links, SentOnLinks(w, f, c) PROVE SentOnLinks(w, g, c)
  <2> SUFFICES ASSUME NEW e \in Adjacent, NEW m \in Updates(c[e]) PROVE Sent(w, g, e[1], m.lsa)
    BY DEF SentOnLinks
  <2>1. m.lsa \in Instance /\ e[1] \in Router
    <3>1. c[e] \in Seq(Message)
      BY DEF Links
    <3> QED BY <3>1, UpdatesType, LinkType
  <2>2. Sent(w, f, e[1], m.lsa)
    BY <1>1 DEF SentOnLinks
  <2>3. Known(w, f, m.lsa)
    BY <2>2 DEF Sent
  <2> QED BY <2>1, <2>2, <2>3, KnownGrows
<1>2. ASSUME NEW u, IsStore(u), SentFromStore(w, f, u) PROVE SentFromStore(w, g, u)
  <2> SUFFICES ASSUME NEW e \in Adjacent, NEW o \in DOMAIN u[e] PROVE Sent(w, g, e[1], u[e][o])
    BY DEF SentFromStore
  <2>1. u[e][o] \in Instance /\ e[1] \in Router
    BY <1>2, LinkType DEF IsStore
  <2>2. Sent(w, f, e[1], u[e][o])
    BY <1>2 DEF SentFromStore
  <2>3. Known(w, f, u[e][o])
    BY <2>2 DEF Sent
  <2> QED BY <2>1, <2>2, <2>3, KnownGrows
<1> QED BY <1>1, <1>2

-----------------------------------------------------------------------------
(* The packets on a link, as a set.                                        *)

LEMMA AppendedIn ==
  ASSUME NEW p \in Seq(Message), NEW q \in Seq(Message)
  PROVE  In(p \o q) = In(p) \cup In(q) /\ Updates(p \o q) = Updates(p) \cup Updates(q)
<1> DEFINE c == p \o q
<1>1. Merges(c, p, q)
  BY Appended
<1> HIDE DEF c
<1>2. ASSUME NEW m PROVE m \in In(c) <=> m \in In(p) \/ m \in In(q)
  BY <1>1 DEF Merges, In
<1>3. In(c) = In(p) \cup In(q)
  BY <1>2
<1> QED BY <1>3 DEF Updates, c

LEMMA TransmitSent ==
  ASSUME NEW links \in Links, NEW copies, NEW stored, NEW sent \in Sending,
         NEW origin, Transmit(links, copies, stored, sent, origin),
         NEW w, NEW f, SentOnLinks(w, f, links), SentFromStore(w, f, stored),
         SentOnLinks(w, f, sent)
  PROVE  /\ SentOnLinks(w, f, chan') /\ SentFromStore(w, f, upd')
         /\ \A e \in Adjacent : Updates(chan'[e]) = Updates(links[e]) \cup Updates(sent[e])
<1>1. ASSUME NEW e \in Adjacent
      PROVE  Updates(chan'[e]) = Updates(links[e]) \cup Updates(sent[e])
  <2>1. links[e] \in Seq(Message) /\ sent[e] \in Seq(Message)
    BY SentType DEF Links
  <2>2. chan'[e] = links[e] \o sent[e]
    BY DEF Transmit
  <2> QED BY <2>1, <2>2, AppendedIn
<1>2. SentOnLinks(w, f, chan')
  BY <1>1 DEF SentOnLinks
<1>3. SentFromStore(w, f, upd')
  <2> SUFFICES ASSUME NEW e \in Adjacent, NEW o \in DOMAIN upd'[e]
               PROVE  Sent(w, f, e[1], upd'[e][o])
    BY DEF SentFromStore
  <2>1. CASE ~Recorded(e, sent)
    <3>1. upd'[e] = stored[e]
      BY <2>1 DEF Transmit
    <3> QED BY <3>1 DEF SentFromStore
  <2>2. CASE Recorded(e, sent)
    <3>1. upd'[e] = [a \in DOMAIN stored[e] \cup {origin} |->
                       IF a = origin THEN Head(sent[e]).lsa ELSE stored[e][a]]
      BY <2>2 DEF Transmit
    <3>2. PICK i \in DOMAIN sent[e] : sent[e][i].type = "update"
      BY <2>2 DEF Recorded
    <3>3. sent[e] = <<>> \/ \E m \in Message : sent[e] = <<m>>
      BY DEF Sending
    <3>4. Head(sent[e]) = sent[e][i]
      BY <3>2, <3>3
    <3>5. sent[e][i] \in Updates(sent[e])
      BY <3>2 DEF Updates, In
    <3>6. Sent(w, f, e[1], Head(sent[e]).lsa)
      BY <3>4, <3>5 DEF SentOnLinks
    <3> QED BY <3>1, <3>6 DEF SentFromStore
  <2> QED BY <2>1, <2>2
<1> QED BY <1>1, <1>2, <1>3

LEMMA ReceivedIn ==
  ASSUME TypeOK, NEW s, NEW r, NEW type, Arrives(s, r, type)
  PROVE  /\ Head(chan[<<s, r>>]) \in In(chan[<<s, r>>])
         /\ type = "update" => Head(chan[<<s, r>>]) \in Updates(chan[<<s, r>>])
         /\ \A e \in Adjacent :
              /\ Updates(Received(<<s, r>>)[e]) \subseteq Updates(chan[e])
              /\ \A m \in Updates(chan[e]) : \/ m \in Updates(Received(<<s, r>>)[e])
                                             \/ e = <<s, r>> /\ m = Head(chan[e])
              /\ type = "ack" => Updates(Received(<<s, r>>)[e]) = Updates(chan[e])
<1> DEFINE g == <<s, r>>
           q == chan[g]
<1>1. g \in Adjacent /\ q # <<>> /\ Head(q).type = type
  BY DEF Arrives
<1>2. chan \in Links /\ q \in Seq(Message)
  BY <1>1, TypeSplit DEF Links
<1>3. \A e \in Adjacent : Received(g)[e] = IF e = g THEN Tail(q) ELSE chan[e]
  BY <1>2 DEF Received, Links
<1>4. /\ \A i \in DOMAIN Tail(q) : i + 1 \in DOMAIN q /\ Tail(q)[i] = q[i + 1]
      /\ \A i \in DOMAIN q : q[i] = Head(q) \/ \E j \in DOMAIN Tail(q) : Tail(q)[j] = q[i]
      /\ 1 \in DOMAIN q /\ Head(q) = q[1]
  BY <1>1, <1>2, RestOfQueue
<1> HIDE DEF g, q
<1>5. In(Tail(q)) \subseteq In(q) /\ In(q) \subseteq In(Tail(q)) \cup {Head(q)}
      /\ Head(q) \in In(q)
  BY <1>4 DEF In
<1>6. /\ Updates(Tail(q)) \subseteq Updates(q)
      /\ \A m \in Updates(q) : m \in Updates(Tail(q)) \/ m = Head(q)
      /\ type = "ack" => Updates(Tail(q)) = Updates(q)
      /\ type = "update" => Head(q) \in Updates(q)
  BY <1>1, <1>5 DEF Updates
<1>7. \A e \in Adjacent :
        /\ Updates(Received(g)[e]) \subseteq Updates(chan[e])
        /\ \A m \in Updates(chan[e]) : \/ m \in Updates(Received(g)[e])
                                       \/ e = g /\ m = Head(chan[e])
        /\ type = "ack" => Updates(Received(g)[e]) = Updates(chan[e])
  BY <1>3, <1>6 DEF q
<1> QED BY <1>5, <1>6, <1>7 DEF g, q

LEMMA AgedIn ==
  ASSUME TypeOK, NEW s, NEW r, Arrives(s, r, "update"), NEW ls,
         ls = Head(chan[<<s, r>>]).lsa
  PROVE  /\ \A e \in Adjacent :
              /\ \A m \in Updates(AgedOnLink(s, r, ls)[e]) :
                   \/ m \in Updates(chan[e])
                   \/ e = <<s, r>> /\ m.lsa = Aged(s, r, ls)
              /\ \A m \in Updates(chan[e]) :
                   \/ m \in Updates(AgedOnLink(s, r, ls)[e])
                   \/ e = <<s, r>> /\ m.lsa = ls
         /\ \A e \in Adjacent : \A o \in DOMAIN AgedInStore(s, r, ls)[e] :
              o \in DOMAIN upd[e] /\
              \/ AgedInStore(s, r, ls)[e][o] = upd[e][o]
              \/ e = <<s, r>> /\ AgedInStore(s, r, ls)[e][o] = Aged(s, r, ls)
<1> DEFINE g == <<s, r>>
           c == Received(g)
<1>1. /\ ls \in Instance /\ g \in Adjacent /\ c \in Links /\ IsStore(upd)
  BY ArrivalType, TypeSplit
<1>2. \A e \in Adjacent :
        AgedOnLink(s, r, ls)[e] =
          IF e = g THEN [i \in DOMAIN c[g] |->
                           IF c[g][i] = Update(ls) THEN Update(Aged(s, r, ls)) ELSE c[g][i]]
          ELSE c[e]
  BY <1>1 DEF AgedOnLink, Links
<1>3. \A e \in Adjacent :
        /\ Updates(c[e]) \subseteq Updates(chan[e])
        /\ \A m \in Updates(chan[e]) : m \in Updates(c[e]) \/ (e = g /\ m = Head(chan[e]))
  BY ReceivedIn
<1>4. /\ Update(ls).lsa = ls /\ Update(Aged(s, r, ls)).lsa = Aged(s, r, ls)
      /\ Update(Aged(s, r, ls)).type = "update"
  BY DEF Update
<1> HIDE DEF g, c
<1> DEFINE aged == [i \in DOMAIN c[g] |->
                      IF c[g][i] = Update(ls) THEN Update(Aged(s, r, ls)) ELSE c[g][i]]
<1>5. ASSUME NEW m \in Updates(aged)
      PROVE  m \in Updates(c[g]) \/ m = Update(Aged(s, r, ls))
  BY DEF Updates, In
<1>6. ASSUME NEW m \in Updates(c[g]) PROVE m \in Updates(aged) \/ m = Update(ls)
  BY DEF Updates, In
<1> HIDE DEF aged
<1>7. ASSUME NEW e \in Adjacent, NEW m \in Updates(AgedOnLink(s, r, ls)[e])
      PROVE  m \in Updates(chan[e]) \/ (e = g /\ m.lsa = Aged(s, r, ls))
  <2>1. CASE e = g
    <3>1. m \in Updates(aged)
      BY <1>2, <2>1 DEF aged
    <3> QED BY <1>3, <1>4, <1>5, <2>1, <3>1
  <2>2. CASE e # g
    BY <1>2, <1>3, <2>2
  <2> QED BY <2>1, <2>2
<1>8. ASSUME NEW e \in Adjacent, NEW m \in Updates(chan[e])
      PROVE  m \in Updates(AgedOnLink(s, r, ls)[e]) \/ (e = g /\ m.lsa = ls)
  <2>1. CASE e = g
    <3>1. AgedOnLink(s, r, ls)[e] = aged
      BY <1>2, <2>1 DEF aged
    <3>2. Head(chan[e]).lsa = ls
      BY <2>1 DEF g
    <3> QED BY <1>3, <1>4, <1>6, <2>1, <3>1, <3>2
  <2>2. CASE e # g
    BY <1>2, <1>3, <2>2
  <2> QED BY <2>1, <2>2
<1>9. ASSUME NEW e \in Adjacent, NEW o \in DOMAIN AgedInStore(s, r, ls)[e]
      PROVE  o \in DOMAIN upd[e] /\
             \/ AgedInStore(s, r, ls)[e][o] = upd[e][o]
             \/ e = g /\ AgedInStore(s, r, ls)[e][o] = Aged(s, r, ls)
  <2>1. AgedInStore(s, r, ls)[e] =
          IF e = g
          THEN [a \in DOMAIN upd[e] |-> IF upd[e][a] = ls THEN Aged(s, r, ls) ELSE upd[e][a]]
          ELSE upd[e]
    BY <1>1 DEF AgedInStore, IsStore, g
  <2> QED BY <2>1
<1> QED BY <1>7, <1>8, <1>9 DEF g

(* What is flooded, from a level it gives.                                 *)
LEMMA FloodSent ==
  ASSUME NEW w, NEW f, NEW ls \in Instance, NEW r, NEW except,
         \A n \in Neighbours(r) \ {except} : Sent(w, f, r, [ls EXCEPT !.age = @ + Delay])
  PROVE  /\ SentOnLinks(w, f, Flood(r, ls, except))
         /\ \A e \in Adjacent : e[1] = r /\ e[2] # except =>
              \A k : k = Order(w, [ls EXCEPT !.age = @ + Delay])
                => HasOrder(w, Flood(r, ls, except)[e], k)
         /\ \A e \in Adjacent : e[1] = r /\ e[2] # except =>
              \A k \in Nat : 2 * ls.seq + 1 < k => HasOlder(Flood(r, ls, except)[e], k)
         /\ \A g : SentOnLinks(w, f, [Flood(r, ls, except) EXCEPT ![g] = <<Ack>>])
<1> DEFINE sent == [ls EXCEPT !.age = @ + Delay]
           m == Update(sent)
           c == Flood(r, ls, except)
<1>1. sent.seq = ls.seq
  BY InstanceType DEF Instance
<1>2. m.lsa = sent /\ m.type = "update"
  BY DEF Update
<1>3. \A e \in Adjacent : c[e] = IF e[1] = r /\ e[2] # except THEN <<m>> ELSE <<>>
  BY DEF Flood
<1>4. \A g : \A e \in Adjacent : [c EXCEPT ![g] = <<Ack>>][e] = IF e = g THEN <<Ack>> ELSE c[e]
  BY DEF Flood
<1> HIDE DEF m, c
<1>5. Updates(<<m>>) = {m} /\ Updates(<<>>) = {} /\ Updates(<<Ack>>) = {}
  <2>1. In(<<m>>) = {m} /\ In(<<>>) = {} /\ In(<<Ack>>) = {Ack}
    BY DEF In
  <2> QED BY <1>2, <2>1, MessageType DEF Updates
<1>6. ASSUME NEW e \in Adjacent, e[1] = r, e[2] # except PROVE Sent(w, f, r, sent)
  <2>1. e[2] \in Neighbours(r) \ {except}
    BY <1>6, LinkType DEF Neighbours
  <2> QED BY <2>1
<1> HIDE DEF sent
<1>7. SentOnLinks(w, f, c)
  <2> SUFFICES ASSUME NEW e \in Adjacent, NEW x \in Updates(c[e]) PROVE Sent(w, f, e[1], x.lsa)
    BY DEF SentOnLinks
  <2>1. e[1] = r /\ e[2] # except /\ x = m
    BY <1>3, <1>5
  <2> QED BY <1>2, <1>6, <2>1
<1>8. ASSUME NEW e \in Adjacent, e[1] = r, e[2] # except
      PROVE  /\ \A k : k = Order(w, sent) => HasOrder(w, c[e], k)
             /\ \A k \in Nat : 2 * ls.seq + 1 < k => HasOlder(c[e], k)
  <2>1. Updates(c[e]) = {m}
    BY <1>3, <1>5, <1>8
  <2> QED BY <1>1, <1>2, <2>1 DEF HasOrder, HasOlder
<1>9. ASSUME NEW g PROVE SentOnLinks(w, f, [c EXCEPT ![g] = <<Ack>>])
  <2>1. \A e \in Adjacent : Updates([c EXCEPT ![g] = <<Ack>>][e]) \subseteq Updates(c[e])
    BY <1>4, <1>5
  <2> QED BY <1>7, <2>1 DEF SentOnLinks
<1> QED BY <1>7, <1>8, <1>9 DEF c, sent

-----------------------------------------------------------------------------
(* What is known of the copies and of what arrives.                        *)

LEMMA LevelType ==
  ASSUME TypeOK, NEW w \in Situations
  PROVE  /\ Level(w) \in Levels
         /\ \A r \in Router : /\ Holds(r) => db[r] \in Instance /\ Level(w)[r] = Order(w, db[r])
                              /\ ~Holds(r) => Level(w)[r] = 2 * w.seq
<1>1. ASSUME NEW r \in Router, Holds(r) PROVE db[r] \in Instance
  BY <1>1, TypeSplit DEF Holds
<1>2. ASSUME NEW r \in Router
      PROVE  (IF Holds(r) THEN Order(w, db[r]) ELSE 2 * w.seq) \in Nat
  BY <1>1, OrderType, SituationType
<1>3. Level(w) \in Levels
  BY <1>2 DEF Level, Levels
<1>4. \A r \in Router : Level(w)[r] = IF Holds(r) THEN Order(w, db[r]) ELSE 2 * w.seq
  BY DEF Level
<1> QED BY <1>1, <1>3, <1>4

(* New copies are young.                                                   *)
LEMMA NewAge ==
  ASSUME TimesFarApart, NEW w \in Situations, NEW f \in Levels, NEW x \in Instance,
         Known(w, f, x), IsNew(w, x)
  PROVE  /\ x.age <= Slack(w) + Spread(Router) /\ x.age <= 2 * Second /\ x.age \in Nat
         /\ w.refreshed = 1 => x.age <= Spread(Router)
<1>1. Order(w, x) \in Nat /\ x.age \in Nat
  BY OrderType, InstanceType
<1>2. /\ Spread(HaveAt(f, Order(w, x))) \in Nat
      /\ Spread(HaveAt(f, Order(w, x))) <= Spread(Router)
  BY <1>1, HaveAtType
<1>3. x.age <= Slack(w) + Spread(HaveAt(f, Order(w, x)))
  BY DEF Known
<1>4. Slack(w) \in Nat /\ Slack(w) <= Second
  BY FarApart DEF Slack
<1>5. w.refreshed = 1 => x.age <= Spread(Router)
  BY DEF IsNew
<1> QED BY <1>1, <1>2, <1>3, <1>4, <1>5, FarApart

LEMMA OldAge ==
  ASSUME TypeOK, TimesFarApart, NEW w \in Situations, w.refreshed = 1, OldCopies(w),
         NEW r \in Router
  PROVE  /\ db[r] \in Instance /\ Holds(r) /\ db[r].age \in Nat
         /\ ~IsNew(w, db[r]) => /\ w.least <= db[r].age
                                /\ db[r].age <= w.least + 3 * Second + Delay
                                /\ r # Originator => db[r].age <= w.least + 3 * Second
<1>1. /\ Holds(r)
      /\ \A q \in Router \ {Originator} : ~IsNew(w, db[q]) =>
           w.least <= AgeBefore(q) /\ AgeBefore(q) <= w.least + 2 * Second
      /\ ~IsNew(w, db[Originator]) =>
           /\ w.least <= db[Originator].age
           /\ db[Originator].age <= w.least + 3 * Second + Delay
  BY DEF OldCopies
<1>2. db[r] \in Instance /\ db[r].age \in Nat
  BY <1>1, LevelType, InstanceType
<1>3. CASE r = Originator
  BY <1>1, <1>2, <1>3
<1>4. CASE r # Originator
  <2>1. ~IsNew(w, db[r]) => w.least <= AgeBefore(r) /\ AgeBefore(r) <= w.least + 2 * Second
    BY <1>1, <1>4
  <2>2. AgeBefore(r) = db[r].age \/ AgeBefore(r) = db[r].age - Second
    BY <1>2, FarApart DEF AgeBefore
  <2> QED BY <1>1, <1>2, <2>1, <2>2, SituationType, FarApart
<1> QED BY <1>3, <1>4

(* An update is installed if it is further in the order than the copy, and *)
(* taken for the same only with the same sequence number.                  *)
LEMMA LookupOrder ==
  ASSUME TypeOK, TimesFarApart, NEW w \in Situations, Busy(w), NEW r \in Router,
         NEW a \in Router, NEW x \in Instance, Sent(w, Level(w), a, x)
  PROVE  /\ Order(w, x) > Level(w)[r] => Lookup(r, x) \in {"NO_EXIST", "NEWER"}
         /\ Order(w, x) <= Level(w)[r] =>
              /\ Holds(r) /\ Lookup(r, x) \in {"EQUALS", "OLDER"}
              /\ Lookup(r, x) = "EQUALS" => x.seq = db[r].seq
<1> DEFINE f == Level(w)
           y == db[r]
<1>1. /\ f \in Levels /\ (Holds(r) => y \in Instance /\ f[r] = Order(w, y))
      /\ (~Holds(r) => f[r] = 2 * w.seq)
  BY LevelType
<1>2. /\ Known(w, f, x) /\ (Holds(r) => Known(w, f, y))
      /\ (w.refreshed = 1 => OldCopies(w))
      /\ ~IsNew(w, x) => /\ w.refreshed = 1 /\ w.least <= x.age /\ x.age <= LatestAge(w, f)
  BY DEF Sent, Busy, KnownCopies
<1>3. x.seq \in Nat /\ x.age \in Nat /\ (Holds(r) => y.seq \in Nat /\ y.age \in Nat)
  BY <1>1, InstanceType
<1>4. LatestAge(w, f) <= w.least + 3 * Second + Delay /\ LatestAge(w, f) \in Nat
  <2>1. f[Originator] \in Nat
    BY <1>1, Times DEF Levels
  <2> QED BY <2>1, SituationType, FarApart DEF LatestAge
<1>5. /\ IsNew(w, x) => x.age <= 2 * Second /\ (w.refreshed = 1 => x.age <= Spread(Router))
      /\ Holds(r) /\ IsNew(w, y) => /\ y.age <= 2 * Second
                                    /\ w.refreshed = 1 => y.age <= Spread(Router)
  BY <1>1, <1>2, NewAge
<1>6. w.refreshed = 1 =>
        /\ RefreshTime <= w.least + 3 * Second /\ w.least <= RefreshTime + Second
        /\ Holds(r)
        /\ ~IsNew(w, y) => w.least <= y.age /\ y.age <= w.least + 3 * Second + Delay
  BY <1>2, OldAge DEF OldCopies
<1>7. w.refreshed \in {0, 1} /\ w.least \in Nat /\ w.seq \in Nat
  BY SituationType
<1>8. /\ Order(w, x) = 2 * x.seq \/ Order(w, x) = 2 * x.seq + 1
      /\ w.refreshed = 0 => Order(w, x) = 2 * x.seq
      /\ w.refreshed = 1 /\ IsNew(w, x) => Order(w, x) = 2 * x.seq + 1
      /\ w.refreshed = 1 /\ ~IsNew(w, x) => Order(w, x) = 2 * x.seq
  BY OrderType
<1>9. Holds(r) => /\ f[r] = 2 * y.seq \/ f[r] = 2 * y.seq + 1
                  /\ w.refreshed = 0 => f[r] = 2 * y.seq
                  /\ w.refreshed = 1 /\ IsNew(w, y) => f[r] = 2 * y.seq + 1
                  /\ w.refreshed = 1 /\ ~IsNew(w, y) => f[r] = 2 * y.seq
  BY <1>1, OrderType
<1>10. w.refreshed = 0 => x.seq > w.seq
  BY <1>2, <1>7 DEF IsNew
<1>11. /\ w.refreshed = 0 /\ Holds(r) /\ y.seq > w.seq => IsNew(w, y)
  BY <1>7 DEF IsNew
<1>12. x.age # MaxAge
  <2>1. CASE IsNew(w, x)
    BY <1>3, <1>5, <2>1, FarApart
  <2>2. CASE ~IsNew(w, x)
    BY <1>2, <1>3, <1>4, <1>6, <1>7, <2>2, FarApart
  <2> QED BY <2>1, <2>2
<1> HIDE DEF f, y
<1>13. CASE ~Holds(r)
  <2>1. ~(Order(w, x) <= f[r])
    BY <1>1, <1>3, <1>6, <1>7, <1>8, <1>10, <1>13
  <2>2. Lookup(r, x) = "NO_EXIST"
    BY <1>13 DEF Lookup
  <2> QED BY <2>1, <2>2 DEF f
<1>14. CASE Holds(r) /\ x.seq < y.seq
  <2>1. Order(w, x) < f[r] /\ Lookup(r, x) = "OLDER"
    BY <1>3, <1>8, <1>9, <1>14 DEF Lookup, y
  <2> QED BY <1>3, <1>8, <1>9, <1>14, <2>1 DEF f
<1>15. CASE Holds(r) /\ x.seq > y.seq
  <2>1. Order(w, x) > f[r] /\ Lookup(r, x) = "NEWER"
    BY <1>3, <1>8, <1>9, <1>15 DEF Lookup, y
  <2> QED BY <1>3, <1>8, <1>9, <1>15, <2>1 DEF f
<1>16. CASE Holds(r) /\ x.seq = y.seq
  <2>1. CASE w.refreshed = 0
    <3>1. IsNew(w, y) /\ IsNew(w, x)
      BY <1>10, <1>11, <1>16, <2>1, <1>2
    <3>2. y.age <= 2 * Second /\ y.age # MaxAge
      BY <1>3, <1>5, <1>16, <3>1, FarApart
    <3>3. ~(y.age - x.age > MaxAgeDiff)
      BY <1>3, <1>16, <3>2, FarApart
    <3>4. Lookup(r, x) = "EQUALS"
      BY <1>3, <1>12, <1>16, <3>2, <3>3 DEF Lookup, y
    <3>5. Order(w, x) = f[r]
      BY <1>8, <1>9, <1>16, <2>1
    <3> QED BY <1>3, <1>8, <1>16, <2>1, <3>4, <3>5 DEF f, y
  <2>2. CASE w.refreshed = 1
    <3>1. y.age # MaxAge
      <4>1. CASE IsNew(w, y)
        BY <1>3, <1>5, <1>16, <4>1, FarApart
      <4>2. CASE ~IsNew(w, y)
        BY <1>3, <1>6, <1>7, <1>16, <2>2, <4>2, FarApart
      <4> QED BY <4>1, <4>2
    <3>2. Lookup(r, x) = IF y.age - x.age > MaxAgeDiff THEN "NEWER" ELSE "EQUALS"
      BY <1>3, <1>12, <1>16, <3>1 DEF Lookup, y
    <3>3. CASE IsNew(w, x) /\ ~IsNew(w, y)
      <4>1. y.age - x.age > MaxAgeDiff
        <5>1. x.age <= Spread(Router) /\ w.least <= y.age
          BY <1>5, <1>6, <2>2, <3>3
        <5> QED BY <1>3, <1>6, <1>7, <1>16, <2>2, <5>1, FarApart
      <4>2. Order(w, x) > f[r]
        BY <1>3, <1>8, <1>9, <1>16, <2>2, <3>3
      <4> QED BY <1>3, <1>8, <1>9, <1>16, <3>2, <4>1, <4>2, <2>2, <3>3 DEF f
    <3>4. CASE ~(IsNew(w, x) /\ ~IsNew(w, y))
      <4>1. ~(y.age - x.age > MaxAgeDiff)
        <5>1. CASE IsNew(w, y)
          BY <1>3, <1>5, <1>16, <5>1, FarApart
        <5>2. CASE ~IsNew(w, y) /\ ~IsNew(w, x)
          BY <1>2, <1>3, <1>6, <1>7, <1>16, <2>2, <5>2, FarApart
        <5> QED BY <3>4, <5>1, <5>2
      <4>2. Order(w, x) <= f[r]
        BY <1>3, <1>8, <1>9, <1>16, <2>2, <3>4
      <4>3. Lookup(r, x) = "EQUALS"
        BY <3>2, <4>1
      <4>4. ~(Order(w, x) > f[r])
        BY <1>3, <1>8, <1>9, <1>16, <2>2, <3>4
      <4> QED BY <1>16, <4>2, <4>3, <4>4 DEF f, y
    <3> QED BY <3>3, <3>4
  <2> QED BY <1>7, <2>1, <2>2
<1> QED BY <1>3, <1>13, <1>14, <1>15, <1>16

-----------------------------------------------------------------------------
(* The timers in a round in which the originator has made a new instance.  *)

LEMMA LevelAfter ==
  ASSUME NEW w
  PROVE  /\ Level(w)' = [r \in Router |-> IF Holds(r)' THEN Order(w, db'[r]) ELSE 2 * w.seq]
         /\ \A r \in Router : Level(w)'[r] = IF Holds(r)' THEN Order(w, db'[r]) ELSE 2 * w.seq
BY DEF Level

(* What a step leaves alone at a router.                                   *)
LEMMA SameCopy ==
  ASSUME NEW w, NEW r, db'[r] = db[r]
  PROVE  /\ Holds(r)' = Holds(r)
         /\ (r \in due' <=> r \in due) => AgeBefore(r)' = AgeBefore(r)
         /\ r \in Router => Level(w)'[r] = Level(w)[r]
<1>1. Holds(r)' = Holds(r)
  BY DEF Holds
<1>2. ASSUME r \in due' <=> r \in due PROVE AgeBefore(r)' = AgeBefore(r)
  BY <1>2 DEF AgeBefore
<1>3. r \in Router => Level(w)'[r] = Level(w)[r]
  BY <1>1, LevelAfter DEF Level
<1> QED BY <1>1, <1>2, <1>3

LEMMA BusyAge ==
  ASSUME TypeOK, TimesFarApart, NEW w \in Situations, Busy(w), NEW r \in Router, AgeLSA(r)
  PROVE  Busy(w)'
<1> DEFINE f == Level(w)
           o == Originator
<1>1. /\ r \in due /\ due' = due \ {r} /\ UNCHANGED <<timer, retrans, upd, chan, changes>>
      /\ db' = [db EXCEPT ![r] = IF Holds(r) THEN [db[r] EXCEPT !.age = @ + Second] ELSE NoLSA]
  BY Zenon DEF AgeLSA, Expires
<1>2. /\ f \in Levels /\ o \in Router /\ Second \in Nat /\ Second > 0
      /\ \A q \in Router : /\ Holds(q) => db[q] \in Instance /\ f[q] = Order(w, db[q])
                           /\ ~Holds(q) => f[q] = 2 * w.seq
  BY LevelType, Times
<1>3. db \in [Router -> Instance \cup {NoLSA}]
  BY TypeSplit
<1>4. \A q \in Router : q # r => db'[q] = db[q] /\ (q \in due' <=> q \in due)
  BY <1>1, <1>3
<1>5. KnownCopies(w) /\ OwnCopy(w) /\ (w.refreshed = 1 => OldCopies(w))
  BY DEF Busy
<1>6. w.refreshed \in {0, 1} /\ w.seq \in Nat /\ w.least \in Nat
  BY SituationType
<1>7. CASE ~Holds(r)
  <2>1. db'[r] = db[r] /\ r # o /\ w.refreshed = 0
    BY <1>1, <1>3, <1>5, <1>6, <1>7 DEF Holds, OwnCopy, OldCopies
  <2>2. \A q \in Router : db'[q] = db[q] /\ Holds(q)' = Holds(q)
    BY <1>4, <2>1, SameCopy
  <2>3. Level(w)' = f
    BY <2>2 DEF Level
  <2>4. KnownCopies(w)'
    BY <1>1, <1>5, <2>2, <2>3 DEF KnownCopies
  <2>5. OwnCopy(w)'
    BY <1>1, <1>2, <1>4, <1>5, <2>1, <2>2 DEF OwnCopy
  <2> QED BY <1>1, <2>1, <2>3, <2>4, <2>5 DEF Busy
<1>8. CASE Holds(r)
  <2> DEFINE x == db[r]
             y == db'[r]
  <2>1. /\ x \in Instance /\ y \in Instance /\ y # NoLSA
        /\ y.age = x.age + Second /\ y.seq = x.seq /\ y.links = x.links /\ x.age \in Nat
    <3>1. x \in Instance
      BY <1>2, <1>8
    <3>2. y = [x EXCEPT !.age = @ + Second]
      BY <1>1, <1>3, <1>8
    <3> HIDE DEF x, y
    <3>3. y \in Instance /\ y # NoLSA /\ y.age = x.age + Second
      BY <3>1, <3>2, InstanceType, FarApart
    <3>4. y.seq = x.seq /\ y.links = x.links
      BY <3>1, <3>2 DEF Instance
    <3> QED BY <3>1, <3>3, <3>4, InstanceType
  <2>2. Holds(r)' /\ \A q \in Router : Holds(q)' = Holds(q)
    BY <1>4, <1>8, <2>1, SameCopy DEF Holds
  <2>3. AgeBefore(r)' = AgeBefore(r)
    <3>1. AgeBefore(r) = x.age /\ AgeBefore(r)' = y.age - Second
      BY <1>1, <2>1 DEF AgeBefore
    <3> QED BY <1>2, <2>1, <3>1
  <2>4. r # o => ~IsNew(w, x)
    BY <1>1, <1>5, <1>8 DEF KnownCopies
  <2>5. r = o => /\ w.refreshed = 0 /\ IsNew(w, x) /\ x.age = 0
    <3> SUFFICES ASSUME r = o PROVE w.refreshed = 0 /\ IsNew(w, x) /\ x.age = 0
      OBVIOUS
    <3>1. w.refreshed = 0
      BY <1>1, <1>5, <1>6 DEF OldCopies
    <3> QED BY <1>1, <1>5, <3>1 DEF OwnCopy
  <2> HIDE DEF x, y
  <2>6. (IsNew(w, y) <=> IsNew(w, x)) /\ Order(w, y) = Order(w, x)
    <3>1. CASE w.refreshed = 0
      BY <2>1, <3>1 DEF IsNew, Order
    <3>2. CASE w.refreshed = 1
      <4>1. ~(x.age <= Spread(Router))
        BY <2>4, <2>5, <3>2 DEF IsNew
      <4>2. ~(y.age <= Spread(Router))
        BY <1>2, <2>1, <4>1, FarApart
      <4> QED BY <2>1, <3>2, <4>1, <4>2 DEF IsNew, Order
    <3> QED BY <1>6, <3>1, <3>2
  <2>7. Level(w)' = f
    <3>1. \A q \in Router : (IF Holds(q)' THEN Order(w, db'[q]) ELSE 2 * w.seq)
                              = IF Holds(q) THEN Order(w, db[q]) ELSE 2 * w.seq
      BY <1>4, <2>2, <2>6 DEF x, y
    <3> QED BY <3>1 DEF Level
  <2>8. Known(w, f, y)
    <3>1. Known(w, f, x)
      BY <1>5, <1>8 DEF KnownCopies, x
    <3>2. CASE ~IsNew(w, x)
      BY <2>1, <2>6, <3>1, <3>2 DEF Known
    <3>3. CASE IsNew(w, x)
      <4>1. r = o /\ w.refreshed = 0 /\ x.age = 0
        BY <2>4, <2>5, <3>3
      <4>2. Spread(HaveAt(f, Order(w, x))) \in Nat
        BY <1>2, <2>1, OrderType, HaveAtType
      <4>3. y.age <= Slack(w) + Spread(HaveAt(f, Order(w, x)))
        BY <1>2, <2>1, <4>1, <4>2 DEF Slack
      <4> QED BY <2>1, <2>6, <3>1, <4>3 DEF Known
    <3> QED BY <3>2, <3>3
  <2>9. KnownCopies(w)'
    <3>1. \A q \in Router : Holds(q)' => Known(w, f, db'[q])
      BY <1>4, <1>5, <2>2, <2>8 DEF KnownCopies, y
    <3>2. \A q \in Router \ {o} : f[q] >= 2 * w.seq
      BY <1>5 DEF KnownCopies
    <3>3. \A q \in Router \ {o} : Holds(q)' /\ IsNew(w, db'[q]) => q \notin due'
      BY <1>1, <1>4, <1>5, <2>2 DEF KnownCopies
    <3> QED BY <2>7, <3>1, <3>2, <3>3 DEF KnownCopies
  <2>10. OwnCopy(w)'
    <3>1. CASE r = o
      BY <1>1, <1>2, <2>1, <2>2, <2>5, <2>6, <3>1 DEF OwnCopy, y
    <3>2. CASE r # o
      BY <1>1, <1>2, <1>4, <1>5, <2>2, <3>2 DEF OwnCopy
    <3> QED BY <3>1, <3>2
  <2>11. ASSUME w.refreshed = 1 PROVE OldCopies(w)'
    <3>1. r # o /\ OldCopies(w)
      BY <1>5, <2>5, <2>11
    <3>2. \A q \in Router : /\ AgeBefore(q)' = AgeBefore(q)
                            /\ IsNew(w, db'[q]) <=> IsNew(w, db[q])
      BY <1>4, <2>3, <2>6, SameCopy DEF x, y
    <3>3. db'[o] = db[o] /\ o \notin due' /\ \A q \in Router : Holds(q)'
      BY <1>1, <1>2, <1>4, <2>2, <3>1 DEF OldCopies
    <3> QED BY <1>2, <3>1, <3>2, <3>3 DEF OldCopies
  <2> QED BY <1>1, <2>7, <2>9, <2>10, <2>11 DEF Busy
<1> QED BY <1>7, <1>8

(* A copy that is removed is as old as the round.                          *)
LEMMA BusyRemove ==
  ASSUME TypeOK, TimesFarApart, NEW w \in Situations, Busy(w), NEW r \in Router, RemoveLSA(r)
  PROVE  Busy(w)'
<1> DEFINE f == Level(w)
           o == Originator
<1>1. /\ r \in due /\ due' = due \ {r} /\ UNCHANGED <<retrans, upd, chan, changes>>
      /\ Holds(r) /\ db[r].age = MaxAge
      /\ db' = db \/ db' = [db EXCEPT ![r] = NoLSA]
  BY DEF RemoveLSA, Expires, AtMaxAge
<1>2. KnownCopies(w) /\ OwnCopy(w) /\ (w.refreshed = 1 => OldCopies(w))
  BY DEF Busy
<1>3. w.refreshed \in {0, 1} /\ w.seq \in Nat /\ w.least \in Nat /\ o \in Router
  BY SituationType, Times
<1>4. r # o
  <2> SUFFICES ASSUME r = o PROVE FALSE
    OBVIOUS
  <2>1. w.refreshed = 0
    BY <1>1, <1>2, <1>3 DEF OldCopies
  <2> QED BY <1>1, <1>2, <2>1, FarApart DEF OwnCopy
<1>5. ~IsNew(w, db[r])
  BY <1>1, <1>2, <1>4 DEF KnownCopies
<1>6. w.refreshed = 0
  <2> SUFFICES ASSUME w.refreshed = 1 PROVE FALSE
    BY <1>3
  <2>1. db[r].age <= w.least + 3 * Second /\ w.least <= RefreshTime + Second
    BY <1>2, <1>4, <1>5, OldAge DEF OldCopies
  <2> QED BY <1>1, <1>3, <2>1, FarApart
<1>7. db[r] \in Instance /\ f[r] = 2 * w.seq
  <2>1. db[r] \in Instance /\ f[r] = Order(w, db[r])
    BY <1>1, LevelType
  <2>2. db[r].seq = w.seq
    BY <1>1, <1>2, <1>5 DEF KnownCopies, Known
  <2> QED BY <1>6, <2>1, <2>2, OrderType
<1>8. db \in [Router -> Instance \cup {NoLSA}]
  BY TypeSplit
<1>9. /\ \A q \in Router : q # r => db'[q] = db[q] /\ (q \in due' <=> q \in due)
      /\ db'[r] = db[r] \/ ~Holds(r)'
  BY <1>1, <1>8 DEF Holds
<1>10. Level(w)' = f
  <2>1. \A q \in Router : (IF Holds(q)' THEN Order(w, db'[q]) ELSE 2 * w.seq)
                            = IF Holds(q) THEN Order(w, db[q]) ELSE 2 * w.seq
    <3> SUFFICES ASSUME NEW q \in Router
                 PROVE  (IF Holds(q)' THEN Order(w, db'[q]) ELSE 2 * w.seq)
                          = IF Holds(q) THEN Order(w, db[q]) ELSE 2 * w.seq
      OBVIOUS
    <3>1. CASE q # r
      BY <1>9, <3>1, SameCopy
    <3>2. CASE q = r
      <4>1. Order(w, db[r]) = 2 * w.seq
        BY <1>1, <1>7, LevelType
      <4> QED BY <1>1, <1>9, <3>2, <4>1, SameCopy
    <3> QED BY <3>1, <3>2
  <2> QED BY <2>1 DEF Level
<1>11. \A q \in Router : Holds(q)' => Holds(q) /\ db'[q] = db[q]
  BY <1>1, <1>9, SameCopy
<1>12. KnownCopies(w)'
  <2>1. \A q \in Router : Holds(q)' => Known(w, f, db'[q])
    BY <1>2, <1>11 DEF KnownCopies
  <2>2. \A q \in Router \ {o} : f[q] >= 2 * w.seq
    BY <1>2 DEF KnownCopies
  <2>3. \A q \in Router \ {o} : Holds(q)' /\ IsNew(w, db'[q]) => q \notin due'
    BY <1>1, <1>2, <1>11 DEF KnownCopies
  <2> QED BY <1>10, <2>1, <2>2, <2>3 DEF KnownCopies
<1>13. OwnCopy(w)'
  <2>1. db'[o] = db[o] /\ Holds(o)' /\ (o \in due' <=> o \in due)
    BY <1>2, <1>3, <1>4, <1>9, SameCopy DEF OwnCopy
  <2> QED BY <1>2, <2>1 DEF OwnCopy
<1> QED BY <1>1, <1>6, <1>10, <1>12, <1>13 DEF Busy

LEMMA BusyNotRefreshed ==
  ASSUME TimesFarApart, NEW w \in Situations, Busy(w), NEW r \in Router
  PROVE  ~RefreshLSA(r)
<1> SUFFICES ASSUME RefreshLSA(r) PROVE FALSE
  OBVIOUS
<1>1. r = Originator /\ r \in due /\ db[r].age = RefreshTime
  BY DEF RefreshLSA, RefreshDue, Expires
<1>2. w.refreshed = 0
  BY <1>1, SituationType DEF Busy, OldCopies
<1>3. db[Originator].age = 0
  BY <1>1, <1>2 DEF Busy, OwnCopy
<1> QED BY <1>1, <1>3, FarApart

-----------------------------------------------------------------------------
(* A change of the links in such a round.                                  *)

(* What the originator has just made, and what it sends of it.             *)
LEMMA MadeSent ==
  ASSUME TimesFarApart, NEW w \in Situations, NEW f \in Levels, NEW ls \in Instance,
         ls.age = 0, IsNew(w, ls), ls.links = w.links[Order(w, ls)],
         f[Originator] = Order(w, ls)
  PROVE  /\ Known(w, f, ls)
         /\ Order(w, [ls EXCEPT !.age = @ + Delay]) = Order(w, ls)
         /\ Sent(w, f, Originator, [ls EXCEPT !.age = @ + Delay])
<1> DEFINE y == [ls EXCEPT !.age = @ + Delay]
           k == Order(w, ls)
<1>1. k \in Nat /\ Originator \in Router /\ Slack(w) \in Nat
  BY OrderType, Times, FarApart DEF Slack
<1>2. Spread(HaveAt(f, k)) \in Nat /\ Delay <= Spread(HaveAt(f, k))
  BY <1>1, HaveAtType DEF Levels
<1>3. Known(w, f, ls)
  BY <1>1, <1>2 DEF Known
<1>4. y \in Instance /\ y.age = ls.age + Delay /\ y.seq = ls.seq /\ y.links = ls.links
  BY InstanceType, FarApart DEF Instance
<1> HIDE DEF y
<1>5. Order(w, y) = k /\ IsNew(w, y)
  BY <1>4, FarApart DEF Order, IsNew
<1> HIDE DEF k
<1>6. Known(w, f, y)
  <2>1. y.age <= Slack(w) + Spread(HaveAt(f, k))
    BY <1>1, <1>2, <1>4, FarApart
  <2> QED BY <1>1, <1>4, <1>5, <2>1 DEF Known, k
<1>7. Sent(w, f, Originator, y)
  BY <1>1, <1>5, <1>6 DEF Sent, k
<1> QED BY <1>3, <1>5, <1>7 DEF y, k

(* The same situation with other links.                                    *)
LEMMA OtherLinks ==
  ASSUME NEW w \in Situations, NEW k \in Nat, NEW c \in Nat, NEW v,
         v = [w EXCEPT !.links = [@ EXCEPT ![k] = c]]
  PROVE  /\ v \in Situations /\ v.links[k] = c
         /\ \A n \in Nat \ {k} : v.links[n] = w.links[n]
         /\ v.refreshed = w.refreshed /\ v.seq = w.seq /\ v.least = w.least
         /\ \A x : Order(v, x) = Order(w, x) /\ (IsNew(v, x) <=> IsNew(w, x))
<1>1. /\ v \in Situations /\ v.links[k] = c
      /\ \A n \in Nat \ {k} : v.links[n] = w.links[n]
      /\ v.refreshed = w.refreshed /\ v.seq = w.seq /\ v.least = w.least
  BY DEF Situations
<1>2. \A x : Order(v, x) = Order(w, x) /\ (IsNew(v, x) <=> IsNew(w, x))
  BY <1>1 DEF Order, IsNew
<1> QED BY <1>1, <1>2

LEMMA OtherLinksSent ==
  ASSUME NEW w \in Situations, NEW k \in Nat, NEW c \in Nat, NEW v,
         v = [w EXCEPT !.links = [@ EXCEPT ![k] = c]],
         NEW f \in Levels, NEW x \in Instance, Order(w, x) # k, Known(w, f, x)
  PROVE  /\ Known(v, f, x)
         /\ \A a : Sent(w, f, a, x) => Sent(v, f, a, x)
<1>1. /\ \A n \in Nat \ {k} : v.links[n] = w.links[n]
      /\ v.refreshed = w.refreshed /\ v.seq = w.seq /\ v.least = w.least
      /\ Order(v, x) = Order(w, x) /\ (IsNew(v, x) <=> IsNew(w, x))
  BY OtherLinks
<1>2. Order(w, x) \in Nat /\ Slack(v) = Slack(w) /\ LatestAge(v, f) = LatestAge(w, f)
  BY <1>1, OrderType DEF Slack, LatestAge
<1>3. Known(v, f, x)
  BY <1>1, <1>2 DEF Known
<1>4. \A a : Sent(w, f, a, x) => Sent(v, f, a, x)
  BY <1>1, <1>2, <1>3 DEF Sent
<1> QED BY <1>3, <1>4

LEMMA BusyChange ==
  ASSUME TypeOK, TimesFarApart, NEW w \in Situations, Busy(w), LinkStateChanged
  PROVE  \E v \in Situations : Busy(v)'
<1> DEFINE o == Originator
<1> SUFFICES ASSUME NEW f, f = Level(w), NEW ls, ls = Changed(db[o]),
                    NEW k, k = Order(w, ls), NEW g, g = [f EXCEPT ![o] = k],
                    NEW v, v = [w EXCEPT !.links = [@ EXCEPT ![k] = changes + 1]]
             PROVE  v \in Situations /\ Busy(v)'
  OBVIOUS
<1>1. /\ Holds(o) /\ db' = [db EXCEPT ![o] = Changed(@)] /\ UNCHANGED <<timer, due>>
      /\ Transmit(chan, retrans, upd, Flood(o, ls, o), o)
  BY DEF LinkStateChanged
<1>2. /\ f \in Levels /\ o \in Router /\ db[o] \in Instance /\ f[o] = Order(w, db[o])
      /\ changes \in Nat /\ chan \in Links /\ IsStore(upd)
      /\ db \in [Router -> Instance \cup {NoLSA}]
  BY <1>1, LevelType, Times, TypeSplit
<1>3. /\ ls \in Instance /\ ls.seq = db[o].seq + 1 /\ ls.age = 0 /\ ls.links = changes + 1
      /\ db[o].seq \in Nat
  BY <1>2, InstanceType, ChangedType
<1>4. /\ KnownCopies(w) /\ OwnCopy(w) /\ (w.refreshed = 1 => OldCopies(w))
      /\ SentOnLinks(w, f, chan) /\ SentFromStore(w, f, upd) /\ Reaches(w, f, chan)
  BY DEF Busy
<1>5. w.refreshed \in {0, 1} /\ w.seq \in Nat
  BY SituationType
<1>6. db'[o] = ls /\ \A r \in Router : r # o => db'[r] = db[r]
  BY <1>1, <1>2
<1>7. IsNew(w, ls) /\ k \in Nat /\ k > f[o] /\ (w.refreshed = 0 => k > 2 * w.seq)
  <2>1. /\ k = 2 * ls.seq + w.refreshed /\ IsNew(w, ls)
        /\ (w.refreshed = 0 => ls.seq > w.seq + 1)
    <3>1. CASE w.refreshed = 0
      <4>1. IsNew(w, db[o])
        BY <1>4, <3>1 DEF OwnCopy
      <4> QED BY <1>3, <1>5, <3>1, <4>1 DEF Order, IsNew
    <3>2. CASE w.refreshed = 1
      BY <1>3, <1>5, <3>2, FarApart DEF Order, IsNew
    <3> QED BY <1>5, <3>1, <3>2
  <2>2. f[o] <= 2 * db[o].seq + 1 /\ f[o] \in Nat
    BY <1>2, <1>3, OrderType
  <2> QED BY <1>3, <1>5, <2>1, <2>2
<1>8. /\ g \in Levels /\ g[o] = k
      /\ \A r \in Router : f[r] <= g[r]
      /\ \A r \in Router : r # o => g[r] = f[r]
  <2>1. \A r \in Router : f[r] \in Nat
    BY <1>2 DEF Levels
  <2> QED BY <1>2, <1>7, <2>1 DEF Levels
<1>9. \A x \in Instance : Known(w, f, x) => Order(w, x) # k
  <2> SUFFICES ASSUME NEW x \in Instance, Known(w, f, x), Order(w, x) = k PROVE FALSE
    OBVIOUS
  <2>1. f[o] \in Nat
    BY <1>2 DEF Levels
  <2>2. ~IsNew(w, x)
    BY <1>7, <2>1 DEF Known
  <2>3. x.seq = w.seq
    BY <2>2 DEF Known
  <2>4. w.refreshed = 1
    BY <1>5, <1>7, <2>3, OrderType
  <2>5. k = 2 * x.seq /\ k = 2 * ls.seq + 1
    BY <1>3, <1>7, <2>2, <2>4, OrderType
  <2> QED BY <1>3, <2>5, InstanceType
<1>10. /\ v \in Situations /\ v.links[k] = changes + 1
       /\ v.refreshed = w.refreshed /\ v.seq = w.seq /\ v.least = w.least
       /\ \A x : Order(v, x) = Order(w, x) /\ (IsNew(v, x) <=> IsNew(w, x))
  <2>1. changes + 1 \in Nat
    BY <1>2
  <2> QED BY <1>7, <2>1, OtherLinks
<1>11. ASSUME NEW x \in Instance, Known(w, f, x)
       PROVE  Known(v, g, x) /\ \A a \in Router : Sent(w, f, a, x) => Sent(v, g, a, x)
  <2>1. Order(w, x) # k /\ changes + 1 \in Nat
    BY <1>2, <1>9, <1>11
  <2>2. Known(w, g, x) /\ \A a \in Router : Sent(w, f, a, x) => Sent(w, g, a, x)
    BY <1>2, <1>8, <1>11, KnownGrows
  <2>3. Known(v, g, x) /\ \A a : Sent(w, g, a, x) => Sent(v, g, a, x)
    <3>1. /\ w \in Situations /\ k \in Nat /\ g \in Levels /\ x \in Instance
          /\ v = [w EXCEPT !.links = [@ EXCEPT ![k] = changes + 1]]
      BY <1>7, <1>8
    <3> QED BY ONLY <2>1, <2>2, <3>1, OtherLinksSent, SMTT(30)
  <2> QED BY <2>2, <2>3
<1>12. /\ Known(v, g, ls)
       /\ Order(v, [ls EXCEPT !.age = @ + Delay]) = k
       /\ Sent(v, g, o, [ls EXCEPT !.age = @ + Delay])
  <2>1. /\ Order(v, ls) = k /\ IsNew(v, ls) /\ ls.links = v.links[Order(v, ls)]
        /\ v \in Situations /\ g \in Levels /\ g[Originator] = Order(v, ls)
        /\ ls \in Instance /\ ls.age = 0
    BY <1>3, <1>7, <1>8, <1>10
  <2>2. /\ Known(v, g, ls)
        /\ Order(v, [ls EXCEPT !.age = @ + Delay]) = Order(v, ls)
        /\ Sent(v, g, Originator, [ls EXCEPT !.age = @ + Delay])
    BY <2>1, MadeSent, ZenonT(60)
  <2> QED BY <2>1, <2>2
<1>13. SentOnLinks(v, g, chan)
  <2> SUFFICES ASSUME NEW e \in Adjacent, NEW m \in Updates(chan[e])
               PROVE  Sent(v, g, e[1], m.lsa)
    BY DEF SentOnLinks
  <2>1. m.lsa \in Instance /\ e[1] \in Router
    <3>1. chan[e] \in Seq(Message)
      BY <1>2 DEF Links
    <3> QED BY <3>1, UpdatesType, LinkType
  <2>2. Sent(w, f, e[1], m.lsa)
    BY <1>4 DEF SentOnLinks
  <2> QED BY <1>11, <2>1, <2>2 DEF Sent
<1>14. SentFromStore(v, g, upd)
  <2> SUFFICES ASSUME NEW e \in Adjacent, NEW i \in DOMAIN upd[e]
               PROVE  Sent(v, g, e[1], upd[e][i])
    BY DEF SentFromStore
  <2>1. upd[e][i] \in Instance /\ e[1] \in Router
    BY <1>2, LinkType DEF IsStore
  <2>2. Sent(w, f, e[1], upd[e][i])
    BY <1>4 DEF SentFromStore
  <2> QED BY <1>11, <2>1, <2>2 DEF Sent
<1>15. /\ SentOnLinks(v, g, Flood(o, ls, o))
       /\ \A e \in Adjacent : e[1] = o => HasOrder(v, Flood(o, ls, o)[e], k)
       /\ Flood(o, ls, o) \in Sending
  <2>1. /\ SentOnLinks(v, g, Flood(o, ls, o))
        /\ \A e \in Adjacent : e[1] = o /\ e[2] # o => HasOrder(v, Flood(o, ls, o)[e], k)
    BY <1>3, <1>12, FloodSent
  <2> QED BY <1>3, <2>1, LinkType, FloodType
<1>16. /\ SentOnLinks(v, g, chan') /\ SentFromStore(v, g, upd')
       /\ \A e \in Adjacent : Updates(chan'[e]) = Updates(chan[e]) \cup Updates(Flood(o, ls, o)[e])
  <2>1. Transmit(chan, retrans, upd, Flood(o, ls, o), o)
    BY <1>1
  <2>2. /\ chan \in Links /\ Flood(o, ls, o) \in Sending
        /\ SentOnLinks(v, g, chan) /\ SentFromStore(v, g, upd)
        /\ SentOnLinks(v, g, Flood(o, ls, o))
    BY <1>2, <1>13, <1>14, <1>15
  <2> QED BY ONLY <2>1, <2>2, TransmitSent
<1>17. Level(v)' = g
  <2>1. Holds(o)' /\ \A r \in Router : r # o => Holds(r)' = Holds(r)
    BY <1>3, <1>6, SameCopy, InstanceType DEF Holds
  <2>2. \A r \in Router : (IF Holds(r)' THEN Order(v, db'[r]) ELSE 2 * v.seq) = g[r]
    <3> SUFFICES ASSUME NEW r \in Router
                 PROVE  (IF Holds(r)' THEN Order(v, db'[r]) ELSE 2 * v.seq) = g[r]
      OBVIOUS
    <3>1. CASE r = o
      BY <1>6, <1>8, <1>10, <2>1, <3>1
    <3>2. CASE r # o
      <4>1. f[r] = IF Holds(r) THEN Order(w, db[r]) ELSE 2 * w.seq
        BY LevelType
      <4> QED BY <1>6, <1>8, <1>10, <2>1, <3>2, <4>1
    <3> QED BY <3>1, <3>2
  <2>3. Level(v)' = [r \in Router |-> g[r]]
    BY <2>2, LevelAfter
  <2> QED BY <1>8, <2>3 DEF Levels
<1>18. KnownCopies(v)'
  <2>1. ASSUME NEW r \in Router, Holds(r)' PROVE Known(v, g, db'[r])
    <3>1. CASE r = o
      BY <1>6, <1>12, <3>1
    <3>2. CASE r # o
      <4>1. db'[r] = db[r] /\ Holds(r)
        BY <1>6, <2>1, <3>2, SameCopy
      <4>2. db[r] \in Instance /\ Known(w, f, db[r])
        BY <1>4, <4>1, LevelType DEF KnownCopies
      <4> QED BY <1>11, <4>1, <4>2
    <3> QED BY <3>1, <3>2
  <2>2. \A r \in Router \ {o} : /\ g[r] >= 2 * v.seq
                                /\ Holds(r)' /\ IsNew(v, db'[r]) => r \notin due'
    BY <1>1, <1>4, <1>6, <1>8, <1>10, SameCopy DEF KnownCopies
  <2> QED BY <1>17, <2>1, <2>2 DEF KnownCopies
<1>19. OwnCopy(v)'
  BY <1>3, <1>6, <1>7, <1>10, InstanceType DEF OwnCopy, Holds
<1>20. ASSUME v.refreshed = 1 PROVE OldCopies(v)'
  <2>1. OldCopies(w)
    BY <1>4, <1>10, <1>20
  <2>2. Holds(o)' /\ \A r \in Router : r # o => Holds(r)' = Holds(r) /\ AgeBefore(r)' = AgeBefore(r)
    BY <1>1, <1>3, <1>6, SameCopy, InstanceType DEF Holds
  <2>3. o \notin due' /\ \A r \in Router : Holds(r)'
    BY <1>1, <2>1, <2>2 DEF OldCopies
  <2>4. IsNew(v, db'[o])
    BY <1>6, <1>7, <1>10
  <2>5. \A r \in Router \ {o} : ~IsNew(v, db'[r]) =>
          v.least <= AgeBefore(r)' /\ AgeBefore(r)' <= v.least + 2 * Second
    BY <1>6, <1>10, <2>1, <2>2 DEF OldCopies
  <2>6. RefreshTime <= v.least + 3 * Second /\ v.least <= RefreshTime + Second
    BY <1>10, <2>1 DEF OldCopies
  <2> QED BY <2>3, <2>4, <2>5, <2>6 DEF OldCopies
<1>21. Reaches(v, g, chan')
  <2> SUFFICES ASSUME NEW e \in Adjacent, g[e[1]] > g[e[2]]
               PROVE  \/ HasOrder(v, chan'[e], g[e[1]])
                      \/ e[2] = o /\ HasOlder(chan'[<<e[2], e[1]>>], g[e[1]])
    BY DEF Reaches
  <2>1. /\ e[1] \in Router /\ e[2] \in Router /\ e[1] # e[2] /\ <<e[2], e[1]>> \in Adjacent
    BY LinkType
  <2>2. CASE e[1] = o
    <3>1. HasOrder(v, Flood(o, ls, o)[e], k)
      BY <1>15, <2>2
    <3>2. PICK m \in Updates(Flood(o, ls, o)[e]) : Order(v, m.lsa) = k
      BY <3>1 DEF HasOrder
    <3>3. m \in Updates(chan'[e]) /\ g[e[1]] = k
      BY <1>8, <1>16, <2>2
    <3>4. HasOrder(v, chan'[e], g[e[1]])
      BY <3>2, <3>3 DEF HasOrder
    <3> QED BY <3>4
  <2>3. CASE e[1] # o
    <3>1. g[e[1]] = f[e[1]] /\ f[e[1]] > f[e[2]]
      <4>1. g[e[1]] = f[e[1]] /\ f[e[2]] <= g[e[2]]
        BY <1>8, <2>1, <2>3
      <4>2. f[e[1]] \in Nat /\ f[e[2]] \in Nat /\ g[e[2]] \in Nat
        BY <1>2, <1>8, <2>1 DEF Levels
      <4> QED BY <4>1, <4>2
    <3>2. \/ HasOrder(w, chan[e], f[e[1]])
          \/ e[2] = o /\ HasOlder(chan[<<e[2], e[1]>>], f[e[1]])
      BY <1>4, <3>1 DEF Reaches
    <3>3. HasOrder(w, chan[e], f[e[1]]) => HasOrder(v, chan'[e], f[e[1]])
      BY <1>10, <1>16 DEF HasOrder
    <3>4. HasOlder(chan[<<e[2], e[1]>>], f[e[1]]) => HasOlder(chan'[<<e[2], e[1]>>], f[e[1]])
      BY <1>16, <2>1 DEF HasOlder
    <3> QED BY <3>1, <3>2, <3>3, <3>4
  <2> QED BY <2>2, <2>3
<1> QED
  <2>1. Busy(v)'
    BY <1>16, <1>17, <1>18, <1>19, <1>20, <1>21 DEF Busy
  <2> QED BY <1>10, <2>1

-----------------------------------------------------------------------------
(* The packets in such a round.                                            *)

(* A router floods an update further, and so ages it, only if the          *)
(* instance is new; the originator may go back to an old one.              *)
LEMMA AgedSent ==
  ASSUME TypeOK, TimesFarApart, NEW w \in Situations, Busy(w), NEW s \in Router,
         NEW r \in Router, NEW x \in Instance, Sent(w, Level(w), s, x),
         Order(w, x) > Level(w)[r], NEW g \in Levels,
         \A q \in Router : g[q] = IF q = r THEN Order(w, x) ELSE Level(w)[q],
         NEW y \in Instance, y.seq = x.seq, y.links = x.links,
         x.age <= y.age, y.age <= x.age + Delay
  PROVE  /\ Order(w, y) = Order(w, x)
         /\ IsNew(w, y) <=> r # Originator
         /\ r = Originator => w.refreshed = 1
         /\ Known(w, g, y) /\ Sent(w, g, s, y) /\ Sent(w, g, r, y)
<1> DEFINE o == Originator
           f == Level(w)
           k == Order(w, x)
<1>1. /\ f \in Levels /\ o \in Router /\ k \in Nat /\ x.age \in Nat /\ x.seq \in Nat
      /\ \A q \in Router : f[q] \in Nat
  BY LevelType, Times, OrderType, InstanceType DEF Levels
<1>2. /\ KnownCopies(w) /\ Known(w, f, x) /\ k <= f[s]
      /\ ~IsNew(w, x) => w.refreshed = 1 /\ w.least <= x.age /\ x.age <= LatestAge(w, f)
      /\ w.refreshed = 1 => OldCopies(w)
  BY DEF Busy, Sent
<1>3. w.refreshed \in {0, 1} /\ w.seq \in Nat /\ w.least \in Nat
  BY SituationType
<1>4. \A q \in Router : g[q] = IF q = r THEN k ELSE f[q]
  OBVIOUS
<1>5. \A q \in Router : f[q] <= g[q]
  BY <1>1, <1>4
<1>6. s # r
  BY <1>1, <1>2
<1>7. y.seq = x.seq /\ y.links = x.links /\ y.age \in Nat
      /\ x.age <= y.age /\ y.age <= x.age + Delay
  BY InstanceType
<1>8. IsNew(w, x) <=> r # o
  <2>1. ASSUME IsNew(w, x), r = o PROVE FALSE
    BY <1>1, <1>2, <2>1 DEF Known
  <2>2. ASSUME ~IsNew(w, x), r # o PROVE FALSE
    <3>1. k = 2 * w.seq
      BY <1>2, <2>2, OrderType DEF Known
    <3>2. f[r] >= 2 * w.seq
      BY <1>2, <2>2 DEF KnownCopies
    <3> QED BY <1>1, <1>3, <3>1, <3>2
  <2> QED BY <2>1, <2>2
<1> HIDE DEF f, k
<1>9. /\ Spread(HaveAt(f, k)) + Delay <= Spread(HaveAt(g, k))
      /\ Spread(HaveAt(f, k)) \in Nat /\ Spread(HaveAt(g, k)) \in Nat
      /\ Spread(HaveAt(g, k)) <= Spread(Router)
  <2>1. f[r] < k /\ g[r] >= k
    BY <1>1, <1>4 DEF f, k
  <2> QED BY <1>1, <1>4, <1>5, <2>1, HaveAtGrows, HaveAtType
<1>10. CASE IsNew(w, x)
  <2>1. /\ x.links = w.links[k] /\ k <= f[o] /\ x.age <= Slack(w) + Spread(HaveAt(f, k))
    BY <1>2, <1>10 DEF Known, k
  <2>2. Slack(w) \in Nat
    BY FarApart DEF Slack
  <2>3. y.age <= Slack(w) + Spread(HaveAt(g, k))
    BY <1>1, <1>7, <1>9, <2>1, <2>2, FarApart
  <2>4. IsNew(w, y) /\ Order(w, y) = k
    <3>1. CASE w.refreshed = 0
      BY <1>7, <1>10, <3>1 DEF IsNew, Order, k
    <3>2. CASE w.refreshed = 1
      <4>1. y.age <= Spread(Router)
        BY <1>7, <1>9, <2>3, <3>2, FarApart DEF Slack
      <4> QED BY <1>7, <1>10, <3>2, <4>1 DEF IsNew, Order, k
    <3> QED BY <1>3, <3>1, <3>2
  <2>5. Known(w, g, y)
    <3>1. k <= g[o]
      BY <1>1, <1>4, <1>5, <2>1
    <3> QED BY <1>7, <2>1, <2>3, <2>4, <3>1 DEF Known, k
  <2>6. k <= g[s] /\ k <= g[r]
    BY <1>1, <1>2, <1>4, <1>6
  <2>7. Sent(w, g, s, y) /\ Sent(w, g, r, y)
    BY <2>4, <2>5, <2>6 DEF Sent
  <2> QED BY <1>4, <1>7, <1>8, <1>10, <2>4, <2>5, <2>7 DEF k
<1>11. CASE ~IsNew(w, x)
  <2>1. w.refreshed = 1 /\ r = o /\ w.least <= x.age /\ x.age <= LatestAge(w, f)
    BY <1>2, <1>8, <1>11
  <2>2. x.links = w.links[k] /\ x.seq = w.seq /\ k = 2 * w.seq
    <3>1. x.links = w.links[k] /\ x.seq = w.seq
      BY <1>2, <1>11 DEF Known, k
    <3> QED BY <1>11, <2>1, <3>1, OrderType DEF k
  <2>3. ~(x.age <= Spread(Router)) /\ ~(y.age <= Spread(Router))
    <3>1. ~(x.age <= Spread(Router))
      BY <1>11, <2>1 DEF IsNew
    <3> QED BY <1>1, <1>7, <3>1, FarApart
  <2>4. ~IsNew(w, y) /\ Order(w, y) = k
    BY <1>7, <2>1, <2>3 DEF IsNew, Order, k
  <2>5. Known(w, g, y)
    BY <1>7, <2>2, <2>4 DEF Known
  <2>6. k <= g[s] /\ k <= g[r]
    BY <1>1, <1>2, <1>4, <1>6
  <2>7. w.least <= y.age /\ y.age <= LatestAge(w, g)
    <3>1. LatestAge(w, f) = w.least + 3 * Second
      <4>1. f[o] < 2 * w.seq
        BY <2>1, <2>2 DEF f, k
      <4> QED BY <1>3, <4>1, FarApart DEF LatestAge
    <3>2. LatestAge(w, g) = w.least + 3 * Second + Delay
      <4>1. ~(g[o] < 2 * w.seq)
        BY <1>3, <1>4, <2>1, <2>2
      <4> QED BY <4>1 DEF LatestAge
    <3> QED BY <1>1, <1>3, <1>7, <2>1, <3>1, <3>2, FarApart
  <2>8. Sent(w, g, s, y) /\ Sent(w, g, r, y)
    BY <2>1, <2>4, <2>5, <2>6, <2>7 DEF Sent
  <2> QED BY <1>4, <1>7, <1>8, <1>11, <2>1, <2>4, <2>5, <2>8 DEF k
<1> QED BY <1>10, <1>11

LEMMA BusyInstall ==
  ASSUME TypeOK, TimesFarApart, NEW w \in Situations, Busy(w), NEW s, NEW r, InstallLSA(s, r)
  PROVE  Busy(w)'
<1> DEFINE o == Originator
           h == <<s, r>>
<1> SUFFICES ASSUME NEW f, f = Level(w), NEW ls, ls = Head(chan[h]).lsa,
                    NEW k, k = Order(w, ls), NEW g, g = [f EXCEPT ![r] = k],
                    NEW y, y = Aged(s, r, ls), NEW sent,
                    sent = [Flood(r, ls, s) EXCEPT ![<<r, s>>] = <<Ack>>]
             PROVE  Busy(w)'
  OBVIOUS
<1>1. /\ Arrives(s, r, "update") /\ Lookup(r, ls) \in {"NO_EXIST", "NEWER"}
      /\ db' = [db EXCEPT ![r] = y] /\ due' = due \ {r}
      /\ Transmit(AgedOnLink(s, r, ls), retrans, AgedInStore(s, r, ls), sent, o)
  BY DEF InstallLSA, CreateLSA
<1>2. /\ s \in Router /\ r \in Router /\ s # r /\ <<r, s>> \in Adjacent /\ h \in Adjacent
      /\ ls \in Instance /\ AgedOnLink(s, r, ls) \in Links /\ IsStore(AgedInStore(s, r, ls))
  BY <1>1, ArrivalType, LinkEnds, AgedType
<1>3. /\ f \in Levels /\ o \in Router /\ k \in Nat /\ \A q \in Router : f[q] \in Nat
      /\ db \in [Router -> Instance \cup {NoLSA}] /\ chan \in Links /\ IsStore(upd)
  BY <1>2, LevelType, Times, OrderType, TypeSplit DEF Levels
<1>4. /\ KnownCopies(w) /\ OwnCopy(w) /\ (w.refreshed = 1 => OldCopies(w))
      /\ SentOnLinks(w, f, chan) /\ SentFromStore(w, f, upd) /\ Reaches(w, f, chan)
  BY DEF Busy
<1>5. Sent(w, f, s, ls) /\ k <= f[s]
  <2>1. Head(chan[h]) \in Updates(chan[h])
    BY <1>1, ReceivedIn
  <2>2. Sent(w, f, h[1], Head(chan[h]).lsa)
    BY <1>2, <1>4, <2>1 DEF SentOnLinks
  <2> QED BY <2>2 DEF Sent
<1>6. k > f[r]
  <2> SUFFICES ASSUME k <= f[r] PROVE FALSE
    BY <1>2, <1>3
  <2>1. Lookup(r, ls) \in {"EQUALS", "OLDER"}
    BY <1>2, <1>5, LookupOrder
  <2> QED BY <1>1, <2>1
<1> DEFINE z == [ls EXCEPT !.age = @ + Delay]
<1>7. /\ g \in Levels
      /\ \A q \in Router : g[q] = IF q = r THEN k ELSE f[q]
      /\ \A q \in Router : f[q] <= g[q] /\ g[q] \in Nat
  BY <1>2, <1>3, <1>6 DEF Levels
<1>8. ASSUME NEW x, x = ls \/ x = z
      PROVE  /\ x \in Instance /\ Order(w, x) = k
             /\ IsNew(w, x) <=> r # o
             /\ r = o => w.refreshed = 1
             /\ Known(w, g, x) /\ Sent(w, g, s, x) /\ Sent(w, g, r, x)
  <2>1. /\ x \in Instance /\ x.seq = ls.seq /\ x.links = ls.links
        /\ ls.age <= x.age /\ x.age <= ls.age + Delay
    BY <1>2, <1>8, InstanceType, FarApart DEF Instance
  <2>2. /\ s \in Router /\ r \in Router /\ ls \in Instance
        /\ Sent(w, Level(w), s, ls) /\ Order(w, ls) > Level(w)[r]
        /\ \A q \in Router : g[q] = IF q = r THEN Order(w, ls) ELSE Level(w)[q]
    BY <1>2, <1>5, <1>6, <1>7
  <2>3. /\ Order(w, x) = Order(w, ls)
        /\ IsNew(w, x) <=> r # Originator
        /\ r = Originator => w.refreshed = 1
        /\ Known(w, g, x) /\ Sent(w, g, s, x) /\ Sent(w, g, r, x)
    BY ONLY <1>7, <2>1, <2>2, AgedSent, TypeOK, TimesFarApart, w \in Situations, Busy(w)
  <2> QED BY <2>1, <2>3
<1>9. y = ls \/ y = z
  BY DEF Aged
<1>10. /\ y \in Instance /\ Order(w, y) = k
       /\ IsNew(w, y) <=> r # o
       /\ r = o => w.refreshed = 1
       /\ Known(w, g, y) /\ Sent(w, g, s, y) /\ Sent(w, g, r, y)
       /\ z \in Instance /\ Order(w, z) = k /\ Sent(w, g, r, z)
  BY <1>8, <1>9
<1> HIDE DEF z
<1>11. SentOnLinks(w, g, chan) /\ SentFromStore(w, g, upd)
  BY ONLY <1>3, <1>4, <1>10, <1>7, AllSentGrow, w \in Situations
<1>12. /\ \A e \in Adjacent : \A m \in Updates(AgedOnLink(s, r, ls)[e]) :
            m \in Updates(chan[e]) \/ (e = h /\ m.lsa = y)
       /\ \A e \in Adjacent : \A m \in Updates(chan[e]) :
            m \in Updates(AgedOnLink(s, r, ls)[e]) \/ (e = h /\ m.lsa = ls)
       /\ \A e \in Adjacent : \A i \in DOMAIN AgedInStore(s, r, ls)[e] :
            i \in DOMAIN upd[e] /\
            \/ AgedInStore(s, r, ls)[e][i] = upd[e][i]
            \/ e = h /\ AgedInStore(s, r, ls)[e][i] = y
  <2>1. TypeOK /\ Arrives(s, r, "update") /\ ls = Head(chan[<<s, r>>]).lsa
    BY <1>1
  <2>2. \A e \in Adjacent : \A m \in Updates(AgedOnLink(s, r, ls)[e]) :
          m \in Updates(chan[e]) \/ (e = <<s, r>> /\ m.lsa = Aged(s, r, ls))
    BY ONLY <2>1, AgedIn
  <2>3. \A e \in Adjacent : \A m \in Updates(chan[e]) :
          m \in Updates(AgedOnLink(s, r, ls)[e]) \/ (e = <<s, r>> /\ m.lsa = ls)
    BY ONLY <2>1, AgedIn
  <2>4. \A e \in Adjacent : \A i \in DOMAIN AgedInStore(s, r, ls)[e] :
          i \in DOMAIN upd[e] /\
          \/ AgedInStore(s, r, ls)[e][i] = upd[e][i]
          \/ e = <<s, r>> /\ AgedInStore(s, r, ls)[e][i] = Aged(s, r, ls)
    BY ONLY <2>1, AgedIn
  <2> QED BY <2>2, <2>3, <2>4
<1>13. SentOnLinks(w, g, AgedOnLink(s, r, ls))
  <2> SUFFICES ASSUME NEW e \in Adjacent, NEW m \in Updates(AgedOnLink(s, r, ls)[e])
               PROVE  Sent(w, g, e[1], m.lsa)
    BY DEF SentOnLinks
  <2>1. CASE m \in Updates(chan[e])
    BY <1>11, <2>1 DEF SentOnLinks
  <2>2. CASE e = h /\ m.lsa = y
    BY <1>10, <2>2
  <2> QED BY <1>12, <2>1, <2>2
<1>14. SentFromStore(w, g, AgedInStore(s, r, ls))
  <2> SUFFICES ASSUME NEW e \in Adjacent, NEW i \in DOMAIN AgedInStore(s, r, ls)[e]
               PROVE  Sent(w, g, e[1], AgedInStore(s, r, ls)[e][i])
    BY DEF SentFromStore
  <2>1. CASE i \in DOMAIN upd[e] /\ AgedInStore(s, r, ls)[e][i] = upd[e][i]
    BY <1>11, <2>1 DEF SentFromStore
  <2>2. CASE e = h /\ AgedInStore(s, r, ls)[e][i] = y
    BY <1>10, <2>2
  <2> QED BY <1>12, <2>1, <2>2
<1>15. /\ SentOnLinks(w, g, sent) /\ sent \in Sending
       /\ \A e \in Adjacent : e[1] = r /\ e[2] # s => HasOrder(w, sent[e], k)
  <2>1. /\ SentOnLinks(w, g, sent) /\ sent \in Sending
        /\ \A e \in Adjacent : e[1] = r /\ e[2] # s => HasOrder(w, Flood(r, ls, s)[e], k)
    BY <1>2, <1>10, FloodSent, FloodType DEF z
  <2>2. \A e \in Adjacent : e[2] # s => sent[e] = Flood(r, ls, s)[e]
    BY DEF Flood
  <2> QED BY <2>1, <2>2
<1>16. /\ SentOnLinks(w, g, chan') /\ SentFromStore(w, g, upd')
       /\ \A e \in Adjacent :
            Updates(chan'[e]) = Updates(AgedOnLink(s, r, ls)[e]) \cup Updates(sent[e])
  BY ONLY <1>1, <1>2, <1>13, <1>14, <1>15, TransmitSent, ZenonT(60)
<1>17. /\ db'[r] = y /\ \A q \in Router : q # r => db'[q] = db[q]
       /\ y # NoLSA
  BY <1>1, <1>2, <1>3, <1>10, InstanceType
<1>18. /\ Holds(r)' /\ r \notin due'
       /\ \A q \in Router : q # r => Holds(q)' = Holds(q) /\ (q \in due' <=> q \in due)
  BY <1>1, <1>17, SameCopy DEF Holds
<1>19. Level(w)' = g
  <2>1. ASSUME NEW q \in Router
        PROVE  (IF Holds(q)' THEN Order(w, db'[q]) ELSE 2 * w.seq) = g[q]
    <3>1. CASE q = r
      BY <1>10, <1>7, <1>17, <1>18, <3>1
    <3>2. CASE q # r
      <4>1. f[q] = IF Holds(q) THEN Order(w, db[q]) ELSE 2 * w.seq
        BY LevelType
      <4> QED BY <1>7, <1>17, <1>18, <3>2, <4>1
    <3> QED BY <3>1, <3>2
  <2>2. Level(w)' = [q \in Router |-> g[q]]
    BY <2>1, LevelAfter
  <2> QED BY <1>7, <2>2 DEF Levels
<1>20. KnownCopies(w)'
  <2>1. ASSUME NEW q \in Router, Holds(q)' PROVE Known(w, g, db'[q])
    <3>1. CASE q = r
      BY <1>10, <1>17, <3>1
    <3>2. CASE q # r
      <4>1. db'[q] = db[q] /\ Holds(q)
        BY <1>17, <1>18, <2>1, <3>2
      <4>2. db[q] \in Instance /\ Known(w, f, db[q])
        BY <1>4, <4>1, LevelType DEF KnownCopies
      <4> QED BY ONLY <1>3, <1>10, <1>7, <4>1, <4>2, KnownGrows, w \in Situations
    <3> QED BY <3>1, <3>2
  <2>2. ASSUME NEW q \in Router \ {o}
        PROVE  g[q] >= 2 * w.seq /\ (Holds(q)' /\ IsNew(w, db'[q]) => q \notin due')
    <3>1. f[q] >= 2 * w.seq /\ (Holds(q) /\ IsNew(w, db[q]) => q \notin due)
      BY <1>4 DEF KnownCopies
    <3>2. f[q] \in Nat /\ g[q] \in Nat /\ f[q] <= g[q] /\ 2 * w.seq \in Nat
      BY <1>3, <1>7, SituationType
    <3>3. g[q] >= 2 * w.seq
      BY <3>1, <3>2
    <3> QED BY <1>17, <1>18, <3>1, <3>3
  <2> QED BY <1>19, <2>1, <2>2 DEF KnownCopies
<1>21. OwnCopy(w)'
  <2>1. CASE r = o
    <3>1. ~IsNew(w, db'[o]) /\ w.refreshed = 1
      BY <1>10, <1>17, <2>1
    <3> QED BY <1>18, <2>1, <3>1 DEF OwnCopy
  <2>2. CASE r # o
    BY <1>3, <1>4, <1>17, <1>18, <2>2 DEF OwnCopy
  <2> QED BY <2>1, <2>2
<1>22. ASSUME w.refreshed = 1 PROVE OldCopies(w)'
  <2>1. OldCopies(w)
    BY <1>4, <1>22
  <2>2. \A q \in Router : q # r => AgeBefore(q)' = AgeBefore(q)
    BY <1>17, <1>18, SameCopy
  <2>3. o \notin due' /\ \A q \in Router : Holds(q)'
    BY <1>1, <1>18, <2>1 DEF OldCopies
  <2>4. \A q \in Router \ {o} : ~IsNew(w, db'[q]) =>
          w.least <= AgeBefore(q)' /\ AgeBefore(q)' <= w.least + 2 * Second
    <3> SUFFICES ASSUME NEW q \in Router \ {o}, ~IsNew(w, db'[q])
                 PROVE  w.least <= AgeBefore(q)' /\ AgeBefore(q)' <= w.least + 2 * Second
      OBVIOUS
    <3>1. q # r
      BY <1>10, <1>17
    <3>2. ~IsNew(w, db[q])
      BY <1>17, <3>1
    <3>3. w.least <= AgeBefore(q) /\ AgeBefore(q) <= w.least + 2 * Second
      BY <2>1, <3>2 DEF OldCopies
    <3> QED BY <2>2, <3>1, <3>3
  <2>5. ~IsNew(w, db'[o]) =>
          w.least <= db'[o].age /\ db'[o].age <= w.least + 3 * Second + Delay
    <3>1. CASE r = o
      <4>1. w.least <= y.age /\ y.age <= LatestAge(w, g)
        BY <1>10, <3>1 DEF Sent
      <4>2. LatestAge(w, g) <= w.least + 3 * Second + Delay /\ LatestAge(w, g) \in Nat
        <5>1. g[o] \in Nat
          BY <1>3, <1>7
        <5> QED BY <5>1, SituationType, FarApart DEF LatestAge
      <4> QED BY <1>10, <1>17, <3>1, <4>1, <4>2, SituationType, FarApart, InstanceType
    <3>2. CASE r # o
      BY <1>3, <1>17, <2>1, <3>2 DEF OldCopies
    <3> QED BY <3>1, <3>2
  <2>6. RefreshTime <= w.least + 3 * Second /\ w.least <= RefreshTime + Second
    BY <2>1 DEF OldCopies
  <2> QED BY <2>3, <2>4, <2>5, <2>6 DEF OldCopies
<1>23. Reaches(w, g, chan')
  <2> SUFFICES ASSUME NEW e \in Adjacent, g[e[1]] > g[e[2]]
               PROVE  \/ HasOrder(w, chan'[e], g[e[1]])
                      \/ e[2] = o /\ HasOlder(chan'[<<e[2], e[1]>>], g[e[1]])
    BY DEF Reaches
  <2>1. /\ e[1] \in Router /\ e[2] \in Router /\ e[1] # e[2]
        /\ <<e[2], e[1]>> \in Adjacent /\ e = <<e[1], e[2]>>
    BY LinkType
  <2>2. CASE e[1] = r
    <3>1. g[r] = k /\ g[s] = f[s] /\ k \in Nat /\ f[s] \in Nat
      BY <1>2, <1>3, <1>7
    <3>2. e[2] # s
      BY <1>5, <2>2, <3>1
    <3>3. HasOrder(w, sent[e], k)
      BY <1>15, <2>2, <3>2
    <3>4. PICK m \in Updates(sent[e]) : Order(w, m.lsa) = k
      BY <3>3 DEF HasOrder
    <3>5. m \in Updates(chan'[e]) /\ g[e[1]] = k
      BY <1>16, <2>2, <3>1
    <3> QED BY <3>4, <3>5 DEF HasOrder
  <2>3. CASE e[1] # r
    <3>1. g[e[1]] = f[e[1]] /\ f[e[1]] > f[e[2]]
      BY <1>3, <1>7, <2>1, <2>3
    <3>2. CASE HasOrder(w, chan[e], f[e[1]])
      <4>1. PICK m \in Updates(chan[e]) : Order(w, m.lsa) = f[e[1]]
        BY <3>2 DEF HasOrder
      <4>2. m \in Updates(AgedOnLink(s, r, ls)[e])
        <5> SUFFICES ASSUME e = h, m.lsa = ls PROVE FALSE
          BY <1>12
        <5>1. f[e[1]] = k /\ e[2] = r
          BY <4>1
        <5>2. g[e[2]] = k /\ g[e[1]] = k /\ k \in Nat
          BY <1>3, <1>7, <2>1, <3>1, <5>1
        <5> QED BY <5>2
      <4>3. m \in Updates(chan'[e])
        BY <1>16, <4>2
      <4> QED BY <3>1, <4>1, <4>3 DEF HasOrder
    <3>3. CASE e[2] = o /\ HasOlder(chan[<<e[2], e[1]>>], f[e[1]])
      <4>1. PICK m \in Updates(chan[<<e[2], e[1]>>]) : 2 * m.lsa.seq + 1 < f[e[1]]
        BY <3>3 DEF HasOlder
      <4>2. <<e[2], e[1]>> # h
        BY <2>3
      <4>3. m \in Updates(chan'[<<e[2], e[1]>>])
        BY <1>12, <1>16, <2>1, <4>2
      <4> QED BY <3>1, <3>3, <4>1, <4>3 DEF HasOlder
    <3> QED BY <1>4, <3>1, <3>2, <3>3 DEF Reaches
  <2> QED BY <2>2, <2>3
<1> QED BY <1>16, <1>19, <1>20, <1>21, <1>22, <1>23 DEF Busy

(* What leaves the copies and the timers alone.                            *)
LEMMA BusySame ==
  ASSUME NEW w \in Situations, Busy(w), UNCHANGED <<db, due>>,
         SentOnLinks(w, Level(w), chan'), SentFromStore(w, Level(w), upd'),
         Reaches(w, Level(w), chan')
  PROVE  Busy(w)'
<1>1. KnownCopies(w) /\ OwnCopy(w) /\ (w.refreshed = 1 => OldCopies(w))
  BY DEF Busy
<1>2. db' = db /\ due' = due /\ \A r : Holds(r)' = Holds(r) /\ AgeBefore(r)' = AgeBefore(r)
  BY DEF Holds, AgeBefore
<1>3. Level(w)' = Level(w)
  BY <1>2 DEF Level
<1>4. KnownCopies(w)'
  BY <1>1, <1>2, <1>3 DEF KnownCopies
<1>5. OwnCopy(w)'
  BY <1>1, <1>2 DEF OwnCopy
<1>6. w.refreshed = 1 => OldCopies(w)'
  BY <1>1, <1>2 DEF OldCopies
<1> QED BY <1>3, <1>4, <1>5, <1>6 DEF Busy

LEMMA RepeatedSent ==
  ASSUME NEW w, NEW f, IsStore(upd), SentFromStore(w, f, upd), NEW g
  PROVE  SentFromStore(w, f, Repeated(g))
<1> SUFFICES ASSUME NEW e \in Adjacent, NEW o \in DOMAIN Repeated(g)[e]
             PROVE  Sent(w, f, e[1], Repeated(g)[e][o])
  BY DEF SentFromStore
<1>1. Repeated(g)[e] = upd[e] \/ Repeated(g)[e] = NoUpdates
  BY DEF Repeated, IsStore
<1>2. DOMAIN NoUpdates = {}
  BY DEF NoUpdates
<1> QED BY <1>1, <1>2 DEF SentFromStore

LEMMA ReplySent ==
  /\ \A w, f, s, r : SentOnLinks(w, f, Reply(r, s, Ack)) /\ SentOnLinks(w, f, NoPackets)
  /\ \A w, f, s, r : \A ls \in Instance : Sent(w, f, r, ls) =>
       /\ SentOnLinks(w, f, Reply(r, s, Update(ls)))
       /\ <<r, s>> \in Adjacent => Update(ls) \in Updates(Reply(r, s, Update(ls))[<<r, s>>])
<1>1. In(<<>>) = {} /\ \A m : In(<<m>>) = {m}
  BY DEF In
<1>2. Updates(<<>>) = {} /\ Updates(<<Ack>>) = {}
      /\ \A ls \in Instance : Updates(<<Update(ls)>>) = {Update(ls)}
  BY <1>1, MessageType DEF Updates
<1>3. \A s, r, m : \A e \in Adjacent : /\ e = <<r, s>> => Reply(r, s, m)[e] = <<m>>
                                       /\ e # <<r, s>> => Reply(r, s, m)[e] = <<>>
  BY DEF Reply, NoPackets
<1>4. \A e \in Adjacent : NoPackets[e] = <<>>
  BY DEF NoPackets
<1>5. ASSUME NEW w, NEW f, NEW s, NEW r
      PROVE SentOnLinks(w, f, Reply(r, s, Ack)) /\ SentOnLinks(w, f, NoPackets)
  <2>1. \A e \in Adjacent : Updates(Reply(r, s, Ack)[e]) = {} /\ Updates(NoPackets[e]) = {}
    BY <1>2, <1>3, <1>4
  <2> QED BY <2>1 DEF SentOnLinks
<1>6. ASSUME NEW w, NEW f, NEW s, NEW r, NEW ls \in Instance, Sent(w, f, r, ls)
      PROVE  /\ SentOnLinks(w, f, Reply(r, s, Update(ls)))
             /\ <<r, s>> \in Adjacent => Update(ls) \in Updates(Reply(r, s, Update(ls))[<<r, s>>])
  <2>1. \A e \in Adjacent : \A m \in Updates(Reply(r, s, Update(ls))[e]) :
          e = <<r, s>> /\ m = Update(ls)
    BY <1>2, <1>3
  <2>2. Update(ls).lsa = ls /\ <<r, s>>[1] = r
    BY MessageType
  <2>3. SentOnLinks(w, f, Reply(r, s, Update(ls)))
    BY <1>6, <2>1, <2>2 DEF SentOnLinks
  <2> QED BY <1>2, <1>3, <2>3
<1> QED BY <1>5, <1>6

(* A packet is taken off a link, and with an update on it goes nothing     *)
(* that was still to be reached.                                           *)
LEMMA BusyTaken ==
  ASSUME TypeOK, NEW w \in Situations, Busy(w), NEW s, NEW r, NEW type, Arrives(s, r, type),
         UNCHANGED <<db, due>>, NEW stored, SentFromStore(w, Level(w), stored),
         NEW copies, NEW sent \in Sending, SentOnLinks(w, Level(w), sent), NEW origin,
         Transmit(Received(<<s, r>>), copies, stored, sent, origin),
         type = "update" =>
           LET x == Head(chan[<<s, r>>]).lsa IN
           /\ Order(w, x) = Level(w)[s] => Level(w)[s] <= Level(w)[r]
           /\ 2 * x.seq + 1 < Level(w)[r] => HasOrder(w, sent[<<r, s>>], Level(w)[r])
  PROVE  Busy(w)'
<1> DEFINE f == Level(w)
           h == <<s, r>>
           c == Received(h)
           x == Head(chan[h])
<1>1. /\ SentOnLinks(w, f, chan) /\ Reaches(w, f, chan)
  BY DEF Busy
<1>2. /\ s \in Router /\ r \in Router /\ h \in Adjacent /\ c \in Links
      /\ \A e \in Adjacent :
           /\ Updates(c[e]) \subseteq Updates(chan[e])
           /\ \A m \in Updates(chan[e]) : m \in Updates(c[e]) \/ (e = h /\ m = x)
           /\ type = "ack" => Updates(c[e]) = Updates(chan[e])
      /\ x.type = type
  BY ArrivalType, ReceivedIn, SMTT(30)
<1>3. f \in Levels /\ \A q \in Router : f[q] \in Nat
  BY LevelType DEF Levels
<1>4. SentOnLinks(w, f, c)
  BY <1>1, <1>2 DEF SentOnLinks
<1>5. type = "update" => /\ Order(w, x.lsa) = f[s] => f[s] <= f[r]
                         /\ 2 * x.lsa.seq + 1 < f[r] => HasOrder(w, sent[<<r, s>>], f[r])
  OBVIOUS
<1> HIDE DEF f, c, x
<1>6. /\ SentOnLinks(w, f, chan') /\ SentFromStore(w, f, upd')
      /\ \A e \in Adjacent : Updates(chan'[e]) = Updates(c[e]) \cup Updates(sent[e])
  <2>1. /\ c \in Links /\ sent \in Sending /\ Transmit(c, copies, stored, sent, origin)
        /\ SentOnLinks(w, f, c) /\ SentFromStore(w, f, stored) /\ SentOnLinks(w, f, sent)
    BY <1>2, <1>4 DEF c, f
  <2> QED BY ONLY <2>1, TransmitSent, ZenonT(60)
<1>7. \A e \in Adjacent : \A m \in Updates(chan[e]) :
        \/ m \in Updates(chan'[e])
        \/ type = "update" /\ e = h /\ m = x
  <2> SUFFICES ASSUME NEW e \in Adjacent, NEW m \in Updates(chan[e]), m \notin Updates(chan'[e])
               PROVE  type = "update" /\ e = h /\ m = x
    OBVIOUS
  <2>1. e = h /\ m = x
    BY <1>2, <1>6
  <2>2. m.type = "update"
    BY DEF Updates
  <2> QED BY <1>2, <2>1, <2>2
<1>8. Reaches(w, f, chan')
  <2> SUFFICES ASSUME NEW e \in Adjacent, f[e[1]] > f[e[2]]
               PROVE  \/ HasOrder(w, chan'[e], f[e[1]])
                      \/ e[2] = Originator /\ HasOlder(chan'[<<e[2], e[1]>>], f[e[1]])
    BY DEF Reaches
  <2>1. /\ e[1] \in Router /\ e[2] \in Router /\ <<e[2], e[1]>> \in Adjacent
        /\ e = <<e[1], e[2]>>
    BY LinkType
  <2>2. CASE HasOrder(w, chan[e], f[e[1]])
    <3>1. PICK m \in Updates(chan[e]) : Order(w, m.lsa) = f[e[1]]
      BY <2>2 DEF HasOrder
    <3>2. m \in Updates(chan'[e])
      <4> SUFFICES ASSUME type = "update", e = h, m = x PROVE FALSE
        BY <1>7
      <4>1. e[1] = s /\ e[2] = r
        OBVIOUS
      <4>2. f[s] <= f[r]
        BY <1>5, <3>1, <4>1
      <4> QED BY <1>2, <1>3, <4>1, <4>2
    <3> QED BY <3>1, <3>2 DEF HasOrder
  <2>3. CASE e[2] = Originator /\ HasOlder(chan[<<e[2], e[1]>>], f[e[1]])
    <3>1. PICK m \in Updates(chan[<<e[2], e[1]>>]) : 2 * m.lsa.seq + 1 < f[e[1]]
      BY <2>3 DEF HasOlder
    <3>2. CASE m \in Updates(chan'[<<e[2], e[1]>>])
      BY <2>3, <3>1, <3>2 DEF HasOlder
    <3>3. CASE type = "update" /\ <<e[2], e[1]>> = h /\ m = x
      <4>1. e[2] = s /\ e[1] = r /\ e = <<r, s>>
        BY <2>1, <3>3
      <4>2. HasOrder(w, sent[e], f[r])
        BY <1>5, <3>1, <3>3, <4>1
      <4>3. HasOrder(w, chan'[e], f[r])
        BY <1>6, <4>2 DEF HasOrder
      <4> QED BY <4>1, <4>3
    <3> QED BY <1>7, <2>1, <3>2, <3>3
  <2> QED BY <1>1, <2>2, <2>3 DEF Reaches
<1> QED BY <1>6, <1>8, BusySame DEF f

LEMMA BusyOther ==
  ASSUME TypeOK, TimesFarApart, NEW w \in Situations, Busy(w), NEW s, NEW r,
         EqualLSA(s, r) \/ OlderLSA(s, r) \/ ReceiveAck(s, r)
  PROVE  Busy(w)'
<1> DEFINE f == Level(w)
           x == Head(chan[<<s, r>>]).lsa
<1>1. SentOnLinks(w, f, chan) /\ SentFromStore(w, f, upd) /\ KnownCopies(w)
      /\ (w.refreshed = 1 => OldCopies(w))
  BY DEF Busy
<1>2. IsStore(upd) /\ UNCHANGED <<db, due>> /\ SentFromStore(w, f, Repeated(<<r, s>>))
  BY <1>1, TypeSplit, RepeatedSent DEF EqualLSA, OlderLSA, ReceiveAck
<1>3. /\ f \in Levels /\ \A q \in Router : f[q] \in Nat
  BY LevelType DEF Levels
<1>4. ASSUME Arrives(s, r, "update")
      PROVE  /\ s \in Router /\ r \in Router /\ x \in Instance /\ Sent(w, f, s, x)
             /\ <<r, s>> \in Adjacent /\ Order(w, x) <= f[s] /\ Order(w, x) \in Nat
             /\ x.seq \in Nat
  <2>1. /\ s \in Router /\ r \in Router /\ x \in Instance
        /\ <<s, r>> \in Adjacent /\ <<r, s>> \in Adjacent
    BY <1>4, ArrivalType
  <2>2. Head(chan[<<s, r>>]) \in Updates(chan[<<s, r>>])
    BY <1>4, ReceivedIn
  <2>3. Sent(w, f, <<s, r>>[1], x)
    BY <1>1, <2>1, <2>2 DEF SentOnLinks
  <2> QED BY <2>1, <2>3, OrderType, InstanceType DEF Sent
<1>5. ASSUME Arrives(s, r, "update"), Lookup(r, x) \in {"EQUALS", "OLDER"}
      PROVE  /\ Order(w, x) <= f[r]
             /\ Lookup(r, x) = "EQUALS" => x.seq = db[r].seq
             /\ db[r] \in Instance /\ Holds(r) /\ f[r] = Order(w, db[r])
             /\ Order(w, x) = f[s] => f[s] <= f[r]
  <2>1. ~(Order(w, x) > f[r])
    <3>1. Order(w, x) > f[r] => Lookup(r, x) \in {"NO_EXIST", "NEWER"}
      BY <1>4, <1>5, LookupOrder
    <3> QED BY <1>5, <3>1
  <2>2. Order(w, x) <= f[r]
    BY <1>3, <1>4, <1>5, <2>1
  <2>3. Holds(r) /\ (Lookup(r, x) = "EQUALS" => x.seq = db[r].seq)
    BY <1>4, <1>5, <2>2, LookupOrder
  <2>4. db[r] \in Instance /\ f[r] = Order(w, db[r])
    BY <1>4, <1>5, <2>3, LevelType
  <2> QED BY <2>2, <2>3, <2>4
<1> HIDE DEF f, x
<1>6. CASE EqualLSA(s, r)
  <2>1. /\ Arrives(s, r, "update") /\ Lookup(r, x) = "EQUALS"
        /\ Transmit(Received(<<s, r>>), OneLess(<<r, s>>), Repeated(<<r, s>>),
                    Reply(r, s, Ack), Originator)
    BY <1>6 DEF EqualLSA, x
  <2>2. ~(2 * x.seq + 1 < f[r])
    <3>1. x.seq = db[r].seq /\ f[r] = Order(w, db[r]) /\ db[r] \in Instance
      BY <1>5, <2>1
    <3>2. f[r] = 2 * x.seq \/ f[r] = 2 * x.seq + 1
      BY <3>1, OrderType
    <3> QED BY <1>4, <2>1, <3>2
  <2>3. /\ SentOnLinks(w, f, Reply(r, s, Ack)) /\ Reply(r, s, Ack) \in Sending
        /\ Order(w, x) = f[s] => f[s] <= f[r]
    BY <1>5, <2>1, ReplySent, ReplyType, MessageType
  <2> QED BY <1>2, <2>1, <2>2, <2>3, BusyTaken DEF f, x
<1>7. CASE OlderLSA(s, r)
  <2>1. /\ Arrives(s, r, "update") /\ Lookup(r, x) = "OLDER"
        /\ Transmit(Received(<<s, r>>), retrans, upd, Reply(r, s, Update(db[r])), r)
    BY <1>7, OlderIsAnswered DEF OlderLSA, x
  <2>2. /\ db[r] \in Instance /\ Holds(r) /\ f[r] = Order(w, db[r]) /\ Order(w, x) <= f[r]
        /\ Order(w, x) = f[s] => f[s] <= f[r]
    BY <1>5, <2>1
  <2>3. Sent(w, f, r, db[r])
    <3>1. Known(w, f, db[r]) /\ Order(w, db[r]) <= f[r]
      BY <1>1, <1>3, <1>4, <2>1, <2>2 DEF KnownCopies, f
    <3>2. ASSUME ~IsNew(w, db[r])
          PROVE  w.refreshed = 1 /\ w.least <= db[r].age /\ db[r].age <= LatestAge(w, f)
      <4>1. db[r].seq = w.seq
        BY <3>1, <3>2 DEF Known
      <4>2. w.refreshed = 1
        <5> SUFFICES ASSUME w.refreshed = 0 PROVE FALSE
          BY SituationType
        <5>1. f[r] = 2 * w.seq
          BY <2>2, <4>1, OrderType
        <5>2. IsNew(w, x)
          BY <1>4, <2>1 DEF Sent
        <5>3. x.seq > w.seq /\ Order(w, x) = 2 * x.seq
          BY <1>4, <2>1, <5>2, OrderType DEF IsNew
        <5> QED BY <1>4, <2>1, <2>2, <5>1, <5>3, SituationType
      <4>3. /\ w.least <= db[r].age /\ db[r].age <= w.least + 3 * Second + Delay
            /\ r # Originator => db[r].age <= w.least + 3 * Second
            /\ db[r].age \in Nat
        BY <1>1, <1>4, <2>1, <3>2, <4>2, OldAge
      <4>4. f[r] = 2 * w.seq
        BY <2>2, <3>2, <4>1, <4>2, OrderType
      <4>5. CASE r = Originator
        <5>1. LatestAge(w, f) = w.least + 3 * Second + Delay
          <6>1. ~(f[Originator] < 2 * w.seq)
            BY <4>4, <4>5, SituationType
          <6> QED BY <6>1 DEF LatestAge
        <5> QED BY <4>2, <4>3, <5>1
      <4>6. CASE r # Originator
        <5>1. LatestAge(w, f) >= w.least + 3 * Second /\ LatestAge(w, f) \in Nat
          BY SituationType, FarApart DEF LatestAge
        <5> QED BY <4>2, <4>3, <4>6, <5>1, SituationType, FarApart
      <4> QED BY <4>5, <4>6
    <3> QED BY <3>1, <3>2 DEF Sent
  <2>4. /\ SentOnLinks(w, f, Reply(r, s, Update(db[r])))
        /\ Reply(r, s, Update(db[r])) \in Sending
        /\ Update(db[r]) \in Updates(Reply(r, s, Update(db[r]))[<<r, s>>])
        /\ Update(db[r]).lsa = db[r]
    BY <1>4, <2>1, <2>2, <2>3, ReplySent, ReplyType, MessageType
  <2>5. HasOrder(w, Reply(r, s, Update(db[r]))[<<r, s>>], f[r])
    BY <2>2, <2>4 DEF HasOrder
  <2>6. SentFromStore(w, f, upd)
    BY <1>1
  <2> QED BY <1>2, <2>1, <2>2, <2>4, <2>5, <2>6, BusyTaken DEF f, x
<1>8. CASE ReceiveAck(s, r)
  <2>1. /\ Arrives(s, r, "ack")
        /\ Transmit(Received(<<s, r>>), OneLess(<<r, s>>), Repeated(<<r, s>>), NoPackets, r)
    BY <1>8 DEF ReceiveAck
  <2>2. SentOnLinks(w, f, NoPackets) /\ NoPackets \in Sending /\ "ack" # "update"
    BY ReplySent, ReplyType
  <2> QED BY <1>2, <2>1, <2>2, BusyTaken DEF f
<1> QED BY <1>6, <1>7, <1>8

LEMMA BusyResend ==
  ASSUME TypeOK, NEW w \in Situations, Busy(w), NEW e \in Adjacent, ResendUpdates(e)
  PROVE  Busy(w)'
<1> DEFINE f == Level(w)
           n == Cardinality(DOMAIN upd[e])
           more == UpdatesDue(e)
<1>1. /\ UNCHANGED <<db, due, upd>> /\ chan' = [chan EXCEPT ![e] = @ \o more]
  BY DEF ResendUpdates
<1>2. n \in Nat /\ \A i \in 1..n : OriginAt(e, i) \in DOMAIN upd[e]
  BY RankIsNumbering
<1>3. DOMAIN more = 1..n /\ \A i \in 1..n : more[i] = Update(upd[e][OriginAt(e, i)])
  BY DEF UpdatesDue
<1>4. IsStore(upd) /\ chan \in Links
  BY TypeSplit
<1>5. SentOnLinks(w, f, chan) /\ SentFromStore(w, f, upd) /\ Reaches(w, f, chan)
  BY DEF Busy
<1> HIDE DEF n, f
<1>6. ASSUME NEW i \in DOMAIN more
      PROVE  more[i] \in Message /\ Sent(w, f, e[1], more[i].lsa)
  <2> HIDE DEF more
  <2>1. OriginAt(e, i) \in DOMAIN upd[e] /\ more[i] = Update(upd[e][OriginAt(e, i)])
    BY <1>2, <1>3, <1>6
  <2>2. upd[e][OriginAt(e, i)] \in Instance
    BY <1>4, <2>1 DEF IsStore
  <2>3. more[i] \in Message /\ more[i].lsa = upd[e][OriginAt(e, i)]
    BY <2>1, <2>2, MessageType
  <2> QED BY <1>5, <2>1, <2>3 DEF SentFromStore
<1>7. more \in Seq(Message)
  <2>1. more \in [1..n -> Message]
    BY <1>3, <1>6 DEF UpdatesDue, n
  <2> QED BY <1>2, <2>1, SeqDef
<1> HIDE DEF more
<1>8. chan[e] \in Seq(Message)
  BY <1>4 DEF Links
<1>9. /\ Updates(chan'[e]) = Updates(chan[e]) \cup Updates(more)
      /\ \A g \in Adjacent : g # e => chan'[g] = chan[g]
  <2>1. chan'[e] = chan[e] \o more /\ \A g \in Adjacent : g # e => chan'[g] = chan[g]
    BY <1>1, <1>4 DEF Links
  <2> QED BY <1>7, <1>8, <2>1, AppendedIn
<1>10. \A m \in Updates(more) : Sent(w, f, e[1], m.lsa)
  BY <1>6 DEF Updates, In
<1>11. SentOnLinks(w, f, chan')
  <2> SUFFICES ASSUME NEW g \in Adjacent, NEW m \in Updates(chan'[g])
               PROVE  Sent(w, f, g[1], m.lsa)
    BY DEF SentOnLinks
  <2>1. CASE g # e
    BY <1>5, <1>9, <2>1 DEF SentOnLinks
  <2>2. CASE g = e
    BY <1>5, <1>9, <1>10, <2>2 DEF SentOnLinks
  <2> QED BY <2>1, <2>2
<1>12. \A g \in Adjacent : Updates(chan[g]) \subseteq Updates(chan'[g])
  BY <1>9
<1>13. Reaches(w, f, chan')
  <2> SUFFICES ASSUME NEW g \in Adjacent, f[g[1]] > f[g[2]]
               PROVE  \/ HasOrder(w, chan'[g], f[g[1]])
                      \/ g[2] = Originator /\ HasOlder(chan'[<<g[2], g[1]>>], f[g[1]])
    BY DEF Reaches
  <2>1. <<g[2], g[1]>> \in Adjacent
    BY LinkType
  <2>2. HasOrder(w, chan[g], f[g[1]]) => HasOrder(w, chan'[g], f[g[1]])
    BY <1>12 DEF HasOrder
  <2>3. HasOlder(chan[<<g[2], g[1]>>], f[g[1]]) => HasOlder(chan'[<<g[2], g[1]>>], f[g[1]])
    BY <1>12, <2>1 DEF HasOlder
  <2> QED BY <1>5, <2>2, <2>3 DEF Reaches
<1>14. SentFromStore(w, f, upd')
  BY <1>1, <1>5
<1> QED BY <1>1, <1>11, <1>13, <1>14, BusySame DEF f

-----------------------------------------------------------------------------
(* The next round.                                                         *)

(* When nothing is on its way all have reached the same level.             *)
LEMMA AllLevel ==
  ASSUME TypeOK, Connected, NEW w \in Situations, Busy(w), Quiet, NEW r \in Router
  PROVE  Level(w)[r] = Level(w)[Originator]
<1> DEFINE f == Level(w)
           S == {q \in Router : f[q] = f[Originator]}
<1>1. \A q \in Router : f[q] \in Nat
  BY LevelType DEF Levels
<1>2. \A q : Updates(<<>>) = {}
  BY DEF Updates, In
<1>3. Reaches(w, f, chan)
  BY DEF Busy
<1>4. ASSUME NEW e \in Adjacent, f[e[1]] > f[e[2]] PROVE FALSE
  <2>1. <<e[2], e[1]>> \in Adjacent
    BY LinkType
  <2>2. Updates(chan[e]) = {} /\ Updates(chan[<<e[2], e[1]>>]) = {}
    BY <1>2, <2>1 DEF Quiet
  <2> QED BY <1>3, <1>4, <2>2 DEF Reaches, HasOrder, HasOlder
<1> HIDE DEF f
<1>5. ASSUME NEW e \in Adjacent PROVE f[e[1]] = f[e[2]]
  <2>1. e[1] \in Router /\ e[2] \in Router /\ <<e[2], e[1]>> \in Adjacent
    BY LinkType
  <2>2. ~(f[e[1]] > f[e[2]])
    BY <1>4
  <2>3. ~(f[e[2]] > f[e[1]])
    <3>1. ~(f[<<e[2], e[1]>>[1]] > f[<<e[2], e[1]>>[2]])
      BY <1>4, <2>1
    <3> QED BY <3>1
  <2> QED BY <1>1, <2>1, <2>2, <2>3
<1>6. Originator \in S /\ S \in SUBSET Router
  BY Times
<1>7. \A e \in Adjacent : e[1] \in S => e[2] \in S
  BY <1>5, LinkType
<1>8. S = Router
  BY <1>6, <1>7 DEF Connected
<1> QED BY <1>8 DEF f

(* What is true of the network at the beginning of a round.                *)
LEMMA RoundBegins ==
  ASSUME TypeOK, Timed, NextRound
  PROVE  /\ due = {} /\ due' = timer /\ db' = db /\ Quiet /\ Quiet'
         /\ \A e \in Adjacent : DOMAIN upd'[e] = {}
         /\ \A r : Holds(r)' = Holds(r)
         /\ \A r \in Router : Holds(r) =>
              /\ db[r] \in Instance /\ db[r].age \in Nat
              /\ AgeBefore(r) = db[r].age - Second
              /\ db[r].age < MaxAge \/ r = Originator => AgeBefore(r)' = db[r].age
<1>1. /\ due = {} /\ due' = timer /\ Quiet /\ Acked
      /\ UNCHANGED <<db, timer, retrans, upd, chan, changes>>
  BY DEF NextRound
<1>2. \A e \in Adjacent : DOMAIN upd[e] = {}
  <2>1. \A e \in Adjacent : retrans[e] = 0
    BY <1>1 DEF Acked
  <2> QED BY <2>1 DEF Timed, KeptAreUnacked
<1>3. ASSUME NEW r \in Router, Holds(r)
      PROVE  /\ db[r] \in Instance /\ db[r].age \in Nat
             /\ AgeBefore(r) = db[r].age - Second
             /\ db[r].age < MaxAge \/ r = Originator => AgeBefore(r)' = db[r].age
  <2>1. db[r] \in Instance /\ db[r].age \in Nat
    <3>1. db[r] \in Instance
      BY <1>3, TypeSplit DEF Holds
    <3> QED BY <3>1, InstanceType
  <2>2. AgeBefore(r) = db[r].age - Second
    BY <1>1 DEF AgeBefore
  <2>3. ASSUME db[r].age < MaxAge \/ r = Originator PROVE AgeBefore(r)' = db[r].age
    <3>1. r \in timer
      <4>1. db[r].age < MaxAge => db[r].age # MaxAge
        BY <2>1, Times
      <4> QED BY <1>3, <2>3, <4>1 DEF Timed, OriginatorAtRest, HeldAreAged
    <3>2. r \in due' /\ db'[r] = db[r]
      BY <1>1, <3>1
    <3> QED BY <2>1, <3>2 DEF AgeBefore
  <2> QED BY <2>1, <2>2, <2>3
<1>4. Quiet' /\ \A r : Holds(r)' = Holds(r)
  BY <1>1 DEF Quiet, Holds
<1> QED BY <1>1, <1>2, <1>3, <1>4

(* All have the originator's copy, which is what the next round starts     *)
(* from.                                                                   *)
LEMMA BusyRound ==
  ASSUME TypeOK, Timed, Connected, TimesFarApart, NEW w \in Situations, Busy(w), NextRound
  PROVE  \E v \in Situations : AtRest(v)'
<1> DEFINE o == Originator
           f == Level(w)
           x == db[o]
<1>1. /\ due = {} /\ due' = timer /\ db' = db /\ Quiet /\ Quiet'
      /\ \A e \in Adjacent : DOMAIN upd'[e] = {}
      /\ \A r : Holds(r)' = Holds(r)
      /\ \A r \in Router : Holds(r) =>
           /\ db[r] \in Instance /\ db[r].age \in Nat
           /\ AgeBefore(r) = db[r].age - Second
           /\ db[r].age < MaxAge \/ r = Originator => AgeBefore(r)' = db[r].age
  BY RoundBegins
<1>2. /\ KnownCopies(w) /\ OwnCopy(w) /\ (w.refreshed = 1 => OldCopies(w)) /\ Holds(o)
  BY DEF Busy, OwnCopy
<1>3. /\ w.refreshed \in {0, 1} /\ w.seq \in Nat /\ w.least \in Nat /\ w.links \in [Nat -> Nat]
      /\ f \in Levels /\ o \in Router /\ x \in Instance /\ f[o] = Order(w, x)
      /\ x.seq \in Nat /\ Order(w, x) \in Nat
  BY <1>2, SituationType, LevelType, Times, OrderType, InstanceType
<1>4. \A r \in Router : f[r] = f[o]
  BY <1>1, AllLevel
<1>5. \A r \in Router : Holds(r) => db[r] \in Instance /\ f[r] = Order(w, db[r])
                                    /\ Known(w, f, db[r]) /\ db[r].seq \in Nat
  BY <1>2, LevelType, InstanceType DEF KnownCopies
<1>6. \A r \in Router : ~Holds(r) => f[r] = 2 * w.seq
  BY LevelType
<1> HIDE DEF f, x
<1>7. ASSUME NEW v \in Situations,
             \A r \in Router : Holds(r) =>
               db[r].seq = v.seq /\ db[r].links = v.links[2 * v.seq],
             \A r \in Router : Holds(r) /\ db[r].age < MaxAge,
             \A r \in Router \ {o} : v.least <= db[r].age /\ db[r].age <= v.least + 2 * Second,
             v.least <= x.age + Second, x.age <= v.least + 3 * Second
      PROVE  AtRest(v)'
  <2>1. \A r \in Router : Holds(r)' /\ AgeBefore(r)' = db[r].age
    BY <1>1, <1>7
  <2>2. \A r \in Router \ {o} : v.least <= AgeBefore(r)' /\ AgeBefore(r)' <= v.least + 2 * Second
    BY <1>7, <2>1
  <2>3. v.least <= AgeBefore(o)' + Second /\ AgeBefore(o)' <= v.least + 3 * Second
    BY <1>3, <1>7, <2>1 DEF x
  <2>4. Timely(v)'
    BY <2>1, <2>2, <2>3 DEF Timely
  <2>5. \A r \in Router : Holds(r)' =>
          db'[r].seq = v.seq /\ db'[r].links = v.links[2 * v.seq]
    BY <1>1, <1>7
  <2> QED BY <1>1, <2>4, <2>5 DEF AtRest
<1>8. CASE IsNew(w, x)
  <2> SUFFICES ASSUME NEW k, k = Order(w, x), NEW v,
                      v = [refreshed |-> 0, seq |-> x.seq, least |-> 0,
                           links |-> [n \in Nat |-> w.links[k]]]
               PROVE  v \in Situations /\ AtRest(v)'
    OBVIOUS
  <2>1. v \in Situations /\ v.seq = x.seq /\ v.least = 0 /\ v.links[2 * v.seq] = w.links[k]
    <3>1. w.links[k] \in Nat /\ 2 * x.seq \in Nat
      BY <1>3
    <3> QED BY <1>3, <3>1 DEF Situations
  <2>2. /\ k = 2 * x.seq + w.refreshed
        /\ w.refreshed = 0 => x.seq > w.seq
    <3>1. CASE w.refreshed = 0
      BY <1>3, <1>8, <3>1, OrderType DEF IsNew
    <3>2. CASE w.refreshed = 1
      BY <1>3, <1>8, <3>2, OrderType
    <3> QED BY <1>3, <3>1, <3>2
  <2>3. ASSUME NEW r \in Router PROVE Holds(r)
    <3>1. CASE w.refreshed = 1
      BY <1>2, <3>1 DEF OldCopies
    <3>2. CASE w.refreshed = 0
      <4>1. f[r] # 2 * w.seq
        BY <1>3, <1>4, <2>2, <3>2
      <4> QED BY <1>6, <4>1
    <3> QED BY <1>3, <3>1, <3>2
  <2>4. ASSUME NEW r \in Router
        PROVE  /\ IsNew(w, db[r]) /\ db[r].seq = x.seq /\ db[r].links = w.links[k]
               /\ db[r].age \in Nat /\ db[r].age <= 2 * Second
    <3>1. /\ db[r] \in Instance /\ Order(w, db[r]) = k /\ Known(w, f, db[r])
          /\ db[r].seq \in Nat /\ db[r].age \in Nat
      BY <1>1, <1>3, <1>4, <1>5, <2>3
    <3>2. IsNew(w, db[r]) /\ db[r].seq = x.seq
      <4>1. CASE w.refreshed = 0
        <5>1. k = 2 * db[r].seq
          BY <3>1, <4>1, OrderType
        <5> QED BY <1>3, <2>2, <3>1, <4>1, <5>1 DEF IsNew
      <4>2. CASE w.refreshed = 1
        <5>1. ~IsNew(w, db[r]) => k = 2 * db[r].seq
          BY <3>1, <4>2, OrderType
        <5>2. IsNew(w, db[r])
          BY <1>3, <2>2, <3>1, <4>2, <5>1
        <5>3. k = 2 * db[r].seq + 1
          BY <3>1, <4>2, <5>2, OrderType
        <5> QED BY <1>3, <2>2, <3>1, <4>2, <5>2, <5>3
      <4> QED BY <1>3, <4>1, <4>2
    <3>3. db[r].links = w.links[k]
      BY <3>1 DEF Known
    <3>4. db[r].age <= 2 * Second
      BY <1>3, <3>1, <3>2, NewAge
    <3> QED BY <3>1, <3>2, <3>3, <3>4
  <2>5. x.age \in Nat /\ x.age <= 2 * Second
    BY <1>3, <2>4 DEF x
  <2>6. \A r \in Router : Holds(r) /\ db[r].age < MaxAge
    <3> SUFFICES ASSUME NEW r \in Router PROVE Holds(r) /\ db[r].age < MaxAge
      OBVIOUS
    <3> QED BY <2>3, <2>4, FarApart
  <2>7. \A r \in Router : v.least <= db[r].age /\ db[r].age <= v.least + 2 * Second
    BY <2>1, <2>4, FarApart
  <2>8. v.least <= x.age + Second /\ x.age <= v.least + 3 * Second
    BY <2>1, <2>5, FarApart
  <2>9. \A r \in Router : Holds(r) => db[r].seq = v.seq /\ db[r].links = v.links[2 * v.seq]
    BY <2>1, <2>4
  <2> QED BY <1>7, <2>1, <2>6, <2>7, <2>8, <2>9
<1>9. CASE ~IsNew(w, x)
  <2> SUFFICES ASSUME NEW v, v = [w EXCEPT !.least = @ + Second]
               PROVE  v \in Situations /\ AtRest(v)'
    OBVIOUS
  <2>1. /\ v \in Situations /\ v.seq = w.seq /\ v.least = w.least + Second
        /\ v.links = w.links
    <3>1. w.least + Second \in Nat
      BY <1>3, FarApart
    <3> QED BY <3>1 DEF Situations
  <2>2. w.refreshed = 1 /\ OldCopies(w)
    BY <1>2, <1>3, <1>9 DEF OwnCopy, x
  <2>3. f[o] = 2 * w.seq
    <3>1. Known(w, f, x)
      BY <1>2, <1>3, <1>5 DEF x
    <3>2. x.seq = w.seq
      BY <1>9, <3>1 DEF Known
    <3> QED BY <1>3, <1>9, <2>2, <3>2, OrderType
  <2>4. ASSUME NEW r \in Router
        PROVE  /\ ~IsNew(w, db[r]) /\ db[r].seq = w.seq /\ db[r].links = w.links[2 * w.seq]
               /\ db[r].age \in Nat /\ Holds(r)
    <3>1. Holds(r)
      BY <2>2 DEF OldCopies
    <3>2. /\ db[r] \in Instance /\ Order(w, db[r]) = 2 * w.seq /\ Known(w, f, db[r])
          /\ db[r].seq \in Nat /\ db[r].age \in Nat
      BY <1>1, <1>4, <1>5, <2>3, <3>1
    <3>3. ~IsNew(w, db[r])
      <4>1. IsNew(w, db[r]) => 2 * w.seq = 2 * db[r].seq + 1
        BY <2>2, <3>2, OrderType
      <4> QED BY <1>3, <3>2, <4>1
    <3> QED BY <3>1, <3>2, <3>3 DEF Known
  <2>5. ASSUME NEW r \in Router \ {o}
        PROVE  v.least <= db[r].age /\ db[r].age <= v.least + 2 * Second
    <3>1. w.least <= AgeBefore(r) /\ AgeBefore(r) <= w.least + 2 * Second
      BY <2>2, <2>4 DEF OldCopies
    <3>2. AgeBefore(r) = db[r].age - Second
      BY <1>1, <2>4
    <3> QED BY <1>3, <2>1, <2>4, <3>1, <3>2, FarApart
  <2>6. w.least <= x.age /\ x.age <= w.least + 3 * Second + Delay /\ x.age \in Nat
    BY <1>3, <2>2, <2>4 DEF OldCopies, x
  <2>7. v.least <= x.age + Second /\ x.age <= v.least + 3 * Second
    BY <1>3, <2>1, <2>6, FarApart
  <2>8. w.least <= RefreshTime + Second
    BY <2>2 DEF OldCopies
  <2>9. ASSUME NEW r \in Router PROVE Holds(r) /\ db[r].age < MaxAge
    <3>1. CASE r = o
      BY <1>3, <2>4, <2>6, <2>8, <3>1, FarApart DEF x
    <3>2. CASE r # o
      BY <1>3, <2>1, <2>4, <2>5, <2>8, <3>2, FarApart
    <3> QED BY <3>1, <3>2
  <2> QED BY <1>7, <2>1, <2>4, <2>5, <2>7, <2>9
<1> QED BY <1>8, <1>9

LEMMA RestRound ==
  ASSUME TypeOK, Timed, TimesFarApart, NEW w \in Situations, AtRest(w), NextRound
  PROVE  \E v \in Situations : AtRest(v)'
<1> DEFINE o == Originator
<1> SUFFICES ASSUME NEW v, v = [w EXCEPT !.least = @ + Second]
             PROVE  v \in Situations /\ AtRest(v)'
  OBVIOUS
<1>1. /\ due = {} /\ due' = timer /\ db' = db /\ Quiet /\ Quiet'
      /\ \A e \in Adjacent : DOMAIN upd'[e] = {}
      /\ \A r : Holds(r)' = Holds(r)
      /\ \A r \in Router : Holds(r) =>
           /\ db[r] \in Instance /\ db[r].age \in Nat
           /\ AgeBefore(r) = db[r].age - Second
           /\ db[r].age < MaxAge \/ r = Originator => AgeBefore(r)' = db[r].age
  BY RoundBegins
<1>2. /\ w.least \in Nat /\ v \in Situations /\ v.seq = w.seq /\ v.least = w.least + Second
      /\ v.links = w.links /\ o \in Router
  <2>1. w.least \in Nat /\ w.least + Second \in Nat
    BY SituationType, FarApart
  <2> QED BY <2>1, Times DEF Situations
<1>3. \A r \in Router : Holds(r)' =>
        db'[r].seq = v.seq /\ db'[r].links = v.links[2 * v.seq]
  BY <1>1, <1>2 DEF AtRest
<1>4. ASSUME Holds(o)', AgeBefore(o)' <= RefreshTime PROVE Timely(v)'
  <2>1. /\ Holds(o) /\ AgeBefore(o)' = db[o].age /\ db[o].age \in Nat
        /\ AgeBefore(o) = db[o].age - Second
    BY <1>1, <1>2, <1>4
  <2>2. AgeBefore(o) <= RefreshTime
    BY <1>4, <2>1, FarApart
  <2>3. /\ \A r \in Router : Holds(r)
        /\ \A r \in Router \ {o} :
             w.least <= AgeBefore(r) /\ AgeBefore(r) <= w.least + 2 * Second
        /\ w.least <= AgeBefore(o) + Second /\ AgeBefore(o) <= w.least + 3 * Second
    BY <2>1, <2>2 DEF AtRest, Timely
  <2>4. \A r \in Router : Holds(r)'
    BY <1>1, <2>3
  <2>5. ASSUME NEW r \in Router \ {o}
        PROVE  v.least <= AgeBefore(r)' /\ AgeBefore(r)' <= v.least + 2 * Second
    <3>1. db[r].age \in Nat /\ AgeBefore(r) = db[r].age - Second
      BY <1>1, <2>3
    <3>2. db[r].age < MaxAge
      BY <1>2, <1>4, <2>1, <2>3, <3>1, FarApart
    <3>3. AgeBefore(r)' = db[r].age
      BY <1>1, <2>3, <3>2
    <3> QED BY <1>2, <2>3, <3>1, <3>3, FarApart
  <2>6. v.least <= AgeBefore(o)' + Second /\ AgeBefore(o)' <= v.least + 3 * Second
    BY <1>2, <2>1, <2>3, FarApart
  <2> QED BY <2>4, <2>5, <2>6 DEF Timely
<1> QED BY <1>1, <1>2, <1>3, <1>4 DEF AtRest

-----------------------------------------------------------------------------
(* Rounds in which the originator has made nothing yet.                    *)

LEMMA RestExpires ==
  ASSUME TypeOK, TimesFarApart, NEW w \in Situations, AtRest(w), NEW r \in Router,
         AgeLSA(r) \/ RemoveLSA(r)
  PROVE  AtRest(w)'
<1> DEFINE o == Originator
<1>1. /\ r \in due /\ due' = due \ {r} /\ UNCHANGED <<upd, chan>>
      /\ \A q \in Router : q # r => db'[q] = db[q] /\ (q \in due' <=> q \in due)
      /\ ~Holds(r) => AgeLSA(r)
      /\ AgeLSA(r) => db'[r] = IF Holds(r) THEN [db[r] EXCEPT !.age = @ + Second] ELSE NoLSA
      /\ RemoveLSA(r) => db[r].age = MaxAge /\ (db'[r] = NoLSA \/ db'[r] = db[r])
  <2>1. db \in [Router -> Instance \cup {NoLSA}]
    BY TypeSplit
  <2>2. CASE AgeLSA(r)
    BY <2>1, <2>2, Zenon DEF AgeLSA, RemoveLSA, Expires
  <2>3. CASE RemoveLSA(r)
    BY <2>1, <2>3 DEF AgeLSA, RemoveLSA, Expires, AtMaxAge
  <2> QED BY <2>2, <2>3
<1>2. \A q \in Router : q # r => Holds(q)' = Holds(q) /\ AgeBefore(q)' = AgeBefore(q)
  BY <1>1, SameCopy
<1>3. Quiet' /\ \A e \in Adjacent : DOMAIN upd'[e] = {}
  BY <1>1 DEF AtRest, Quiet
<1>4. \A q \in Router : Holds(q) =>
        db[q].seq = w.seq /\ db[q].links = w.links[2 * w.seq]
  BY DEF AtRest
<1>5. o \in Router
  BY Times
<1>6. ASSUME NEW x, x = db[r], Holds(r)
      PROVE  x \in Instance /\ x.age \in Nat /\ AgeBefore(r) = x.age
  <2>1. x \in Instance
    BY <1>6, TypeSplit DEF Holds
  <2> QED BY <1>1, <1>6, <2>1, InstanceType DEF AgeBefore
<1>7. CASE AgeLSA(r)
  <2>1. /\ Holds(r)' = Holds(r)
        /\ Holds(r) => /\ AgeBefore(r)' = AgeBefore(r)
                       /\ db'[r].seq = db[r].seq /\ db'[r].links = db[r].links
    <3>1. CASE ~Holds(r)
      BY <1>1, <1>7, <3>1 DEF Holds
    <3>2. CASE Holds(r)
      <4>1. PICK x \in Instance : x = db[r] /\ x.age \in Nat /\ AgeBefore(r) = x.age
        BY <1>6, <3>2
      <4>2. db'[r] = [x EXCEPT !.age = @ + Second]
        BY <1>1, <1>7, <3>2, <4>1
      <4>3. db'[r].age = x.age + Second /\ db'[r] # NoLSA /\ db'[r] \in Instance
        BY <4>1, <4>2, InstanceType, FarApart
      <4>4. db'[r].seq = x.seq /\ db'[r].links = x.links
        BY <4>1, <4>2 DEF Instance
      <4>5. AgeBefore(r)' = db'[r].age - Second
        BY <1>1 DEF AgeBefore
      <4>6. AgeBefore(r)' = AgeBefore(r)
        BY <4>1, <4>3, <4>5, FarApart
      <4> QED BY <3>2, <4>1, <4>3, <4>4, <4>6 DEF Holds
    <3> QED BY <3>1, <3>2
  <2>2. \A q \in Router : Holds(q)' = Holds(q) /\ (Holds(q) => AgeBefore(q)' = AgeBefore(q))
    BY <1>2, <2>1
  <2>3. \A q \in Router : Holds(q)' =>
          db'[q].seq = w.seq /\ db'[q].links = w.links[2 * w.seq]
    BY <1>1, <1>4, <2>1, <2>2
  <2>4. ASSUME Holds(o)', AgeBefore(o)' <= RefreshTime PROVE Timely(w)'
    <3>1. Timely(w)
      BY <1>5, <2>2, <2>4 DEF AtRest
    <3> QED BY <1>5, <2>2, <3>1 DEF Timely
  <2> QED BY <1>3, <2>3, <2>4 DEF AtRest
<1>8. CASE RemoveLSA(r)
  <2>1. PICK x \in Instance : x = db[r] /\ x.age = MaxAge /\ AgeBefore(r) = MaxAge /\ Holds(r)
    <3>1. Holds(r) /\ db[r].age = MaxAge
      BY <1>1, <1>8 DEF RemoveLSA, AtMaxAge
    <3> QED BY <1>6, <3>1
  <2>2. \A q \in Router : Holds(q)' => Holds(q) /\ db'[q] = db[q]
    BY <1>1, <1>2, <1>8, <2>1 DEF Holds
  <2>3. ~(Holds(o) /\ AgeBefore(o) <= RefreshTime)
    <3> SUFFICES ASSUME Holds(o), AgeBefore(o) <= RefreshTime PROVE FALSE
      OBVIOUS
    <3>1. Timely(w)
      BY DEF AtRest
    <3>2. CASE r = o
      BY <2>1, <3>2, FarApart
    <3>3. CASE r # o
      <4>1. AgeBefore(r) <= w.least + 2 * Second /\ w.least <= AgeBefore(o) + Second
        BY <3>1, <3>3 DEF Timely
      <4>2. AgeBefore(o) \in Int
        <5>1. db[o] \in Instance
          BY <1>5, TypeSplit DEF Holds
        <5> QED BY <5>1, InstanceType, FarApart DEF AgeBefore
      <4> QED BY <2>1, <4>1, <4>2, SituationType, FarApart
    <3> QED BY <3>2, <3>3
  <2>4. ~(Holds(o)' /\ AgeBefore(o)' <= RefreshTime)
    <3>1. CASE r # o
      BY <1>2, <1>5, <2>3, <3>1
    <3>2. CASE r = o
      <4> SUFFICES ASSUME Holds(o)', AgeBefore(o)' <= RefreshTime PROVE FALSE
        OBVIOUS
      <4>1. db'[o].age = MaxAge
        BY <1>5, <2>1, <2>2, <3>2
      <4>2. AgeBefore(o)' = MaxAge - Second
        BY <1>1, <3>2, <4>1 DEF AgeBefore
      <4> QED BY <4>2, FarApart
    <3> QED BY <3>1, <3>2
  <2>5. \A q \in Router : Holds(q)' =>
          db'[q].seq = w.seq /\ db'[q].links = w.links[2 * w.seq]
    BY <1>4, <2>2
  <2> QED BY <1>3, <2>4, <2>5 DEF AtRest
<1> QED BY <1>7, <1>8

(* The originator makes an instance when all others, if they have one,     *)
(* have that of the beginning of the round.                                *)
LEMMA BusyMade ==
  ASSUME TypeOK, TimesFarApart, NEW v \in Situations, NEW ls \in Instance,
         Quiet, \A e \in Adjacent : DOMAIN upd[e] = {},
         ls.age = 0, IsNew(v, ls), ls.links = v.links[Order(v, ls)],
         db' = [db EXCEPT ![Originator] = ls],
         Transmit(chan, retrans, upd, Flood(Originator, ls, Originator), Originator),
         \A r \in Router \ {Originator} : Holds(r) =>
           /\ ~IsNew(v, db[r]) /\ db[r].seq = v.seq /\ db[r].links = v.links[2 * v.seq],
         v.refreshed = 1 => OldCopies(v)'
  PROVE  Busy(v)'
<1> DEFINE o == Originator
           k == Order(v, ls)
           sent == Flood(o, ls, o)
           y == [ls EXCEPT !.age = @ + Delay]
<1> SUFFICES ASSUME NEW g, g = [r \in Router |-> IF r = o THEN k ELSE 2 * v.seq]
             PROVE  Busy(v)'
  OBVIOUS
<1>1. /\ v.refreshed \in {0, 1} /\ v.seq \in Nat /\ ls.seq \in Nat /\ o \in Router
      /\ k \in Nat
      /\ v.refreshed = 0 => k = 2 * ls.seq /\ ls.seq > v.seq
      /\ v.refreshed = 1 => k = 2 * ls.seq + 1
  BY SituationType, InstanceType, Times, OrderType DEF IsNew
<1>2. /\ g \in Levels /\ g[o] = k
      /\ \A r \in Router : r # o => g[r] = 2 * v.seq
  BY <1>1 DEF Levels
<1>3. db'[o] = ls /\ \A r \in Router : r # o => db'[r] = db[r]
  <2>1. db \in [Router -> Instance \cup {NoLSA}]
    BY TypeSplit
  <2> QED BY <1>1, <2>1
<1>4. Holds(o)' /\ \A r \in Router : r # o => Holds(r)' = Holds(r)
  BY <1>3, SameCopy, InstanceType DEF Holds
<1>5. ASSUME NEW r \in Router, r # o, Holds(r)
      PROVE  Order(v, db[r]) = 2 * v.seq /\ ~IsNew(v, db[r]) /\ Known(v, g, db[r])
  <2>1. ~IsNew(v, db[r]) /\ db[r].seq = v.seq /\ db[r].links = v.links[2 * v.seq]
    BY <1>5
  <2>2. db[r] \in Instance
    BY <1>5, LevelType
  <2>3. Order(v, db[r]) = 2 * v.seq
    BY <1>1, <2>1, <2>2, OrderType
  <2> QED BY <2>1, <2>3 DEF Known
<1>6. Level(v)' = g
  <2>1. ASSUME NEW r \in Router
        PROVE  (IF Holds(r)' THEN Order(v, db'[r]) ELSE 2 * v.seq) = g[r]
    <3>1. CASE r = o
      BY <1>2, <1>3, <1>4, <3>1
    <3>2. CASE r # o
      BY <1>2, <1>3, <1>4, <1>5, <3>2
    <3> QED BY <3>1, <3>2
  <2>2. Level(v)' = [r \in Router |-> g[r]]
    BY <2>1, LevelAfter
  <2> QED BY <1>2, <2>2 DEF Levels
<1>7. Known(v, g, ls) /\ Order(v, y) = k /\ Sent(v, g, o, y)
  BY <1>2, MadeSent
<1> HIDE DEF y, k
<1>8. KnownCopies(v)'
  <2>1. \A r \in Router : Holds(r)' => Known(v, g, db'[r])
    BY <1>3, <1>4, <1>5, <1>7
  <2>2. ASSUME NEW r \in Router \ {o}
        PROVE  g[r] >= 2 * v.seq /\ ~(Holds(r)' /\ IsNew(v, db'[r]))
    BY <1>1, <1>2, <1>3, <1>4, <1>5
  <2> QED BY <1>6, <2>1, <2>2 DEF KnownCopies
<1>9. OwnCopy(v)'
  BY <1>3, <1>4 DEF OwnCopy
<1>10. Updates(<<>>) = {}
  BY DEF Updates, In
<1>11. /\ SentOnLinks(v, g, chan) /\ SentFromStore(v, g, upd)
       /\ chan \in Links /\ sent \in Sending
  BY <1>10, TypeSplit, FloodType DEF Quiet, SentOnLinks, SentFromStore
<1>12. SentOnLinks(v, g, sent)
  BY <1>7, FloodSent DEF y
<1>13. \A e \in Adjacent : e[1] = o =>
         /\ HasOrder(v, sent[e], k)
         /\ \A n \in Nat : 2 * ls.seq + 1 < n => HasOlder(sent[e], n)
  <2> SUFFICES ASSUME NEW e \in Adjacent, e[1] = o
               PROVE  /\ HasOrder(v, sent[e], k)
                      /\ \A n \in Nat : 2 * ls.seq + 1 < n => HasOlder(sent[e], n)
    OBVIOUS
  <2>1. e[2] # o
    BY LinkType
  <2> QED BY <1>7, <2>1, FloodSent DEF y
<1> HIDE DEF sent
<1>14. /\ SentOnLinks(v, g, chan') /\ SentFromStore(v, g, upd')
       /\ \A e \in Adjacent : Updates(chan'[e]) = Updates(chan[e]) \cup Updates(sent[e])
  <2>1. Transmit(chan, retrans, upd, sent, o)
    BY DEF sent
  <2> QED BY ONLY <1>11, <1>12, <2>1, TransmitSent, ZenonT(60)
<1>15. Reaches(v, g, chan')
  <2> SUFFICES ASSUME NEW e \in Adjacent, g[e[1]] > g[e[2]]
               PROVE  \/ HasOrder(v, chan'[e], g[e[1]])
                      \/ e[2] = o /\ HasOlder(chan'[<<e[2], e[1]>>], g[e[1]])
    BY DEF Reaches
  <2>1. /\ e[1] \in Router /\ e[2] \in Router /\ <<e[2], e[1]>> \in Adjacent
    BY LinkType
  <2>2. CASE e[1] = o
    <3>1. HasOrder(v, sent[e], k)
      BY <1>13, <2>2
    <3>2. HasOrder(v, chan'[e], k)
      BY <1>14, <3>1 DEF HasOrder
    <3> QED BY <1>2, <2>2, <3>2
  <2>3. CASE e[1] # o
    <3>1. g[e[1]] = 2 * v.seq /\ 2 * v.seq \in Nat
      BY <1>1, <1>2, <2>1, <2>3
    <3>2. e[2] = o
      BY <1>2, <2>1, <3>1
    <3>3. 2 * ls.seq + 1 < 2 * v.seq
      BY <1>1, <1>2, <3>1, <3>2
    <3>4. HasOlder(sent[<<e[2], e[1]>>], 2 * v.seq)
      BY <1>13, <2>1, <3>1, <3>2, <3>3
    <3>5. HasOlder(chan'[<<e[2], e[1]>>], 2 * v.seq)
      BY <1>14, <2>1, <3>4 DEF HasOlder
    <3> QED BY <3>1, <3>2, <3>5
  <2> QED BY <2>2, <2>3
<1> QED BY <1>6, <1>8, <1>9, <1>14, <1>15 DEF Busy

(* It is refreshed: all have a copy of about its age.                      *)
LEMMA RestRefresh ==
  ASSUME TypeOK, TimesFarApart, NEW w \in Situations, AtRest(w), NEW r \in Router, RefreshLSA(r)
  PROVE  \E v \in Situations : Busy(v)'
<1> DEFINE o == Originator
           ls == Refreshed(o)
<1> SUFFICES ASSUME NEW v, v = [refreshed |-> 1, seq |-> w.seq, least |-> w.least,
                                links |-> [w.links EXCEPT ![1] = w.links[2 * w.seq]]]
             PROVE  v \in Situations /\ Busy(v)'
  OBVIOUS
<1>1. /\ r = o /\ o \in due /\ due' = due \ {o} /\ Holds(o) /\ db[o].age = RefreshTime
      /\ db' = [db EXCEPT ![o] = ls]
      /\ Transmit(chan, retrans, upd, Flood(o, ls, o), o)
  BY DEF RefreshLSA, RefreshDue, Expires
<1>2. w.seq \in Nat /\ w.least \in Nat /\ w.links \in [Nat -> Nat] /\ o \in Router
  BY SituationType, Times
<1>3. /\ v \in Situations /\ v.refreshed = 1 /\ v.seq = w.seq /\ v.least = w.least
      /\ v.links[1] = w.links[2 * w.seq] /\ v.links[2 * w.seq] = w.links[2 * w.seq]
  <2>1. 2 * w.seq \in Nat /\ 1 \in Nat /\ 2 * w.seq # 1
    BY <1>2
  <2>2. [w.links EXCEPT ![1] = w.links[2 * w.seq]] \in [Nat -> Nat]
    BY <1>2, <2>1
  <2> QED BY <1>2, <2>1, <2>2 DEF Situations
<1>4. /\ Quiet /\ \A e \in Adjacent : DOMAIN upd[e] = {}
      /\ \A q \in Router : Holds(q) =>
           db[q].seq = w.seq /\ db[q].links = w.links[2 * w.seq]
      /\ Holds(o) /\ AgeBefore(o) <= RefreshTime => Timely(w)
  BY DEF AtRest
<1>5. AgeBefore(o) = RefreshTime
  BY <1>1, FarApart DEF AgeBefore
<1>6. /\ \A q \in Router : Holds(q)
      /\ \A q \in Router \ {o} :
           w.least <= AgeBefore(q) /\ AgeBefore(q) <= w.least + 2 * Second
      /\ w.least <= RefreshTime + Second /\ RefreshTime <= w.least + 3 * Second
  BY <1>1, <1>4, <1>5, FarApart DEF Timely
<1>7. /\ ls \in Instance /\ ls.seq = 0 /\ ls.age = 0 /\ ls.links = w.links[2 * w.seq]
  <2>1. db[o] \in Instance /\ db[o].links = w.links[2 * w.seq]
    BY <1>1, <1>2, <1>4, LevelType
  <2> QED BY <2>1, RefreshedType
<1> HIDE DEF ls
<1>8. IsNew(v, ls) /\ Order(v, ls) = 1
  BY <1>3, <1>7, FarApart DEF IsNew, Order
<1>9. ASSUME NEW q \in Router \ {o} PROVE ~IsNew(v, db[q])
  <2>1. db[q] \in Instance /\ db[q].age \in Nat
    BY <1>6, LevelType, InstanceType
  <2>2. db[q].age >= AgeBefore(q) /\ w.least <= AgeBefore(q)
    BY <1>6, <2>1, FarApart DEF AgeBefore
  <2>3. AgeBefore(q) \in Int
    BY <2>1, FarApart DEF AgeBefore
  <2>4. ~(db[q].age <= Spread(Router))
    BY <1>2, <1>6, <2>1, <2>2, <2>3, FarApart
  <2> QED BY <1>3, <2>4 DEF IsNew
<1>10. /\ db'[o] = ls
       /\ \A q \in Router : q # o => db'[q] = db[q] /\ (q \in due' <=> q \in due)
  <2>1. db \in [Router -> Instance \cup {NoLSA}]
    BY TypeSplit
  <2> QED BY <1>1, <1>2, <2>1
<1>11. OldCopies(v)'
  <2>1. \A q \in Router : q # o => Holds(q)' = Holds(q) /\ AgeBefore(q)' = AgeBefore(q)
    BY <1>10, SameCopy
  <2>2. \A q \in Router : Holds(q)'
    BY <1>6, <1>7, <1>10, <2>1, InstanceType DEF Holds
  <2>3. o \notin due' /\ IsNew(v, db'[o])
    BY <1>1, <1>8, <1>10
  <2>4. \A q \in Router \ {o} :
          v.least <= AgeBefore(q)' /\ AgeBefore(q)' <= v.least + 2 * Second
    BY <1>3, <1>6, <2>1
  <2>5. RefreshTime <= v.least + 3 * Second /\ v.least <= RefreshTime + Second
    BY <1>3, <1>6
  <2> QED BY <2>2, <2>3, <2>4, <2>5 DEF OldCopies
<1>12. \A q \in Router \ {o} : Holds(q) =>
         ~IsNew(v, db[q]) /\ db[q].seq = v.seq /\ db[q].links = v.links[2 * v.seq]
  BY <1>3, <1>4, <1>9
<1>13. ls.links = v.links[Order(v, ls)]
  BY <1>3, <1>7, <1>8
<1>14. Busy(v)'
  BY ONLY TypeOK, TimesFarApart, <1>1, <1>3, <1>4, <1>7, <1>8, <1>11, <1>12, <1>13, BusyMade
<1> QED BY <1>3, <1>14

(* Its links have changed.                                                 *)
LEMMA RestChange ==
  ASSUME TypeOK, TimesFarApart, NEW w \in Situations, AtRest(w), LinkStateChanged
  PROVE  \E v \in Situations : Busy(v)'
<1> DEFINE o == Originator
           ls == Changed(db[o])
<1> SUFFICES ASSUME NEW v, v = [refreshed |-> 0, seq |-> w.seq, least |-> 0,
                                links |-> [w.links EXCEPT ![2 * (w.seq + 1)] = changes + 1]]
             PROVE  v \in Situations /\ Busy(v)'
  OBVIOUS
<1>1. /\ Holds(o) /\ db' = [db EXCEPT ![o] = ls]
      /\ Transmit(chan, retrans, upd, Flood(o, ls, o), o)
  BY DEF LinkStateChanged
<1>2. w.seq \in Nat /\ w.links \in [Nat -> Nat] /\ o \in Router /\ changes \in Nat
  BY SituationType, Times, TypeSplit
<1>3. /\ v \in Situations /\ v.refreshed = 0 /\ v.seq = w.seq
      /\ v.links[2 * (w.seq + 1)] = changes + 1 /\ v.links[2 * w.seq] = w.links[2 * w.seq]
  <2>1. 2 * w.seq \in Nat /\ 2 * (w.seq + 1) \in Nat /\ 2 * w.seq # 2 * (w.seq + 1)
        /\ changes + 1 \in Nat
    BY <1>2
  <2>2. [w.links EXCEPT ![2 * (w.seq + 1)] = changes + 1] \in [Nat -> Nat]
    BY <1>2, <2>1
  <2> QED BY <1>2, <2>1, <2>2 DEF Situations
<1>4. /\ Quiet /\ \A e \in Adjacent : DOMAIN upd[e] = {}
      /\ \A q \in Router : Holds(q) =>
           db[q].seq = w.seq /\ db[q].links = w.links[2 * w.seq]
  BY DEF AtRest
<1>5. ls \in Instance /\ ls.seq = w.seq + 1 /\ ls.age = 0 /\ ls.links = changes + 1
  <2>1. db[o].seq = w.seq
    BY <1>1, <1>2, <1>4
  <2> QED BY <1>2, <2>1, ChangedType
<1> HIDE DEF ls
<1>6. IsNew(v, ls) /\ Order(v, ls) = 2 * (w.seq + 1)
  BY <1>2, <1>3, <1>5 DEF IsNew, Order
<1>7. \A q \in Router \ {o} : Holds(q) =>
        ~IsNew(v, db[q]) /\ db[q].seq = v.seq /\ db[q].links = v.links[2 * v.seq]
  BY <1>2, <1>3, <1>4 DEF IsNew
<1>8. ls.links = v.links[Order(v, ls)]
  BY <1>3, <1>5, <1>6
<1>9. v.refreshed = 1 => OldCopies(v)'
  BY <1>3
<1>10. Busy(v)'
  BY ONLY TypeOK, TimesFarApart, <1>1, <1>3, <1>4, <1>5, <1>6, <1>7, <1>8, <1>9, BusyMade
<1> QED BY <1>3, <1>10

-----------------------------------------------------------------------------
LEMMA AgreeingInit ==
  ASSUME TimesFarApart, Init
  PROVE  Agreeing
<1> DEFINE o == Originator
<1>1. PICK s \in InitSeqs, age \in [Router -> {0, Delay}] :
        /\ age[o] = 0
        /\ db = [r \in Router |-> [seq |-> s, age |-> age[r], links |-> 0]]
  BY DEF Init
<1>2. due = Router /\ \A e \in Adjacent : chan[e] = <<>> /\ upd[e] = NoUpdates
  BY DEF Init
<1> DEFINE w == [refreshed |-> 0, seq |-> s, least |-> 0, links |-> [n \in Nat |-> 0]]
<1>3. s \in Nat /\ o \in Router
  BY AgingAssumption
<1>4. w \in Situations /\ w.seq = s /\ w.least = 0 /\ w.links[2 * w.seq] = 0
  <2>1. 2 * s \in Nat /\ [n \in Nat |-> 0] \in [Nat -> Nat]
    BY <1>3
  <2> QED BY <1>3, <2>1 DEF Situations
<1> HIDE DEF w
<1>5. \A r \in Router : /\ Holds(r) /\ db[r].seq = s /\ db[r].links = 0
                        /\ AgeBefore(r) = 0 \/ AgeBefore(r) = Delay
  <2> SUFFICES ASSUME NEW r \in Router
               PROVE  /\ Holds(r) /\ db[r].seq = s /\ db[r].links = 0
                      /\ AgeBefore(r) = 0 \/ AgeBefore(r) = Delay
    OBVIOUS
  <2>1. db[r] = [seq |-> s, age |-> age[r], links |-> 0] /\ age[r] \in {0, Delay}
    BY <1>1
  <2>2. db[r] # NoLSA
    BY <2>1 DEF NoLSA
  <2> QED BY <1>2, <2>1, <2>2, FarApart DEF Holds, AgeBefore
<1>6. Quiet /\ \A e \in Adjacent : DOMAIN upd[e] = {}
  BY <1>2 DEF Quiet, NoUpdates
<1>7. Timely(w)
  <2>1. \A r \in Router : /\ w.least <= AgeBefore(r) /\ AgeBefore(r) <= w.least + 2 * Second
                          /\ w.least <= AgeBefore(r) + Second
                          /\ AgeBefore(r) <= w.least + 3 * Second
    BY <1>4, <1>5, FarApart
  <2> QED BY <1>3, <1>5, <2>1 DEF Timely
<1>8. AtRest(w)
  BY <1>4, <1>5, <1>6, <1>7 DEF AtRest
<1> QED BY <1>4, <1>8 DEF Agreeing

LEMMA AgreeingStep ==
  ASSUME Connected, TimesFarApart, TypeOK, Timed, Agreeing, [Next]_vars
  PROVE  Agreeing'
<1>1. PICK w \in Situations : AtRest(w) \/ Busy(w)
  BY DEF Agreeing
<1> SUFFICES \E v \in Situations : AtRest(v)' \/ Busy(v)'
  BY DEF Agreeing
<1>2. ASSUME NEW r \in Router, RefreshLSA(r) PROVE \E v \in Situations : Busy(v)'
  BY <1>1, <1>2, RestRefresh, BusyNotRefreshed
<1>3. ASSUME NEW r \in Router, RemoveLSA(r) \/ AgeLSA(r) PROVE AtRest(w)' \/ Busy(w)'
  BY <1>1, <1>3, RestExpires, BusyAge, BusyRemove
<1>4. ASSUME NEW s, NEW r, Deliver(s, r) PROVE Busy(w)'
  <2>1. ~Quiet
    <3>1. PICK type : Arrives(s, r, type)
      BY <1>4 DEF Deliver, InstallLSA, EqualLSA, OlderLSA, ReceiveAck
    <3> QED BY <3>1, ArrivalType
  <2>2. Busy(w)
    BY <1>1, <2>1 DEF AtRest
  <2> QED BY <1>4, <2>2, BusyInstall, BusyOther DEF Deliver
<1>5. ASSUME NEW e \in Adjacent, ResendUpdates(e) PROVE Busy(w)'
  <2>1. DOMAIN upd[e] # {}
    BY <1>5 DEF ResendUpdates
  <2>2. Busy(w)
    BY <1>1, <2>1 DEF AtRest
  <2> QED BY <1>5, <2>2, BusyResend
<1>6. ASSUME LinkStateChanged PROVE \E v \in Situations : Busy(v)'
  BY <1>1, <1>6, RestChange, BusyChange
<1>7. ASSUME NextRound PROVE \E v \in Situations : AtRest(v)'
  BY <1>1, <1>7, RestRound, BusyRound
<1>8. ASSUME UNCHANGED vars PROVE AtRest(w)' \/ Busy(w)'
  <2>1. UNCHANGED <<db, due, upd, chan>>
    BY <1>8 DEF vars
  <2>2. CASE AtRest(w)
    <3>1. \A r : Holds(r)' = Holds(r) /\ AgeBefore(r)' = AgeBefore(r)
      BY <2>1 DEF Holds, AgeBefore
    <3>2. Timely(w) => Timely(w)'
      BY <3>1 DEF Timely
    <3>3. AtRest(w)'
      BY <2>1, <2>2, <3>1, <3>2 DEF AtRest, Quiet
    <3> QED BY <3>3
  <2>3. CASE Busy(w)
    <3>1. SentOnLinks(w, Level(w), chan') /\ SentFromStore(w, Level(w), upd')
          /\ Reaches(w, Level(w), chan')
      BY <2>1, <2>3 DEF Busy
    <3> QED BY <2>1, <2>3, <3>1, BusySame
  <2> QED BY <1>1, <2>2, <2>3
<1> QED BY <1>1, <1>2, <1>3, <1>4, <1>5, <1>6, <1>7, <1>8 DEF Next

(* At every router the same, when nothing is on its way: also during a     *)
(* round.                                                                  *)
LEMMA AgreeingAgree ==
  ASSUME Connected, TimesFarApart, TypeOK, Agreeing
  PROVE  AgreeWhenQuiet
<1> SUFFICES ASSUME Quiet, NEW r \in Router, NEW q \in Router, Holds(r), Holds(q)
             PROVE  db[r].seq = db[q].seq /\ db[r].links = db[q].links
  BY DEF AgreeWhenQuiet
<1>1. PICK w \in Situations : AtRest(w) \/ Busy(w)
  BY DEF Agreeing
<1>2. CASE AtRest(w)
  BY <1>2 DEF AtRest
<1>3. CASE Busy(w)
  <2>1. Level(w)[r] = Level(w)[q]
    BY <1>3, AllLevel
  <2>2. /\ db[r] \in Instance /\ Order(w, db[r]) = Level(w)[r] /\ Known(w, Level(w), db[r])
        /\ db[q] \in Instance /\ Order(w, db[q]) = Level(w)[q] /\ Known(w, Level(w), db[q])
    BY <1>3, LevelType DEF Busy, KnownCopies
  <2>3. db[r].links = db[q].links
    BY <2>1, <2>2 DEF Known
  <2>4. db[r].seq \in Nat /\ db[q].seq \in Nat
    BY <2>2, InstanceType
  <2>5. /\ Order(w, db[r]) = 2 * db[r].seq \/ Order(w, db[r]) = 2 * db[r].seq + 1
        /\ Order(w, db[q]) = 2 * db[q].seq \/ Order(w, db[q]) = 2 * db[q].seq + 1
    BY <2>2, OrderType
  <2>6. db[r].seq = db[q].seq
    BY <2>1, <2>2, <2>4, <2>5
  <2> QED BY <2>3, <2>6
<1> QED BY <1>1, <1>2, <1>3

(* AgreeWhenQuiet: in a connected network whose times are as far apart as  *)
(* those of utils.h, whenever no packets are on the links and all is       *)
(* acknowledged the routers that hold the LSA hold the same instance,      *)
(* contents and all.  That is so although the comparison of two instances  *)
(* by their ages is no order, a refresh starts the sequence numbers again, *)
(* and a change reuses numbers of instances still held elsewhere: whatever *)
(* the network, the numbers the LSA begins with, the changes of its links, *)
(* the order of the timers and packets, and the repetitions.               *)
THEOREM CopiesAgree ==
  ASSUME Connected, TimesFarApart
  PROVE  Spec => []AgreeWhenQuiet
<1>1. Init => Timed /\ Agreeing
  BY TimedInit, AgreeingInit
<1>2. TypeOK /\ (Timed /\ Agreeing) /\ [Next]_vars => (Timed /\ Agreeing)'
  <2> SUFFICES ASSUME TypeOK, Timed, Agreeing, [Next]_vars PROVE Timed' /\ Agreeing'
    OBVIOUS
  <2>1. KeptAreUnacked' /\ OriginatorAtRest' /\ HeldAreAged'
    BY KeptStep, RestAndHeld DEF Timed
  <2> QED BY <2>1, AgreeingStep DEF Timed
<1>3. TypeOK /\ Agreeing => AgreeWhenQuiet
  BY AgreeingAgree
<1> QED BY <1>1, <1>2, <1>3, TypeCorrect, PTL DEF Spec
=============================================================================
