-------------------------- MODULE LsRoutingProofs --------------------------
(***************************************************************************)
(* Proofs about LsRouting: no acknowledgement cancels a timer that is not  *)
(* pending, and routes are those of the database (Inv); the types; and,    *)
(* as long as no link has come up, that news stays pending at the peers    *)
(* that lack it and that quiet routers agree (Flooding).                   *)
(*                                                                         *)
(* Shape is as much of the types as the first two need: what messages      *)
(* contain does not matter to either.                                      *)
(***************************************************************************)
EXTENDS LsRouting, TLAPS, FiniteSetTheorems

Shape ==
  /\ made \in Nat
  /\ up \subseteq Adjacent
  /\ timer \subseteq Adjacent
  /\ unacked = [e \in Adjacent |-> unacked[e]]
  /\ \A e \in Adjacent :
       unacked[e] = [tpm |-> unacked[e].tpm,
                     lsa |-> [o \in DOMAIN unacked[e].lsa |-> unacked[e].lsa[o]]]
  /\ db = [r \in Router |-> [o \in Router |-> db[r][o]]]
  /\ routed = [r \in Router |-> routed[r]]

Inv == Shape /\ TimersCoverUnacked /\ RoutesAreCurrent

-----------------------------------------------------------------------------
(* What messageOut leaves of a peer it sends nothing to, and that what it  *)
(* sends is unacknowledged.                                                *)
LEMMA PositionsAreNumbers ==
  ASSUME NEW S \in SUBSET Router, NEW o
  PROVE  Position(S, o) \in Nat /\ Cardinality(S) \in Nat
<1>1. IsFiniteSet(S)
  BY FS_Subset, RouterAssumption
<1>2. IsFiniteSet({p \in S : p <= o})
  BY <1>1, FS_Subset
<1> QED
  BY <1>1, <1>2, FS_CardinalityType DEF Position

LEMMA NothingSent ==
  ASSUME NEW pending, NEW all,
         pending = [tpm |-> pending.tpm,
                    lsa |-> [o \in DOMAIN pending.lsa |-> pending.lsa[o]]]
  PROVE  MessageOut(pending, {}, all) = pending
<1>1. DOMAIN pending.lsa \cup {all[id].origin : id \in {} \ {id \in {} : all[id].type = "TPM"}}
        = DOMAIN pending.lsa
  OBVIOUS
<1>2. {id \in {} : all[id].type = "TPM"} = {}
  OBVIOUS
<1> QED
  BY <1>1, <1>2 DEF MessageOut

(* No message that is sent is a topology map with an invalid id.           *)
Valid(ids, all) == \A id \in ids : id = None => all[id].type # "TPM"

LEMMA SomethingSent ==
  ASSUME NEW pending, NEW all, NEW ids, ids # {}, Valid(ids, all)
  PROVE  MessageOut(pending, ids, all) # NothingUnacked
<1> DEFINE tpms == {id \in ids : all[id].type = "TPM"}
           origins == {all[id].origin : id \in ids \ tpms}
<1>1. MessageOut(pending, ids, all).tpm
        = IF tpms = {} THEN pending.tpm ELSE CHOOSE id \in tpms : TRUE
  BY DEF MessageOut
<1>2. DOMAIN MessageOut(pending, ids, all).lsa = DOMAIN pending.lsa \cup origins
  BY DEF MessageOut
<1>3. CASE tpms = {}
  <2>1. origins # {}
    BY <1>3
  <2>2. DOMAIN NothingUnacked.lsa = {}
    BY DEF NothingUnacked
  <2> QED
    BY <1>2, <2>1, <2>2
<1>4. CASE tpms # {}
  <2>1. (CHOOSE id \in tpms : TRUE) \in tpms
    BY <1>4
  <2>2. MessageOut(pending, ids, all).tpm # 0
    BY <1>1, <1>4, <2>1 DEF Valid, None
  <2> QED
    BY <2>2 DEF NothingUnacked, None
<1> QED
  BY <1>3, <1>4

LEMMA SentShape ==
  ASSUME NEW pending, NEW all, NEW ids
  PROVE  LET m == MessageOut(pending, ids, all)
         IN m = [tpm |-> m.tpm, lsa |-> [o \in DOMAIN m.lsa |-> m.lsa[o]]]
BY DEF MessageOut

(* Sending keeps timers and unacknowledged messages together.              *)
LEMMA SendKeepsTimers ==
  ASSUME NEW sent, NEW pending, NEW timers \in SUBSET Adjacent, NEW all,
         \A e \in Adjacent : Valid(sent[e], all),
         \A e \in Adjacent :
           pending[e] = [tpm |-> pending[e].tpm,
                         lsa |-> [o \in DOMAIN pending[e].lsa |-> pending[e].lsa[o]]],
         \A e \in Adjacent : e \in timers <=> pending[e] # NothingUnacked,
         SendRecorded(sent, pending, timers, all)
  PROVE  /\ TimersCoverUnacked'
         /\ timer' \subseteq Adjacent
         /\ unacked' = [e \in Adjacent |-> unacked'[e]]
         /\ \A e \in Adjacent :
              unacked'[e] = [tpm |-> unacked'[e].tpm,
                             lsa |-> [o \in DOMAIN unacked'[e].lsa |-> unacked'[e].lsa[o]]]
<1>1. \A e \in Adjacent : unacked'[e] = MessageOut(pending[e], sent[e], all)
  BY DEF SendRecorded
<1>2. ASSUME NEW e \in Adjacent
      PROVE  e \in timer' <=> unacked'[e] # NothingUnacked
  <2>1. CASE sent[e] = {}
    <3>1. unacked'[e] = pending[e]
      BY <1>1, <2>1, NothingSent
    <3> QED
      BY <2>1, <3>1 DEF SendRecorded
  <2>2. CASE sent[e] # {}
    BY <1>1, <2>2, SomethingSent DEF SendRecorded
  <2> QED
    BY <2>1, <2>2
<1>3. ASSUME NEW e \in Adjacent
      PROVE  unacked'[e] = [tpm |-> unacked'[e].tpm,
                            lsa |-> [o \in DOMAIN unacked'[e].lsa |-> unacked'[e].lsa[o]]]
  BY <1>1, SentShape
<1>4. timer' \subseteq Adjacent /\ unacked' = [e \in Adjacent |-> unacked'[e]]
  BY DEF SendRecorded
<1> QED
  BY <1>2, <1>3, <1>4 DEF TimersCoverUnacked

(* Erasing what is acknowledged keeps the shape of what is left.           *)
LEMMA ErasedShape ==
  ASSUME NEW pending, NEW m,
         pending = [tpm |-> pending.tpm,
                    lsa |-> [o \in DOMAIN pending.lsa |-> pending.lsa[o]]]
  PROVE  LET left == Erased(pending, m)
         IN left = [tpm |-> left.tpm, lsa |-> [o \in DOMAIN left.lsa |-> left.lsa[o]]]
<1>1. CASE m.type = "TPMACK"
  <2> DEFINE t == IF pending.tpm = m.seq THEN None ELSE pending.tpm
  <2>1. Erased(pending, m) = [tpm |-> t, lsa |-> pending.lsa]
    BY <1>1 DEF Erased
  <2>2. pending.lsa = [o \in DOMAIN pending.lsa |-> pending.lsa[o]]
    OBVIOUS
  <2> QED
    BY <2>1, <2>2
<1>2. CASE m.type # "TPMACK"
  <2> DEFINE l == [o \in {p \in DOMAIN pending.lsa :
                            ~(p = m.origin /\ pending.lsa[p].seq = m.seq)} |-> pending.lsa[o]]
  <2>1. Erased(pending, m) = [tpm |-> pending.tpm, lsa |-> l]
    BY <1>2 DEF Erased
  <2> HIDE DEF l
  <2>2. l = [o \in DOMAIN l |-> l[o]]
    BY DEF l
  <2> QED
    BY <2>1, <2>2
<1> QED
  BY <1>1, <1>2

(* The routes of the routers that compute are those of the new records;    *)
(* the others must not have changed theirs.                                *)
LEMMA ComputingKeepsRoutes ==
  ASSUME NEW computing \in SUBSET Router, NEW records,
         RoutesAreCurrent,
         \A r \in Router \ computing : records[r] = db[r],
         db' = records,
         ComputeRoutes(computing, records)
  PROVE  RoutesAreCurrent' /\ routed' = [r \in Router |-> routed'[r]]
BY DEF RoutesAreCurrent, ComputeRoutes, Links

-----------------------------------------------------------------------------
LEMMA InitEstablishesInv == Init => Inv
<1> SUFFICES ASSUME Init PROVE Inv
  OBVIOUS
<1>1. Cardinality(Started) \in Nat
  BY PositionsAreNumbers, StartedAssumption
<1>2. Shape
  <2>1. \A e \in Adjacent : unacked[e] = NothingUnacked
    BY DEF Init
  <2>2. NothingUnacked = [tpm |-> NothingUnacked.tpm,
           lsa |-> [o \in DOMAIN NothingUnacked.lsa |-> NothingUnacked.lsa[o]]]
    BY DEF NothingUnacked
  <2>3. unacked = [e \in Adjacent |-> unacked[e]]
    BY DEF Init
  <2>4. db = [r \in Router |-> [o \in Router |-> db[r][o]]]
    BY DEF Init
  <2>5. made \in Nat /\ up \subseteq Adjacent /\ timer \subseteq Adjacent
        /\ routed = [r \in Router |-> routed[r]]
    BY <1>1 DEF Init
  <2> QED
    BY <2>1, <2>2, <2>3, <2>4, <2>5 DEF Shape
<1>3. TimersCoverUnacked
  BY DEF Init, TimersCoverUnacked
<1>4. RoutesAreCurrent
  BY DEF Init, RoutesAreCurrent, Links
<1> QED
  BY <1>2, <1>3, <1>4 DEF Inv

(* The acknowledgement part of Inv, after a handler that only sends.       *)
LEMMA SendFromInv ==
  ASSUME Inv, NEW sent, NEW all,
         \A e \in Adjacent : Valid(sent[e], all),
         SendRecorded(sent, unacked, timer, all)
  PROVE  /\ TimersCoverUnacked' /\ timer' \subseteq Adjacent
         /\ unacked' = [e \in Adjacent |-> unacked'[e]]
         /\ \A e \in Adjacent :
              unacked'[e] = [tpm |-> unacked'[e].tpm,
                             lsa |-> [o \in DOMAIN unacked'[e].lsa |-> unacked'[e].lsa[o]]]
<1>1. timer \in SUBSET Adjacent
  BY DEF Inv, Shape
<1>2. \A e \in Adjacent : e \in timer <=> unacked[e] # NothingUnacked
  BY DEF Inv, TimersCoverUnacked
<1>3. \A e \in Adjacent :
        unacked[e] = [tpm |-> unacked[e].tpm,
                      lsa |-> [o \in DOMAIN unacked[e].lsa |-> unacked[e].lsa[o]]]
  BY DEF Inv, Shape
<1> QED
  BY <1>1, <1>2, <1>3, SendKeepsTimers

(* A handler that touches neither links, databases, routes nor what is     *)
(* unacknowledged.                                                         *)
LEMMA UntouchedKeepsInv ==
  ASSUME Inv, UNCHANGED <<up, db, routed, unacked, timer, made>>
  PROVE  Inv'
BY DEF Inv, Shape, TimersCoverUnacked, RoutesAreCurrent, Links

LEMMA PeriodicUpdateKeepsInv ==
  ASSUME Inv, NEW r \in Router, PeriodicUpdate(r)
  PROVE  Inv'
<1> DEFINE id == made + 1
           all == Append(messages, LSA(r, id, db[r][r].links))
           sent == [e \in Adjacent |-> IF e[1] = r /\ e \in up THEN {id} ELSE {}]
<1>1. /\ made' = id /\ db' = [db EXCEPT ![r][r].seq = id] /\ up' = up
      /\ routed' = routed /\ SendRecorded(sent, unacked, timer, all)
  BY DEF PeriodicUpdate
<1>2. id \in Nat \ {0}
  BY DEF Inv, Shape
<1>3. \A e \in Adjacent : Valid(sent[e], all)
  BY <1>2 DEF Valid, None
<1> HIDE DEF sent, all, id
<1>4. /\ TimersCoverUnacked' /\ timer' \subseteq Adjacent
      /\ unacked' = [e \in Adjacent |-> unacked'[e]]
      /\ \A e \in Adjacent :
           unacked'[e] = [tpm |-> unacked'[e].tpm,
                          lsa |-> [o \in DOMAIN unacked'[e].lsa |-> unacked'[e].lsa[o]]]
  BY <1>1, <1>3, SendFromInv
<1>5. db' = [q \in Router |-> [o \in Router |-> db'[q][o]]]
  BY <1>1 DEF Inv, Shape
<1>6. \A q \in Router : Links(db'[q]) = Links(db[q])
  BY <1>1 DEF Inv, Shape, Links
<1>7. RoutesAreCurrent'
  BY <1>1, <1>6 DEF Inv, RoutesAreCurrent
<1>8. made' \in Nat /\ up' \subseteq Adjacent /\ routed' = [q \in Router |-> routed'[q]]
  BY <1>1, <1>2 DEF Inv, Shape
<1> QED
  BY <1>4, <1>5, <1>7, <1>8 DEF Inv, Shape

LEMMA LinkChangesKeepsInv ==
  ASSUME Inv, NEW link \in Adjacent, LinkChanges(link)
  PROVE  Inv'
<1> DEFINE now == IF link \in up THEN up \ {link, Reverse2(link)} ELSE up \cup {link, Reverse2(link)}
           comesUp == link \in now
           ends == {link[1], link[2]}
           first == made + 1
           second == first + IF comesUp THEN 2 ELSE 1
           IdOf(r) == IF r = link[1] THEN first ELSE second
           Made(r) == IF comesUp
                      THEN <<LSA(r, IdOf(r), UpPeers(r, now)), TPM(r, IdOf(r) + 1)>>
                      ELSE <<LSA(r, IdOf(r), UpPeers(r, now))>>
           all == messages \o Made(link[1]) \o Made(link[2])
           sent == [e \in Adjacent |->
                      IF e[1] \notin ends \/ e \notin now THEN {}
                      ELSE IF e[2] \in ends /\ comesUp THEN {IdOf(e[1]), IdOf(e[1]) + 1}
                      ELSE {IdOf(e[1])}]
           records == [r \in Router |->
                         IF r \in ends
                         THEN [db[r] EXCEPT ![r] = [seq |-> IdOf(r), links |-> UpPeers(r, now)]]
                         ELSE db[r]]
           pending == [e \in Adjacent |-> IF Cancelled(e, {link} \ now) THEN NothingUnacked
                                          ELSE unacked[e]]
           timers == {e \in timer : ~Cancelled(e, {link} \ now)}
<1>1. /\ up' = now /\ made' = second + (second - first) - 1 /\ db' = records
      /\ ComputeRoutes(ends, records)
      /\ SendRecorded(sent, pending, timers, all)
  BY DEF LinkChanges
<1>2. ends \in SUBSET Router /\ {link, Reverse2(link)} \subseteq Adjacent
  BY AdjacentAssumption DEF Reverse2
<1>3. first \in Nat \ {0} /\ second \in Nat \ {0} /\ made' \in Nat
  BY <1>1 DEF Inv, Shape
<1>4. \A e \in Adjacent : Valid(sent[e], all)
  <2> HIDE DEF now, first, second, all
  <2> QED
    BY <1>3 DEF Valid, None
<1>5. now \subseteq Adjacent
  BY <1>2 DEF Inv, Shape
<1>6. /\ RoutesAreCurrent'
      /\ routed' = [r \in Router |-> routed'[r]]
  <2> \A r \in Router \ ends : records[r] = db[r]
    OBVIOUS
  <2> HIDE DEF records, ends
  <2> QED
    BY <1>1, <1>2, ComputingKeepsRoutes DEF Inv
<1>7. db' = [r \in Router |-> [o \in Router |-> db'[r][o]]]
  <2>1. \A r \in Router : db[r] = [o \in Router |-> db[r][o]]
    BY DEF Inv, Shape
  <2> HIDE DEF IdOf, now
  <2> QED
    BY <1>1, <2>1
<1>8. /\ TimersCoverUnacked' /\ timer' \subseteq Adjacent
      /\ unacked' = [e \in Adjacent |-> unacked'[e]]
      /\ \A e \in Adjacent :
           unacked'[e] = [tpm |-> unacked'[e].tpm,
                          lsa |-> [o \in DOMAIN unacked'[e].lsa |-> unacked'[e].lsa[o]]]
  <2>1. timers \in SUBSET Adjacent
    BY DEF Inv, Shape
  <2>2. \A e \in Adjacent : e \in timers <=> pending[e] # NothingUnacked
    BY DEF Inv, TimersCoverUnacked
  <2>3. NothingUnacked = [tpm |-> NothingUnacked.tpm,
           lsa |-> [o \in DOMAIN NothingUnacked.lsa |-> NothingUnacked.lsa[o]]]
    BY DEF NothingUnacked
  <2>4. \A e \in Adjacent :
          pending[e] = [tpm |-> pending[e].tpm,
                        lsa |-> [o \in DOMAIN pending[e].lsa |-> pending[e].lsa[o]]]
    BY <2>3 DEF Inv, Shape
  <2> HIDE DEF sent, pending, timers, all
  <2> QED
    BY <1>1, <1>4, <2>1, <2>2, <2>4, SendKeepsTimers
<1> QED
  BY <1>1, <1>3, <1>5, <1>6, <1>7, <1>8 DEF Inv, Shape

LEMMA ReceiveNewLSAKeepsInv ==
  ASSUME Inv, NEW e \in Adjacent, NEW id, messages[id].type = "LSA",
         ReceiveNewLSA(e, id)
  PROVE  Inv'
<1> DEFINE m == messages[id]
           r == e[2]
           records == [db EXCEPT ![r][m.origin] = [seq |-> m.seq, links |-> m.links]]
<1>1. /\ UNCHANGED <<up, made>>
      /\ SendRecorded(Forwards(e, id), unacked, timer, messages)
      /\ IF m.content
         THEN /\ db' = records
              /\ IF records[r][m.origin].links # db[r][m.origin].links
                 THEN ComputeRoutes({r}, records)
                 ELSE UNCHANGED <<routed, exited>>
         ELSE UNCHANGED <<db, routed, exited>>
  BY DEF ReceiveNewLSA, storage
<1>2. r \in Router
  BY AdjacentAssumption
<1>3. \A f \in Adjacent : Valid(Forwards(e, id)[f], messages)
  BY DEF Forwards, Valid
<1>4. /\ TimersCoverUnacked' /\ timer' \subseteq Adjacent
      /\ unacked' = [f \in Adjacent |-> unacked'[f]]
      /\ \A f \in Adjacent :
           unacked'[f] = [tpm |-> unacked'[f].tpm,
                          lsa |-> [o \in DOMAIN unacked'[f].lsa |-> unacked'[f].lsa[o]]]
  BY <1>1, <1>3, SendFromInv
<1>5. db = [q \in Router |-> [o \in Router |-> db[q][o]]]
  BY DEF Inv, Shape
<1>6. records = [q \in Router |-> [o \in Router |-> records[q][o]]]
  BY <1>5
<1>7. /\ RoutesAreCurrent' /\ routed' = [q \in Router |-> routed'[q]]
      /\ db' = [q \in Router |-> [o \in Router |-> db'[q][o]]]
  <2>1. CASE ~m.content
    BY <1>1, <1>5, <2>1 DEF Inv, Shape, RoutesAreCurrent, Links
  <2>2. ASSUME m.content, records[r][m.origin].links # db[r][m.origin].links
        PROVE  /\ RoutesAreCurrent' /\ routed' = [q \in Router |-> routed'[q]]
               /\ db' = [q \in Router |-> [o \in Router |-> db'[q][o]]]
    <3>1. \A q \in Router \ {r} : records[q] = db[q]
      BY <1>5
    <3>2. db' = records /\ ComputeRoutes({r}, records)
      BY <1>1, <2>2
    <3> HIDE DEF records
    <3> QED
      BY <1>2, <1>6, <3>1, <3>2, ComputingKeepsRoutes DEF Inv
  <2>3. ASSUME m.content, records[r][m.origin].links = db[r][m.origin].links
        PROVE  /\ RoutesAreCurrent' /\ routed' = [q \in Router |-> routed'[q]]
               /\ db' = [q \in Router |-> [o \in Router |-> db'[q][o]]]
    <3>1. db' = records /\ routed' = routed
      BY <1>1, <2>3
    <3>2. \A q, o \in Router : records[q][o].links = db[q][o].links
      BY <1>5, <2>3
    <3> HIDE DEF records
    <3>3. \A q \in Router : Links(db'[q]) = Links(db[q])
      BY <3>1, <3>2 DEF Links
    <3>4. RoutesAreCurrent'
      BY <3>1, <3>3 DEF Inv, RoutesAreCurrent
    <3>5. routed' = [q \in Router |-> routed'[q]]
      BY <3>1 DEF Inv, Shape
    <3> QED
      BY <1>6, <3>1, <3>4, <3>5
  <2> QED
    BY <2>1, <2>2, <2>3
<1> QED
  BY <1>1, <1>4, <1>7 DEF Inv, Shape

LEMMA ReceiveTopoKeepsInv ==
  ASSUME Inv, NEW e \in Adjacent, NEW id, ReceiveTopo(e, id)
  PROVE  Inv'
<1> DEFINE m == messages[id]
           s == e[1]
           r == e[2]
           newer == Newer(r, s)
           all == messages \o Regenerate(r, s)
           sent == [f \in Adjacent |->
                      IF f[1] = r /\ f \in up /\ f[2] # s
                      THEN {made + Position(Newer(r, s), o) : o \in Newer(r, s) \ {f[2]}} ELSE {}]
           records == [db EXCEPT ![r] = [o \in Router |->
                         IF o \in Newer(r, s) THEN db[s][o] ELSE db[r][o]]]
<1>1. r \in Router /\ s \in Router
  BY AdjacentAssumption
<1>2. CASE ~IsNewMessage(tpmHistory[r], m)
  <2>1. UNCHANGED <<up, db, routed, unacked, timer, made>>
    BY <1>2 DEF ReceiveTopo, storage
  <2> QED
    BY <2>1, UntouchedKeepsInv
<1>3. CASE IsNewMessage(tpmHistory[r], m)
  <2>1. /\ up' = up /\ db' = records /\ made' = made + Cardinality(newer)
        /\ SendRecorded(sent, unacked, timer, all)
        /\ IF newer # {} THEN ComputeRoutes({r}, records)
           ELSE UNCHANGED <<routed, exited>>
    BY <1>3 DEF ReceiveTopo
  <2>2. newer \in SUBSET Router /\ made \in Nat
    BY DEF Newer, Inv, Shape
  <2>3. \A o \in newer : made + Position(newer, o) \in Nat /\ Position(newer, o) # 0
    <3> SUFFICES ASSUME NEW o \in newer
                 PROVE  made + Position(newer, o) \in Nat /\ Position(newer, o) # 0
      OBVIOUS
    <3> HIDE DEF newer
    <3>1. Position(newer, o) \in Nat
      BY <2>2, PositionsAreNumbers
    <3>2. IsFiniteSet({p \in newer : p <= o})
      BY <2>2, FS_Subset, RouterAssumption
    <3>3. o \in {p \in newer : p <= o}
      BY <2>2, RouterAssumption
    <3>4. Position(newer, o) # 0
      BY <3>2, <3>3, FS_EmptySet DEF Position
    <3> QED
      BY <3>1, <3>4, <2>2
  <2>4. \A f \in Adjacent : Valid(sent[f], all)
    <3> HIDE DEF all
    <3>1. \A o \in newer : made + Position(newer, o) # 0
      <4> SUFFICES ASSUME NEW o \in newer PROVE made + Position(newer, o) # 0
        OBVIOUS
      <4> HIDE DEF newer
      <4>1. Position(newer, o) \in Nat /\ Position(newer, o) # 0
        BY <2>2, <2>3, PositionsAreNumbers
      <4> QED
        BY <2>2, <4>1
    <3> QED
      BY <3>1 DEF Valid, None
  <2>5. /\ TimersCoverUnacked' /\ timer' \subseteq Adjacent
        /\ unacked' = [f \in Adjacent |-> unacked'[f]]
        /\ \A f \in Adjacent :
             unacked'[f] = [tpm |-> unacked'[f].tpm,
                            lsa |-> [o \in DOMAIN unacked'[f].lsa |-> unacked'[f].lsa[o]]]
    <3> HIDE DEF sent, all
    <3> QED
      BY <2>1, <2>4, SendFromInv
  <2>6. db = [q \in Router |-> [o \in Router |-> db[q][o]]]
    BY DEF Inv, Shape
  <2>7. db' = [q \in Router |-> [o \in Router |-> db'[q][o]]]
    BY <2>1, <2>6
  <2>8. RoutesAreCurrent' /\ routed' = [q \in Router |-> routed'[q]]
    <3>1. CASE newer = {}
      <4>1. \A q, o \in Router : records[q][o] = db[q][o]
        BY <2>6, <3>1
      <4>2. db' = records /\ routed' = routed
        BY <2>1, <3>1
      <4> HIDE DEF records
      <4> QED
        BY <4>1, <4>2 DEF Inv, Shape, RoutesAreCurrent, Links
    <3>2. CASE newer # {}
      <4>1. \A q \in Router \ {r} : records[q] = db[q]
        BY <2>6
      <4>2. db' = records /\ ComputeRoutes({r}, records)
        BY <2>1, <3>2
      <4> HIDE DEF records
      <4> QED
        BY <1>1, <4>1, <4>2, ComputingKeepsRoutes DEF Inv
    <3> QED
      BY <3>1, <3>2
  <2>9. made' \in Nat
    BY <2>1, <2>2, PositionsAreNumbers
  <2> QED
    BY <2>1, <2>5, <2>7, <2>8, <2>9 DEF Inv, Shape
<1> QED
  BY <1>2, <1>3

LEMMA ReceiveAckKeepsInv ==
  ASSUME Inv, NEW e \in Adjacent, NEW m, ReceiveAck(e, m)
  PROVE  Inv'
<1> DEFINE f == Reverse2(e)
           left == Erased(unacked[f], m)
<1>1. f \in Adjacent
  BY AdjacentAssumption DEF Reverse2
<1>2. CASE unacked[f] = NothingUnacked
  <2>1. UNCHANGED <<up, db, routed, unacked, timer, made>>
    BY <1>2 DEF ReceiveAck, routing, storage
  <2> QED
    BY <2>1, UntouchedKeepsInv
<1>3. CASE unacked[f] # NothingUnacked
  <2>1. /\ UNCHANGED <<up, db, routed, made>>
        /\ unacked' = [unacked EXCEPT ![f] = left]
        /\ timer' = IF left = NothingUnacked THEN timer \ {f} ELSE timer
    BY <1>3 DEF ReceiveAck, routing, storage
  <2>2. left = [tpm |-> left.tpm, lsa |-> [o \in DOMAIN left.lsa |-> left.lsa[o]]]
    <3>1. unacked[f] = [tpm |-> unacked[f].tpm,
                        lsa |-> [o \in DOMAIN unacked[f].lsa |-> unacked[f].lsa[o]]]
      BY <1>1 DEF Inv, Shape
    <3> QED
      BY <3>1, ErasedShape
  <2> HIDE DEF left, f
  <2>3. Shape'
    BY <1>1, <2>1, <2>2 DEF Inv, Shape
  <2>4. TimersCoverUnacked'
    BY <1>1, <1>3, <2>1 DEF Inv, Shape, TimersCoverUnacked
  <2>5. RoutesAreCurrent'
    BY <2>1 DEF Inv, RoutesAreCurrent, Links
  <2> QED
    BY <2>3, <2>4, <2>5 DEF Inv
<1> QED
  BY <1>2, <1>3

LEMMA NextKeepsInv == Inv /\ [Next]_vars => Inv'
<1> SUFFICES ASSUME Inv, [Next]_vars PROVE Inv'
  OBVIOUS
<1>1. CASE UNCHANGED vars
  BY <1>1, UntouchedKeepsInv DEF vars
<1>2. ASSUME NEW r \in Router, PeriodicUpdate(r) PROVE Inv'
  BY <1>2, PeriodicUpdateKeepsInv
<1>3. ASSUME NEW e \in Adjacent, LinkChanges(e) PROVE Inv'
  BY <1>3, LinkChangesKeepsInv
<1>4. ASSUME NEW e \in Adjacent, ReceiveMessage(e) PROVE Inv'
  <2> DEFINE m == Head(chan[e])
  <2>1. CASE ReceiveAck(e, m)
    BY <2>1, ReceiveAckKeepsInv
  <2>2. CASE ReceiveRecycled(e)
    BY <2>2, UntouchedKeepsInv DEF ReceiveRecycled, routing, storage
  <2>3. CASE ReceiveTopo(e, m.id)
    BY <2>3, ReceiveTopoKeepsInv
  <2>4. CASE ReceiveLSA(e, m.id)
    <3>1. CASE ReceiveOldLSA(e, m.id)
      BY <3>1, UntouchedKeepsInv DEF ReceiveOldLSA, routing, storage
    <3>2. CASE ReceiveNewLSA(e, m.id)
      BY <2>4, <3>2, ReceiveNewLSAKeepsInv DEF ReceiveLSA
    <3> QED
      BY <2>4, <3>1, <3>2 DEF ReceiveLSA
  <2> QED
    BY <1>4, <2>1, <2>2, <2>3, <2>4 DEF ReceiveMessage
<1>5. ASSUME NEW e \in Adjacent, ResendMessages(e) PROVE Inv'
  BY <1>5, UntouchedKeepsInv DEF ResendMessages, routing, storage
<1>6. ASSUME NEW e \in Adjacent, Lose(e) PROVE Inv'
  BY <1>6, UntouchedKeepsInv DEF Lose, routing, storage
<1> QED
  BY <1>1, <1>2, <1>3, <1>4, <1>5, <1>6 DEF Next

-----------------------------------------------------------------------------
(* A timer is pending exactly while its peer has something to acknowledge, *)
(* so that ackIn never cancels an idle one.                                *)
THEOREM TimersAreCovered == Spec => []TimersCoverUnacked
<1>1. Inv => TimersCoverUnacked
  BY DEF Inv
<1> QED
  BY InitEstablishesInv, NextKeepsInv, <1>1, PTL DEF Spec

(* The routing table is always that of the topology in the database.       *)
THEOREM RoutesFollowDatabase == Spec => []RoutesAreCurrent
<1>1. Inv => RoutesAreCurrent
  BY DEF Inv
<1> QED
  BY InitEstablishesInv, NextKeepsInv, <1>1, PTL DEF Spec

-----------------------------------------------------------------------------
(* Numbers in ascending order.                                             *)
LEMMA PositionBounds ==
  ASSUME NEW S \in SUBSET Nat, IsFiniteSet(S), NEW n \in S
  PROVE  Position(S, n) \in 1..Cardinality(S)
<1> DEFINE T == {m \in S : m <= n}
<1>1. T \in SUBSET S /\ n \in T
  OBVIOUS
<1>2. IsFiniteSet(T) /\ Cardinality(T) <= Cardinality(S)
  BY <1>1, FS_Subset
<1>3. Cardinality(T) \in Nat /\ Cardinality(S) \in Nat /\ Cardinality(T) # 0
  BY <1>1, <1>2, FS_CardinalityType, FS_EmptySet
<1> QED BY <1>2, <1>3 DEF Position

LEMMA PositionOrder ==
  ASSUME NEW S \in SUBSET Nat, IsFiniteSet(S), NEW m \in S, NEW n \in S, m < n
  PROVE  Position(S, m) < Position(S, n)
<1> DEFINE M == {i \in S : i <= m}
           N == {i \in S : i <= n}
<1>0. m \in Nat /\ n \in Nat /\ \A i \in S : i \in Nat
  OBVIOUS
<1>1. M \in SUBSET N /\ n \in N /\ n \notin M /\ N \in SUBSET S
  <2>1. \A i \in S : i <= m => i <= n
    BY <1>0
  <2>2. n <= n /\ ~(n <= m)
    BY <1>0
  <2>3. M \subseteq N
    BY <2>1
  <2>4. n \in N /\ n \notin M
    BY <2>2
  <2> QED BY <2>3, <2>4
<1> HIDE DEF M, N
<1>2. IsFiniteSet(N) /\ IsFiniteSet(M)
  BY <1>1, FS_Subset
<1>3. Cardinality(M) <= Cardinality(N) /\ Cardinality(M) # Cardinality(N)
  BY <1>1, <1>2, FS_Subset
<1>4. Cardinality(M) \in Nat /\ Cardinality(N) \in Nat
  BY <1>2, FS_CardinalityType
<1>5. Cardinality(M) < Cardinality(N)
  BY <1>3, <1>4
<1> QED BY <1>5 DEF Position, M, N

LEMMA PositionOnto ==
  ASSUME NEW S \in SUBSET Nat, IsFiniteSet(S), NEW i \in 1..Cardinality(S)
  PROVE  \E n \in S : Position(S, n) = i
<1> SUFFICES ASSUME \A n \in S : Position(S, n) # i PROVE FALSE
  OBVIOUS
<1> DEFINE c == Cardinality(S)
           T == (1..c) \ {i}
           f == [n \in S |-> Position(S, n)]
<1>1. c \in Nat
  BY FS_CardinalityType
<1>2. IsFiniteSet(1..c) /\ Cardinality(1..c) = c
  <2> HIDE DEF c
  <2>1. IsFiniteSet(1..c) /\ Cardinality(1..c) = IF 1 > c THEN 0 ELSE c - 1 + 1
    BY <1>1, FS_Interval
  <2> QED BY <1>1, <2>1
<1>3. IsFiniteSet(T) /\ Cardinality(T) = c - 1
  BY <1>2, FS_RemoveElement, ZenonT(60)
<1>4. f \in [S -> T]
  BY PositionBounds
<1>5. Cardinality(T) < Cardinality(S)
  BY <1>1, <1>3
<1> HIDE DEF T, f
<1>6. PICK m, n \in S : m # n /\ f[m] = f[n]
  BY <1>3, <1>4, <1>5, FS_PigeonHole
<1>7. Position(S, m) = Position(S, n)
  BY <1>6 DEF f
<1>8. Position(S, m) \in Nat /\ Position(S, n) \in Nat /\ (m < n \/ n < m)
  <2>1. Position(S, m) \in 1..Cardinality(S) /\ Position(S, n) \in 1..Cardinality(S)
    BY PositionBounds
  <2> QED BY <1>1, <1>6, <2>1
<1>9. CASE m < n
  <2>1. Position(S, m) < Position(S, n)
    BY <1>9, PositionOrder
  <2> QED BY <1>7, <1>8, <2>1
<1>10. CASE n < m
  <2>1. Position(S, n) < Position(S, m)
    BY <1>10, PositionOrder
  <2> QED BY <1>7, <1>8, <2>1
<1> QED BY <1>8, <1>9, <1>10

LEMMA AscendingFacts ==
  ASSUME NEW S \in SUBSET Nat, IsFiniteSet(S)
  PROVE  /\ Ascending(S) \in Seq(S) /\ Len(Ascending(S)) = Cardinality(S)
         /\ \A n \in S : Ascending(S)[Position(S, n)] = n
         /\ \A n \in S : Position(S, n) \in 1..Cardinality(S)
<1>1. Cardinality(S) \in Nat
  BY FS_CardinalityType
<1>2. \A i \in 1..Cardinality(S) :
        /\ Ascending(S)[i] = CHOOSE n \in S : Position(S, n) = i
        /\ Ascending(S)[i] \in S /\ Position(S, Ascending(S)[i]) = i
  BY PositionOnto DEF Ascending
<1>3. Ascending(S) \in [1..Cardinality(S) -> S]
  BY <1>2 DEF Ascending
<1>4. Ascending(S) \in Seq(S) /\ Len(Ascending(S)) = Cardinality(S)
  BY <1>1, <1>3
<1>5. ASSUME NEW n \in S PROVE Ascending(S)[Position(S, n)] = n
  <2> DEFINE k == Ascending(S)[Position(S, n)]
  <2>1. Position(S, n) \in 1..Cardinality(S) /\ Position(S, n) \in Nat
    BY PositionBounds
  <2>2. k \in S /\ Position(S, k) = Position(S, n)
    BY <1>2, <2>1
  <2>3. n \in Nat /\ k \in Nat
    BY <2>2
  <2> HIDE DEF k
  <2>4. ~(k < n) /\ ~(n < k)
    BY <2>1, <2>2, PositionOrder
  <2>5. k = n
    BY <2>3, <2>4
  <2> QED BY <2>5 DEF k
<1> QED BY <1>4, <1>5, PositionBounds

-----------------------------------------------------------------------------
(* The types: the parts of TypeOK that sending disturbs, and the others.   *)
PendingOK(p, all) ==
  /\ p.tpm \in 0..Len(all)
  /\ DOMAIN p.lsa \subseteq Router
  /\ \A o \in DOMAIN p.lsa : p.lsa[o].id \in 1..Len(all) /\ all[p.lsa[o].id].origin = o

QueueOK(queue, n) ==
  /\ queue \in Seq(Packet)
  /\ \A i \in DOMAIN queue : queue[i].type = "message" => queue[i].id \in 1..n

SendingOK ==
  /\ timer \subseteq Adjacent
  /\ messages \in Seq(Message) /\ made = Len(messages)
  /\ DOMAIN unacked = Adjacent /\ \A e \in Adjacent : PendingOK(unacked[e], messages)
  /\ chan = [e \in Adjacent |-> chan[e]] /\ \A e \in Adjacent : QueueOK(chan[e], made)

TablesOK ==
  /\ up \subseteq Adjacent
  /\ db \in [Router -> [Router -> Record]]
  /\ lsaHistory \in [Router -> [Router -> Nat]]
  /\ tpmHistory \in [Router -> [Router -> Nat]]
  /\ routed \in [Router -> [Router -> SUBSET Router]]
  /\ exited \in BOOLEAN
  /\ changes \in Nat /\ updates \in Nat /\ lost \in Nat

LEMMA TypeParts == TypeOK <=> SendingOK /\ TablesOK
<1>1. TypeOK => TablesOK
  BY DEF TypeOK, TablesOK
<1>2. TypeOK => SendingOK
  BY DEF TypeOK, SendingOK, PendingOK, QueueOK
<1>3. SendingOK /\ TablesOK => TypeOK
  <2> SUFFICES ASSUME SendingOK, TablesOK PROVE TypeOK
    OBVIOUS
  <2>1. chan \in [Adjacent -> Seq(Packet)]
    BY DEF SendingOK, QueueOK
  <2> QED BY <2>1 DEF TypeOK, TablesOK, SendingOK, PendingOK, QueueOK
<1> QED BY <1>1, <1>2, <1>3

LEMMA TypePartsNext == TypeOK' <=> SendingOK' /\ TablesOK'
<1>1. TypeOK' => TablesOK'
  BY DEF TypeOK, TablesOK
<1>2. TypeOK' => SendingOK'
  BY DEF TypeOK, SendingOK, PendingOK, QueueOK
<1>3. SendingOK' /\ TablesOK' => TypeOK'
  <2> SUFFICES ASSUME SendingOK', TablesOK' PROVE TypeOK'
    OBVIOUS
  <2>1. chan' \in [Adjacent -> Seq(Packet)]
    BY DEF SendingOK, QueueOK
  <2> QED BY <2>1 DEF TypeOK, TablesOK, SendingOK, PendingOK, QueueOK
<1> QED BY <1>1, <1>2, <1>3

(* Messages are only ever added.                                           *)
Extends(all, old) ==
  /\ all \in Seq(Message) /\ Len(old) <= Len(all)
  /\ \A i \in 1..Len(old) : all[i] = old[i]

LEMMA Extended ==
  ASSUME messages \in Seq(Message), NEW more \in Seq(Message)
  PROVE  /\ Extends(messages \o more, messages)
         /\ Len(messages \o more) = Len(messages) + Len(more)
         /\ \A i \in 1..Len(more) : (messages \o more)[Len(messages) + i] = more[i]
BY DEF Extends

LEMMA PendingExtends ==
  ASSUME messages \in Seq(Message), NEW all, Extends(all, messages),
         NEW p, PendingOK(p, messages)
  PROVE  PendingOK(p, all)
<1>1. Len(messages) \in Nat /\ Len(all) \in Nat /\ Len(messages) <= Len(all)
  BY DEF Extends
<1>2. \A i \in 1..Len(messages) : i \in 1..Len(all) /\ all[i] = messages[i]
  BY <1>1 DEF Extends
<1>3. p.tpm \in 0..Len(all)
  BY <1>1 DEF PendingOK
<1> QED BY <1>2, <1>3 DEF PendingOK

LEMMA MessageOutType ==
  ASSUME NEW all \in Seq(Message), NEW ids \in SUBSET (1..Len(all)), NEW p, PendingOK(p, all)
  PROVE  PendingOK(MessageOut(p, ids, all), all)
<1> DEFINE tpms == {id \in ids : all[id].type = "TPM"}
           lsas == ids \ tpms
           OfOrigin(o) == CHOOSE id \in lsas : all[id].origin = o
           origins == {all[id].origin : id \in lsas}
           q == MessageOut(p, ids, all)
<1>1. q.tpm = IF tpms = {} THEN p.tpm ELSE CHOOSE id \in tpms : TRUE
  BY DEF MessageOut
<1>2. DOMAIN q.lsa = DOMAIN p.lsa \cup origins
  BY DEF MessageOut
<1>3. \A o \in DOMAIN q.lsa :
        q.lsa[o] = IF o \in origins THEN [id |-> OfOrigin(o), seq |-> all[OfOrigin(o)].seq]
                   ELSE p.lsa[o]
  BY DEF MessageOut
<1>4. tpms \subseteq 1..Len(all) /\ lsas \subseteq 1..Len(all) /\ Len(all) \in Nat
  <2>1. Len(all) \in Nat
    OBVIOUS
  <2>2. tpms \subseteq ids /\ lsas \subseteq ids
    OBVIOUS
  <2> HIDE DEF tpms, lsas
  <2> QED BY <2>1, <2>2
<1>5. \A o \in origins : OfOrigin(o) \in lsas /\ all[OfOrigin(o)].origin = o
  <2> TAKE o \in origins
  <2>1. \E id \in lsas : all[id].origin = o
    OBVIOUS
  <2> QED BY <2>1
<1>6. q.tpm \in 0..Len(all)
  <2>1. CASE tpms = {}
    BY <1>1, <2>1 DEF PendingOK
  <2>2. CASE tpms # {}
    <3>1. q.tpm \in tpms
      BY <1>1, <2>2
    <3> QED BY <1>4, <3>1
  <2> QED BY <2>1, <2>2
<1>7. origins \subseteq Router
  <2>1. \A id \in 1..Len(all) : all[id] \in Message
    OBVIOUS
  <2>2. \A id \in 1..Len(all) : all[id].origin \in Router
    BY <2>1 DEF Message
  <2> QED BY <1>4, <2>2
<1> HIDE DEF tpms, lsas, origins, OfOrigin, q
<1>8. \A o \in DOMAIN q.lsa : q.lsa[o].id \in 1..Len(all) /\ all[q.lsa[o].id].origin = o
  <2> TAKE o \in DOMAIN q.lsa
  <2>1. CASE o \in origins
    <3>0. q.lsa[o] = [id |-> OfOrigin(o), seq |-> all[OfOrigin(o)].seq]
      BY <1>3, <2>1, Zenon
    <3>1. q.lsa[o].id = OfOrigin(o)
      BY <3>0
    <3> QED BY <1>4, <1>5, <2>1, <3>1
  <2>2. CASE o \notin origins
    <3>1. q.lsa[o] = p.lsa[o] /\ o \in DOMAIN p.lsa
      BY <1>2, <1>3, <2>2
    <3> QED BY <3>1 DEF PendingOK
  <2> QED BY <2>1, <2>2
<1>9. DOMAIN q.lsa \subseteq Router
  BY <1>2, <1>7 DEF PendingOK
<1>10. PendingOK(q, all)
  BY <1>6, <1>8, <1>9 DEF PendingOK
<1> QED BY <1>10 DEF q

(* What is sent of messages 1 to n.                                        *)
LEMMA PacketsFacts ==
  ASSUME NEW n \in Nat, NEW ids \in SUBSET (1..n)
  PROVE  /\ Packets(Ascending(ids)) \in Seq(Packet)
         /\ \A i \in 1..Len(Packets(Ascending(ids))) :
              \E id \in ids : Packets(Ascending(ids))[i] = Named(id)
<1>1. ids \in SUBSET Nat /\ IsFiniteSet(ids)
  <2>1. IsFiniteSet(1..n)
    BY FS_Interval
  <2>2. IsFiniteSet(ids)
    BY <2>1, FS_Subset
  <2> QED BY <2>2
<1>2. Ascending(ids) \in Seq(ids)
  BY <1>1, AscendingFacts
<1> DEFINE a == Ascending(ids)
<1> HIDE DEF a
<1>3. a \in Seq(ids)
  BY <1>2 DEF a
<1>4. /\ Packets(a) = [i \in 1..Len(a) |-> Named(a[i])] /\ Len(a) \in Nat
      /\ \A i \in 1..Len(a) : a[i] \in ids
  BY <1>3 DEF Packets
<1>5. \A id \in ids : Named(id) \in Packet
  BY <1>1 DEF Named, Packet
<1>6. Packets(a) \in Seq(Packet) /\ Len(Packets(a)) = Len(a)
  <2>1. Packets(a) \in [1..Len(a) -> Packet]
    BY <1>4, <1>5
  <2> QED BY <1>4, <2>1
<1>7. \A i \in 1..Len(Packets(a)) : \E id \in ids : Packets(a)[i] = Named(id)
  BY <1>4, <1>6
<1> QED BY <1>6, <1>7 DEF a

(* One queue after another.                                                *)
LEMMA ConcatFacts ==
  ASSUME NEW n, NEW queue, QueueOK(queue, n), NEW more, QueueOK(more, n)
  PROVE  /\ QueueOK(queue \o more, n)
         /\ \A i \in DOMAIN (queue \o more) :
              \/ i \in DOMAIN queue /\ (queue \o more)[i] = queue[i]
              \/ \E j \in DOMAIN more : (queue \o more)[i] = more[j]
<1>1. /\ queue \in Seq(Packet) /\ more \in Seq(Packet)
      /\ DOMAIN queue = 1..Len(queue) /\ DOMAIN more = 1..Len(more)
  BY DEF QueueOK
<1>2. queue \o more \in Seq(Packet) /\ DOMAIN (queue \o more) = 1..(Len(queue) + Len(more))
  BY <1>1
<1>3. ASSUME NEW i \in DOMAIN (queue \o more)
      PROVE  \/ i \in DOMAIN queue /\ (queue \o more)[i] = queue[i]
             \/ \E j \in DOMAIN more : (queue \o more)[i] = more[j]
  <2>1. CASE i <= Len(queue)
    BY <1>1, <1>2, <2>1
  <2>2. CASE i > Len(queue)
    <3>1. (queue \o more)[i] = more[i - Len(queue)] /\ i - Len(queue) \in 1..Len(more)
      BY <1>1, <1>2, <2>2
    <3> QED BY <1>1, <3>1
  <2> QED BY <1>1, <1>2, <2>1, <2>2
<1>4. QueueOK(queue \o more, n)
  BY <1>2, <1>3 DEF QueueOK
<1> QED BY <1>3, <1>4

LEMMA EnqueueType ==
  ASSUME NEW n \in Nat, NEW queue, QueueOK(queue, n), NEW ids \in SUBSET (1..n)
  PROVE  /\ QueueOK(queue \o Packets(Ascending(ids)), n)
         /\ \A i \in DOMAIN (queue \o Packets(Ascending(ids))) :
              \/ i \in DOMAIN queue /\ (queue \o Packets(Ascending(ids)))[i] = queue[i]
              \/ \E id \in ids : (queue \o Packets(Ascending(ids)))[i] = Named(id)
<1> DEFINE more == Packets(Ascending(ids))
<1>1. more \in Seq(Packet) /\ \A i \in 1..Len(more) : \E id \in ids : more[i] = Named(id)
  BY PacketsFacts
<1> HIDE DEF more
<1>2. \A i \in 1..Len(more) : more[i].type = "message" => more[i].id \in 1..n
  <2> TAKE i \in 1..Len(more)
  <2>1. PICK id \in ids : more[i] = Named(id)
    BY <1>1
  <2>2. more[i].id = id
    BY <2>1 DEF Named
  <2> QED BY <2>2
<1>3. DOMAIN more = 1..Len(more)
  BY <1>1
<1>4. QueueOK(more, n)
  BY <1>1, <1>2, <1>3 DEF QueueOK
<1>5. /\ QueueOK(queue \o more, n)
      /\ \A i \in DOMAIN (queue \o more) :
           \/ i \in DOMAIN queue /\ (queue \o more)[i] = queue[i]
           \/ \E id \in ids : (queue \o more)[i] = Named(id)
  BY <1>1, <1>3, <1>4, ConcatFacts
<1> QED BY <1>5 DEF more

LEMMA SendType ==
  ASSUME SendingOK, NEW all, Extends(all, messages),
         NEW sent, \A e \in Adjacent : sent[e] \subseteq 1..Len(all),
         NEW pending, \A e \in Adjacent : PendingOK(pending[e], messages),
         NEW timers \in SUBSET Adjacent,
         NEW queues, \A e \in Adjacent : QueueOK(queues[e], made),
         SendRecorded(sent, pending, timers, all),
         messages' = all, made' = Len(all), chan' = Enqueue(queues, sent)
  PROVE  SendingOK'
<1>1. /\ messages \in Seq(Message) /\ made = Len(messages) /\ all \in Seq(Message)
      /\ Len(messages) <= Len(all) /\ Len(all) \in Nat /\ made \in Nat
  BY DEF SendingOK, Extends
<1>2. /\ DOMAIN unacked' = Adjacent /\ timer' \subseteq Adjacent
      /\ \A e \in Adjacent : unacked'[e] = MessageOut(pending[e], sent[e], all)
  BY DEF SendRecorded
<1>3. \A e \in Adjacent : PendingOK(unacked'[e], messages')
  <2> TAKE e \in Adjacent
  <2>1. PendingOK(pending[e], all)
    BY <1>1, PendingExtends
  <2> QED BY <1>1, <1>2, <2>1, MessageOutType
<1>4. /\ chan' = [e \in Adjacent |-> chan'[e]]
      /\ \A e \in Adjacent : chan'[e] = queues[e] \o Packets(Ascending(sent[e]))
  BY DEF Enqueue
<1>5. \A e \in Adjacent : QueueOK(chan'[e], made')
  <2> TAKE e \in Adjacent
  <2>1. QueueOK(queues[e], Len(all))
    BY <1>1 DEF QueueOK
  <2>2. sent[e] \in SUBSET (1..Len(all))
    OBVIOUS
  <2>3. QueueOK(queues[e] \o Packets(Ascending(sent[e])), Len(all))
    BY <1>1, <2>1, <2>2, EnqueueType
  <2> QED BY <1>4, <2>3
<1> QED BY <1>1, <1>2, <1>3, <1>4, <1>5 DEF SendingOK

(* The first packet of a queue, and what is left of it.                    *)
LEMMA HeadFacts ==
  ASSUME NEW n, NEW queue, QueueOK(queue, n), queue # <<>>
  PROVE  /\ Head(queue) \in Packet /\ Head(queue) = queue[1] /\ 1 \in DOMAIN queue
         /\ Head(queue).type = "message" => Head(queue).id \in 1..n
         /\ QueueOK(Tail(queue), n)
         /\ \A i \in DOMAIN Tail(queue) : i + 1 \in DOMAIN queue /\ Tail(queue)[i] = queue[i + 1]
<1>1. queue \in Seq(Packet) /\ Len(queue) \in Nat /\ Len(queue) # 0
  BY DEF QueueOK
<1>2. /\ Head(queue) \in Packet /\ Head(queue) = queue[1] /\ 1 \in DOMAIN queue
  BY <1>1
<1>3. /\ Tail(queue) \in Seq(Packet)
      /\ \A i \in DOMAIN Tail(queue) : i + 1 \in DOMAIN queue /\ Tail(queue)[i] = queue[i + 1]
  BY <1>1
<1>4. Head(queue).type = "message" => Head(queue).id \in 1..n
  BY <1>2 DEF QueueOK
<1>5. QueueOK(Tail(queue), n)
  BY <1>3 DEF QueueOK
<1> QED BY <1>2, <1>3, <1>4, <1>5

LEMMA AppendFacts ==
  ASSUME NEW n, NEW queue, QueueOK(queue, n), NEW p \in Packet, p.type # "message"
  PROVE  /\ QueueOK(Append(queue, p), n)
         /\ \A i \in DOMAIN Append(queue, p) :
              \/ i \in DOMAIN queue /\ Append(queue, p)[i] = queue[i]
              \/ Append(queue, p)[i] = p
<1>1. queue \in Seq(Packet) /\ Len(queue) \in Nat
  BY DEF QueueOK
<1>2. /\ Append(queue, p) \in Seq(Packet)
      /\ \A i \in DOMAIN Append(queue, p) :
           \/ i \in DOMAIN queue /\ Append(queue, p)[i] = queue[i]
           \/ Append(queue, p)[i] = p
  BY <1>1
<1> QED BY <1>2 DEF QueueOK

LEMMA ReceivedType ==
  ASSUME SendingOK, NEW e \in Adjacent, chan[e] # <<>>
  PROVE  /\ Received(e) = [f \in Adjacent |-> Received(e)[f]]
         /\ \A f \in Adjacent : QueueOK(Received(e)[f], made)
<1>1. /\ chan = [f \in Adjacent |-> chan[f]] /\ \A f \in Adjacent : QueueOK(chan[f], made)
  BY DEF SendingOK
<1>2. QueueOK(Tail(chan[e]), made)
  BY <1>1, HeadFacts
<1> QED BY <1>1, <1>2 DEF Received

LEMMA AckedType ==
  ASSUME SendingOK, NEW e \in Adjacent, chan[e] # <<>>, NEW ack \in Packet, ack.type # "message"
  PROVE  /\ Acked(e, ack) = [f \in Adjacent |-> Acked(e, ack)[f]]
         /\ \A f \in Adjacent : QueueOK(Acked(e, ack)[f], made)
<1>1. /\ Received(e) = [f \in Adjacent |-> Received(e)[f]]
      /\ \A f \in Adjacent : QueueOK(Received(e)[f], made)
  BY ReceivedType
<1>2. Reverse2(e) \in Adjacent
  BY AdjacentAssumption DEF Reverse2
<1>3. QueueOK(Append(Received(e)[Reverse2(e)], ack), made)
  BY <1>1, <1>2, AppendFacts
<1> QED BY <1>1, <1>3 DEF Acked

LEMMA AckIsPacket ==
  ASSUME NEW o \in Router, NEW n \in Nat, NEW type \in {"LSAACK", "TPMACK"}
  PROVE  Ack(type, o, n) \in Packet /\ Ack(type, o, n).type # "message"
BY DEF Ack, Packet

LEMMA MessageFacts ==
  ASSUME SendingOK, NEW id \in 1..made
  PROVE  /\ messages[id] \in Message /\ messages[id].origin \in Router
         /\ messages[id].seq \in Nat /\ messages[id].type \in {"LSA", "TPM"} /\ id \in Nat
         /\ messages[id].type = "LSA" => messages[id].content \in BOOLEAN
         /\ messages[id].type = "LSA" /\ messages[id].content =>
              messages[id].links \in SUBSET Router
<1>1. messages[id] \in Message /\ id \in Nat
  BY DEF SendingOK
<1> QED BY <1>1 DEF Message

(* What a table computed from records of the right type is.                *)
LEMMA ComputingTypes ==
  ASSUME TablesOK, NEW computing, NEW records \in [Router -> [Router -> Record]],
         ComputeRoutes(computing, records)
  PROVE  routed' \in [Router -> [Router -> SUBSET Router]] /\ exited' \in BOOLEAN
<1>1. \A r \in Router : Links(records[r]) \in [Router -> SUBSET Router]
  BY DEF Links, Record
<1> QED BY <1>1 DEF ComputeRoutes, TablesOK

-----------------------------------------------------------------------------
LEMMA MadeFirst ==
  /\ Cardinality(Started) \in Nat
  /\ \A o \in Started : FirstId(o) \in 1..Cardinality(Started)
  /\ \A o \in Started : Ascending(Started)[FirstId(o)] = o
  /\ \A i \in 1..Cardinality(Started) : Ascending(Started)[i] \in Started
<1>1. Started \in SUBSET Nat /\ IsFiniteSet(Started)
  BY StartedAssumption, RouterAssumption, FS_Subset
<1>2. Ascending(Started) \in Seq(Started) /\ Len(Ascending(Started)) = Cardinality(Started)
  BY <1>1, AscendingFacts
<1>3. Cardinality(Started) \in Nat
  BY <1>1, FS_CardinalityType
<1>4. \A i \in 1..Cardinality(Started) : Ascending(Started)[i] \in Started
  BY <1>2, <1>3
<1> QED BY <1>1, <1>3, <1>4, AscendingFacts DEF FirstId

LEMMA TypeInit == Init => TypeOK
<1> SUFFICES ASSUME Init PROVE TypeOK
  OBVIOUS
<1> DEFINE c == Cardinality(Started)
<1>1. \A o : UpPeers(o, Adjacent \ Down) \in SUBSET Router
  BY DEF UpPeers
<1>2. \A r, o \in Router : InitRecord(r, o) \in Record
  BY <1>1, MadeFirst DEF InitRecord, Record, NoRecord
<1>3. TablesOK
  <2>1. db \in [Router -> [Router -> Record]]
    BY <1>2 DEF Init
  <2>2. lsaHistory \in [Router -> [Router -> Nat]]
    BY MadeFirst DEF Init, None
  <2>3. tpmHistory \in [Router -> [Router -> Nat]]
    BY DEF Init, None
  <2>4. routed \in [Router -> [Router -> SUBSET Router]]
    BY <1>2 DEF Init, Record
  <2> QED BY <2>1, <2>2, <2>3, <2>4 DEF Init, TablesOK
<1>4. messages \in Seq(Message) /\ made = Len(messages)
  <2>1. messages = [i \in 1..c |->
                      LSA(Ascending(Started)[i], i, UpPeers(Ascending(Started)[i], Adjacent \ Down))]
    BY DEF Init
  <2>2. \A i \in 1..c :
          LSA(Ascending(Started)[i], i, UpPeers(Ascending(Started)[i], Adjacent \ Down)) \in Message
    <3> TAKE i \in 1..c
    <3>1. Ascending(Started)[i] \in Router /\ i \in Nat
      BY MadeFirst, StartedAssumption
    <3> QED BY <1>1, <3>1 DEF LSA, Message
  <2>3. messages \in [1..c -> Message]
    BY <2>1, <2>2
  <2>4. c \in Nat /\ made = c
    BY MadeFirst DEF Init
  <2> HIDE DEF c
  <2> QED BY <2>3, <2>4
<1>5. \A e \in Adjacent : PendingOK(unacked[e], messages)
  <2>1. \A e \in Adjacent : unacked[e].tpm = 0 /\ DOMAIN unacked[e].lsa = {}
    BY DEF Init, NothingUnacked, None
  <2>2. Len(messages) \in Nat
    BY <1>4
  <2> QED BY <2>1, <2>2 DEF PendingOK
<1>6. \A e \in Adjacent : QueueOK(chan[e], made)
  BY DEF Init, QueueOK
<1>7. SendingOK
  BY <1>4, <1>5, <1>6 DEF Init, SendingOK
<1> QED BY <1>3, <1>7, TypeParts

(* PeriodicUpdate adds one message.                                        *)
LEMMA OneMore ==
  ASSUME SendingOK, NEW m \in Message
  PROVE  LET all == Append(messages, m)
         IN Extends(all, messages) /\ Len(all) = made + 1 /\ all[made + 1] = m
BY DEF SendingOK, Extends

LEMMA PeriodicUpdateType ==
  ASSUME TypeOK, NEW r \in Router, PeriodicUpdate(r)
  PROVE  TypeOK'
<1> DEFINE id == made + 1
           all == Append(messages, LSA(r, id, db[r][r].links))
           sent == [e \in Adjacent |-> IF e[1] = r /\ e \in up THEN {id} ELSE {}]
<1>1. SendingOK /\ TablesOK /\ made \in Nat /\ id \in Nat
  <2>1. SendingOK /\ TablesOK
    BY TypeParts
  <2> QED BY <2>1 DEF SendingOK
<1>2. db[r][r].links \in SUBSET Router
  BY <1>1 DEF TablesOK, Record
<1>3. LSA(r, id, db[r][r].links) \in Message
  BY <1>1, <1>2 DEF LSA, Message
<1>4. Extends(all, messages) /\ Len(all) = id
  BY <1>1, <1>3, OneMore
<1>5. /\ messages' = all /\ made' = Len(all) /\ chan' = Enqueue(chan, sent)
      /\ SendRecorded(sent, unacked, timer, all)
      /\ db' = [db EXCEPT ![r][r].seq = id] /\ updates' = updates + 1
      /\ UNCHANGED <<up, lsaHistory, tpmHistory, routed, exited, changes, lost>>
  BY <1>4 DEF PeriodicUpdate
<1>6. \A e \in Adjacent : sent[e] \subseteq 1..Len(all)
  <2> HIDE DEF all
  <2> QED BY <1>1, <1>4
<1>7. SendingOK'
  <2>1. /\ timer \in SUBSET Adjacent
        /\ \A e \in Adjacent : PendingOK(unacked[e], messages)
        /\ \A e \in Adjacent : QueueOK(chan[e], made)
    BY <1>1 DEF SendingOK
  <2> HIDE DEF sent, all
  <2> QED BY <1>1, <1>4, <1>5, <1>6, <2>1, SendType
<1>8. db' \in [Router -> [Router -> Record]]
  BY <1>1, <1>5 DEF TablesOK, Record
<1>9. TablesOK'
  BY <1>1, <1>5, <1>8 DEF TablesOK
<1> QED BY <1>7, <1>9, TypePartsNext

LEMMA LinkChangesType ==
  ASSUME TypeOK, NEW link \in Adjacent, LinkChanges(link)
  PROVE  TypeOK'
<1> DEFINE now == IF link \in up THEN up \ {link, Reverse2(link)} ELSE up \cup {link, Reverse2(link)}
           comesUp == link \in now
           ends == {link[1], link[2]}
           first == made + 1
           second == first + IF comesUp THEN 2 ELSE 1
           IdOf(r) == IF r = link[1] THEN first ELSE second
           Made(r) == IF comesUp
                      THEN <<LSA(r, IdOf(r), UpPeers(r, now)), TPM(r, IdOf(r) + 1)>>
                      ELSE <<LSA(r, IdOf(r), UpPeers(r, now))>>
           all == messages \o Made(link[1]) \o Made(link[2])
           sent == [e \in Adjacent |->
                      IF e[1] \notin ends \/ e \notin now THEN {}
                      ELSE IF e[2] \in ends /\ comesUp THEN {IdOf(e[1]), IdOf(e[1]) + 1}
                      ELSE {IdOf(e[1])}]
           records == [r \in Router |->
                         IF r \in ends
                         THEN [db[r] EXCEPT ![r] = [seq |-> IdOf(r), links |-> UpPeers(r, now)]]
                         ELSE db[r]]
           pending == [e \in Adjacent |-> IF Cancelled(e, {link} \ now) THEN NothingUnacked
                                          ELSE unacked[e]]
           timers == {e \in timer : ~Cancelled(e, {link} \ now)}
<1>1. /\ up' = now /\ made' = second + (second - first) - 1 /\ db' = records
      /\ messages' = all /\ chan' = Enqueue(chan, sent) /\ changes' = changes + 1
      /\ ComputeRoutes(ends, records)
      /\ SendRecorded(sent, pending, timers, all)
      /\ UNCHANGED <<lsaHistory, tpmHistory, updates, lost>>
  BY DEF LinkChanges
<1>2. SendingOK /\ TablesOK /\ made \in Nat /\ made = Len(messages) /\ messages \in Seq(Message)
  <2>1. SendingOK /\ TablesOK
    BY TypeParts
  <2> QED BY <2>1 DEF SendingOK
<1>3. ends \in SUBSET Router /\ {link, Reverse2(link)} \subseteq Adjacent
  BY AdjacentAssumption DEF Reverse2
<1>4. now \subseteq Adjacent /\ comesUp \in BOOLEAN
  BY <1>2, <1>3 DEF TablesOK
<1>5. first \in Nat /\ second \in Nat /\ second = made + IF comesUp THEN 3 ELSE 2
  BY <1>2
<1>6. \A r : UpPeers(r, now) \in SUBSET Router
  BY DEF UpPeers
<1>7. ASSUME NEW r \in Router
      PROVE  Made(r) \in Seq(Message) /\ Len(Made(r)) = second - first
  <2> HIDE DEF now
  <2>1. IdOf(r) \in Nat /\ IdOf(r) + 1 \in Nat
    BY <1>5
  <2>2. LSA(r, IdOf(r), UpPeers(r, now)) \in Message /\ TPM(r, IdOf(r) + 1) \in Message
    BY <1>6, <2>1 DEF LSA, TPM, Message
  <2> HIDE DEF IdOf
  <2> QED BY <1>2, <2>2
<1>8. Extends(all, messages) /\ Len(all) = made + 2 * (second - first) /\ made' = Len(all)
  <2> DEFINE m1 == Made(link[1])
             m2 == Made(link[2])
  <2>1. /\ m1 \in Seq(Message) /\ m2 \in Seq(Message)
        /\ Len(m1) = second - first /\ Len(m2) = second - first
    BY <1>3, <1>7
  <2> HIDE DEF m1, m2, first, second, Made
  <2>2. Extends(messages \o m1 \o m2, messages)
    BY <1>2, <2>1 DEF Extends
  <2>3. Len(messages \o m1 \o m2) = made + 2 * (second - first)
    BY <1>2, <1>5, <2>1
  <2>4. made' = made + 2 * (second - first)
    BY <1>1, <1>2, <1>5 DEF first
  <2> QED BY <2>2, <2>3, <2>4 DEF m1, m2
<1>9. \A e \in Adjacent : sent[e] \subseteq 1..Len(all)
  <2> SUFFICES ASSUME NEW e \in Adjacent
               PROVE  sent[e] \subseteq 1..(made + 2 * (second - first))
    BY <1>8
  <2>1. IdOf(e[1]) \in 1..(made + 2 * (second - first))
    BY <1>2, <1>5
  <2>2. comesUp => IdOf(e[1]) + 1 \in 1..(made + 2 * (second - first))
    BY <1>2, <1>5
  <2> HIDE DEF IdOf, second, first, now
  <2> QED BY <2>1, <2>2
<1>10. SendingOK'
  <2>1. timers \in SUBSET Adjacent /\ \A e \in Adjacent : QueueOK(chan[e], made)
    BY <1>2 DEF SendingOK
  <2>2. \A e \in Adjacent : PendingOK(pending[e], messages)
    <3>1. PendingOK(NothingUnacked, messages)
      BY <1>2 DEF PendingOK, NothingUnacked, None
    <3> QED BY <1>2, <3>1 DEF SendingOK
  <2> HIDE DEF sent, pending, timers, all, now
  <2> QED BY <1>1, <1>2, <1>8, <1>9, <2>1, <2>2, SendType
<1>11. records \in [Router -> [Router -> Record]]
  <2>1. \A r \in Router : [seq |-> IdOf(r), links |-> UpPeers(r, now)] \in Record
    <3> HIDE DEF now
    <3> QED BY <1>5, <1>6 DEF Record
  <2>2. \A r \in Router : db[r] \in [Router -> Record]
    BY <1>2 DEF TablesOK
  <2> HIDE DEF now, IdOf, ends
  <2> QED BY <2>1, <2>2
<1>12. routed' \in [Router -> [Router -> SUBSET Router]] /\ exited' \in BOOLEAN
  <2> HIDE DEF records, ends
  <2> QED BY <1>1, <1>2, <1>11, ComputingTypes
<1>13. TablesOK'
  <2> HIDE DEF records, now
  <2> QED BY <1>1, <1>2, <1>4, <1>11, <1>12 DEF TablesOK
<1> QED BY <1>10, <1>13, TypePartsNext

(* A handler that makes no message and sends none but what is in queues.   *)
LEMMA AnswerType ==
  ASSUME TypeOK, NEW queues, queues = [f \in Adjacent |-> queues[f]],
         \A f \in Adjacent : QueueOK(queues[f], made), chan' = queues,
         UNCHANGED <<up, routing, unacked, timer, storage, changes, updates>>,
         lost' \in Nat
  PROVE  TypeOK'
<1>1. SendingOK /\ TablesOK
  BY TypeParts
<1>2. /\ UNCHANGED <<up, db, lsaHistory, tpmHistory, routed, exited, unacked, timer, made,
                     messages, changes, updates>>
  BY DEF routing, storage
<1>3. SendingOK'
  BY <1>1, <1>2 DEF SendingOK
<1>4. TablesOK'
  BY <1>1, <1>2 DEF TablesOK
<1> QED BY <1>3, <1>4, TypePartsNext

LEMMA ReceiveOldLSAType ==
  ASSUME TypeOK, NEW e \in Adjacent, chan[e] # <<>>, NEW id \in 1..made, ReceiveOldLSA(e, id)
  PROVE  TypeOK'
<1>1. SendingOK
  BY TypeParts
<1> DEFINE ack == Ack("LSAACK", messages[id].origin, id)
<1>2. ack \in Packet /\ ack.type # "message"
  BY <1>1, MessageFacts, AckIsPacket
<1>3. /\ chan' = Acked(e, ack) /\ UNCHANGED <<up, routing, unacked, timer, storage, counts>>
  BY DEF ReceiveOldLSA
<1>4. UNCHANGED <<changes, updates>> /\ lost' \in Nat
  <2>1. TablesOK
    BY TypeParts
  <2> QED BY <1>3, <2>1 DEF counts, TablesOK
<1> HIDE DEF ack
<1>5. /\ Acked(e, ack) = [f \in Adjacent |-> Acked(e, ack)[f]]
      /\ \A f \in Adjacent : QueueOK(Acked(e, ack)[f], made)
  BY <1>1, <1>2, AckedType
<1> QED BY <1>3, <1>4, <1>5, AnswerType

LEMMA ReceiveNewLSAType ==
  ASSUME TypeOK, NEW e \in Adjacent, chan[e] # <<>>, NEW id \in 1..made,
         messages[id].type = "LSA", ReceiveNewLSA(e, id)
  PROVE  TypeOK'
<1> DEFINE m == messages[id]
           r == e[2]
           ack == Ack("LSAACK", m.origin, id)
           records == [db EXCEPT ![r][m.origin] = [seq |-> m.seq, links |-> m.links]]
<1>1. SendingOK /\ TablesOK /\ r \in Router
  BY TypeParts, AdjacentAssumption
<1>2. /\ m.origin \in Router /\ m.seq \in Nat /\ id \in Nat /\ m.content \in BOOLEAN
      /\ m.content => m.links \in SUBSET Router
  BY <1>1, MessageFacts
<1>3. ack \in Packet /\ ack.type # "message"
  BY <1>2, AckIsPacket
<1>4. /\ lsaHistory' = [lsaHistory EXCEPT ![r][m.origin] = m.seq]
      /\ SendRecorded(Forwards(e, id), unacked, timer, messages)
      /\ chan' = Enqueue(Acked(e, ack), Forwards(e, id))
      /\ IF m.content
         THEN /\ db' = records
              /\ IF records[r][m.origin].links # db[r][m.origin].links
                 THEN ComputeRoutes({r}, records)
                 ELSE UNCHANGED <<routed, exited>>
         ELSE UNCHANGED <<db, routed, exited>>
      /\ UNCHANGED <<up, tpmHistory, storage, counts>>
  BY DEF ReceiveNewLSA
<1>5. SendingOK'
  <2>1. \A f \in Adjacent : QueueOK(Acked(e, ack)[f], made)
    <3> HIDE DEF ack
    <3> QED BY <1>1, <1>3, AckedType
  <2>2. made = Len(messages) /\ messages \in Seq(Message) /\ made \in Nat
    BY <1>1 DEF SendingOK
  <2>3. Extends(messages, messages)
    BY <2>2 DEF Extends
  <2>4. \A f \in Adjacent : Forwards(e, id)[f] \subseteq 1..Len(messages)
    BY <2>2 DEF Forwards
  <2>5. messages' = messages /\ made' = Len(messages)
    BY <1>4, <2>2 DEF storage
  <2>6. timer \in SUBSET Adjacent /\ \A f \in Adjacent : PendingOK(unacked[f], messages)
    BY <1>1 DEF SendingOK
  <2> HIDE DEF ack
  <2> QED BY <1>1, <1>4, <2>1, <2>3, <2>4, <2>5, <2>6, SendType
<1>6. /\ db' \in [Router -> [Router -> Record]]
      /\ routed' \in [Router -> [Router -> SUBSET Router]] /\ exited' \in BOOLEAN
  <2>1. CASE ~m.content
    BY <1>1, <1>4, <2>1 DEF TablesOK
  <2>2. CASE m.content
    <3>1. [seq |-> m.seq, links |-> m.links] \in Record
      BY <1>2, <2>2 DEF Record
    <3>2. records \in [Router -> [Router -> Record]]
      <4> DEFINE new == [seq |-> m.seq, links |-> m.links]
      <4> HIDE DEF new, m
      <4> QED BY <1>1, <1>2, <3>1 DEF TablesOK, new
    <3>3. db' = records /\ (ComputeRoutes({r}, records) \/ UNCHANGED <<routed, exited>>)
      BY <1>4, <2>2
    <3> HIDE DEF records
    <3>4. CASE ComputeRoutes({r}, records)
      BY <1>1, <3>2, <3>3, <3>4, ComputingTypes
    <3>5. CASE UNCHANGED <<routed, exited>>
      BY <1>1, <3>2, <3>3, <3>5 DEF TablesOK
    <3> QED BY <3>3, <3>4, <3>5
  <2> QED BY <1>2, <2>1, <2>2
<1>7. lsaHistory' \in [Router -> [Router -> Nat]]
  BY <1>1, <1>2, <1>4 DEF TablesOK
<1>8. TablesOK'
  BY <1>1, <1>4, <1>6, <1>7 DEF TablesOK, counts
<1> QED BY <1>5, <1>8, TypePartsNext

LEMMA RegenerateFacts ==
  ASSUME TablesOK, NEW r \in Router, NEW s \in Router
  PROVE  /\ Regenerate(r, s) \in Seq(Message)
         /\ Len(Regenerate(r, s)) = Cardinality(Newer(r, s))
         /\ Cardinality(Newer(r, s)) \in Nat
         /\ \A o \in Newer(r, s) : Position(Newer(r, s), o) \in 1..Cardinality(Newer(r, s))
<1> DEFINE S == Newer(r, s)
           c == Cardinality(S)
<1>1. S \in SUBSET Router
  BY DEF Newer
<1>2. S \in SUBSET Nat /\ IsFiniteSet(S)
  BY <1>1, RouterAssumption, FS_Subset
<1> HIDE DEF S
<1>3. /\ Ascending(S) \in Seq(S) /\ Len(Ascending(S)) = c /\ c \in Nat
      /\ \A o \in S : Position(S, o) \in 1..c
  BY <1>2, AscendingFacts, FS_CardinalityType
<1>4. \A i \in 1..c : Regenerated(Ascending(S)[i], db[s][Ascending(S)[i]].seq) \in Message
  <2> TAKE i \in 1..c
  <2>1. Ascending(S)[i] \in Router
    BY <1>1, <1>3
  <2>2. db[s][Ascending(S)[i]].seq \in Nat
    BY <2>1 DEF TablesOK, Record
  <2> QED BY <2>1, <2>2 DEF Regenerated, Message
<1>5. Regenerate(r, s) = [i \in 1..c |-> Regenerated(Ascending(S)[i], db[s][Ascending(S)[i]].seq)]
  BY DEF Regenerate, S
<1>6. Regenerate(r, s) \in [1..c -> Message]
  BY <1>4, <1>5
<1> HIDE DEF c
<1>7. Regenerate(r, s) \in Seq(Message) /\ Len(Regenerate(r, s)) = c
  BY <1>3, <1>6
<1> QED BY <1>3, <1>7 DEF S, c

LEMMA ReceiveTopoType ==
  ASSUME TypeOK, NEW e \in Adjacent, chan[e] # <<>>, NEW id \in 1..made, ReceiveTopo(e, id)
  PROVE  TypeOK'
<1> DEFINE m == messages[id]
           s == e[1]
           r == e[2]
           newer == Newer(r, s)
           ack == Ack("TPMACK", s, m.seq)
           acked == Acked(e, ack)
           all == messages \o Regenerate(r, s)
           sent == [f \in Adjacent |->
                      IF f[1] = r /\ f \in up /\ f[2] # s
                      THEN {made + Position(Newer(r, s), o) : o \in Newer(r, s) \ {f[2]}} ELSE {}]
           records == [db EXCEPT ![r] = [o \in Router |->
                         IF o \in Newer(r, s) THEN db[s][o] ELSE db[r][o]]]
<1>1. SendingOK /\ TablesOK /\ r \in Router /\ s \in Router
  BY TypeParts, AdjacentAssumption
<1>2. /\ m.origin \in Router /\ m.seq \in Nat
  BY <1>1, MessageFacts
<1>3. ack \in Packet /\ ack.type # "message"
  BY <1>1, <1>2, AckIsPacket
<1>4. acked = [f \in Adjacent |-> acked[f]] /\ \A f \in Adjacent : QueueOK(acked[f], made)
  <2> HIDE DEF ack
  <2> QED BY <1>1, <1>3, AckedType
<1>5. CASE ~IsNewMessage(tpmHistory[r], m)
  <2>1. /\ chan' = acked
        /\ UNCHANGED <<tpmHistory, db, routed, exited, storage, unacked, timer>>
        /\ UNCHANGED <<up, lsaHistory, counts>>
    BY <1>5 DEF ReceiveTopo
  <2>2. /\ UNCHANGED <<up, routing, unacked, timer, storage, changes, updates>>
        /\ lost' \in Nat
    BY <1>1, <2>1 DEF routing, counts, TablesOK
  <2> HIDE DEF acked
  <2> QED BY <1>4, <2>1, <2>2, AnswerType
<1>6. CASE IsNewMessage(tpmHistory[r], m)
  <2>1. /\ tpmHistory' = [tpmHistory EXCEPT ![r][m.origin] = m.seq]
        /\ db' = records
        /\ IF newer # {} THEN ComputeRoutes({r}, records)
           ELSE UNCHANGED <<routed, exited>>
        /\ made' = made + Cardinality(newer) /\ messages' = all
        /\ SendRecorded(sent, unacked, timer, all) /\ chan' = Enqueue(acked, sent)
        /\ UNCHANGED <<up, lsaHistory, counts>>
    BY <1>6 DEF ReceiveTopo
  <2>2. /\ Regenerate(r, s) \in Seq(Message)
        /\ Len(Regenerate(r, s)) = Cardinality(newer) /\ Cardinality(newer) \in Nat
        /\ \A o \in newer : Position(newer, o) \in 1..Cardinality(newer)
    BY <1>1, RegenerateFacts
  <2>3. messages \in Seq(Message) /\ made = Len(messages) /\ made \in Nat
    BY <1>1 DEF SendingOK
  <2>4. Extends(all, messages) /\ Len(all) = made + Cardinality(newer)
    <3> HIDE DEF newer
    <3> QED BY <2>2, <2>3, Extended
  <2>5. \A f \in Adjacent : sent[f] \subseteq 1..Len(all)
    <3> SUFFICES ASSUME NEW f \in Adjacent, NEW i \in sent[f]
                 PROVE  i \in 1..(made + Cardinality(newer))
      BY <2>4
    <3>1. PICK o \in newer : i = made + Position(newer, o)
      OBVIOUS
    <3> HIDE DEF newer
    <3> QED BY <2>2, <2>3, <3>1
  <2>6. SendingOK'
    <3>1. timer \in SUBSET Adjacent /\ \A f \in Adjacent : PendingOK(unacked[f], messages)
      BY <1>1 DEF SendingOK
    <3> HIDE DEF sent, all, acked
    <3> QED BY <1>1, <1>4, <2>1, <2>4, <2>5, <3>1, SendType
  <2>7. records \in [Router -> [Router -> Record]]
    BY <1>1 DEF TablesOK
  <2>8. routed' \in [Router -> [Router -> SUBSET Router]] /\ exited' \in BOOLEAN
    <3> HIDE DEF records, newer
    <3>1. CASE newer # {}
      BY <1>1, <2>1, <2>7, <3>1, ComputingTypes
    <3>2. CASE newer = {}
      BY <1>1, <2>1, <3>2 DEF TablesOK
    <3> QED BY <3>1, <3>2
  <2>9. tpmHistory' \in [Router -> [Router -> Nat]]
    <3> HIDE DEF m
    <3> QED BY <1>1, <1>2, <2>1 DEF TablesOK
  <2>10. TablesOK'
    <3> HIDE DEF records
    <3> QED BY <1>1, <2>1, <2>7, <2>8, <2>9 DEF TablesOK, counts
  <2> QED BY <2>6, <2>10, TypePartsNext
<1> QED BY <1>5, <1>6

(* What erasing leaves of what is unacknowledged, which has its two fields.*)
LEMMA ErasedLeaves ==
  ASSUME NEW p, NEW m, p = [tpm |-> p.tpm, lsa |-> [o \in DOMAIN p.lsa |-> p.lsa[o]]],
         NEW left, left = Erased(p, m)
  PROVE  /\ DOMAIN left.lsa \subseteq DOMAIN p.lsa
         /\ \A o \in DOMAIN left.lsa : left.lsa[o] = p.lsa[o]
         /\ m.type = "TPMACK" => left.lsa = p.lsa
         /\ \A o \in DOMAIN p.lsa :
              o \in DOMAIN left.lsa \/ (o = m.origin /\ p.lsa[o].seq = m.seq)
<1>1. CASE m.type = "TPMACK"
  <2>1. left.lsa = p.lsa
    BY <1>1 DEF Erased
  <2> QED BY <1>1, <2>1
<1>2. CASE m.type # "TPMACK"
  <2>1. left.lsa = [o \in {q \in DOMAIN p.lsa : ~(q = m.origin /\ p.lsa[q].seq = m.seq)}
                      |-> p.lsa[o]]
    BY <1>2 DEF Erased
  <2> QED BY <1>2, <2>1
<1> QED BY <1>1, <1>2

LEMMA ErasedType ==
  ASSUME NEW p, NEW m, NEW all, Len(all) \in Nat, PendingOK(p, all),
         p = [tpm |-> p.tpm, lsa |-> [o \in DOMAIN p.lsa |-> p.lsa[o]]]
  PROVE  PendingOK(Erased(p, m), all)
<1>1. CASE m.type = "TPMACK"
  <2>1. Erased(p, m) = [tpm |-> IF p.tpm = m.seq THEN None ELSE p.tpm, lsa |-> p.lsa]
    BY <1>1 DEF Erased
  <2> QED BY <1>1, <2>1 DEF PendingOK, None
<1>2. CASE m.type # "TPMACK"
  <2> DEFINE D == {o \in DOMAIN p.lsa : ~(o = m.origin /\ p.lsa[o].seq = m.seq)}
             l == [o \in D |-> p.lsa[o]]
  <2>1. Erased(p, m) = [tpm |-> p.tpm, lsa |-> l]
    BY <1>2 DEF Erased
  <2>2. DOMAIN l \subseteq DOMAIN p.lsa /\ \A o \in DOMAIN l : l[o] = p.lsa[o]
    OBVIOUS
  <2> HIDE DEF l
  <2> QED BY <1>2, <2>1, <2>2 DEF PendingOK
<1> QED BY <1>1, <1>2

LEMMA ReceiveAckType ==
  ASSUME TypeOK, Inv, NEW e \in Adjacent, chan[e] # <<>>, NEW m, ReceiveAck(e, m)
  PROVE  TypeOK'
<1> DEFINE f == Reverse2(e)
           left == Erased(unacked[f], m)
<1>1. SendingOK /\ TablesOK /\ f \in Adjacent
  BY TypeParts, AdjacentAssumption DEF Reverse2
<1>2. /\ DOMAIN unacked = Adjacent /\ timer \subseteq Adjacent
      /\ \A g \in Adjacent : PendingOK(unacked[g], messages)
      /\ Len(messages) \in Nat
  BY <1>1 DEF SendingOK
<1>3. PendingOK(left, messages)
  <2>1. unacked[f] = [tpm |-> unacked[f].tpm,
                      lsa |-> [o \in DOMAIN unacked[f].lsa |-> unacked[f].lsa[o]]]
    BY <1>1 DEF Inv, Shape
  <2> QED BY <1>1, <1>2, <2>1, ErasedType
<1>4. /\ chan' = Received(e)
      /\ unacked' = unacked \/ unacked' = [unacked EXCEPT ![f] = left]
      /\ timer' = timer \/ timer' = timer \ {f}
      /\ UNCHANGED <<up, routing, storage, counts>>
  BY DEF ReceiveAck
<1>5. chan' = [g \in Adjacent |-> chan'[g]] /\ \A g \in Adjacent : QueueOK(chan'[g], made)
  BY <1>1, <1>4, ReceivedType
<1> HIDE DEF f, left
<1>6. DOMAIN unacked' = Adjacent /\ \A g \in Adjacent : PendingOK(unacked'[g], messages)
  BY <1>2, <1>3, <1>4
<1>7. timer' \subseteq Adjacent /\ messages' = messages /\ made' = made
  BY <1>2, <1>4 DEF storage
<1>8. SendingOK'
  BY <1>1, <1>5, <1>6, <1>7 DEF SendingOK
<1>9. TablesOK'
  BY <1>1, <1>4 DEF TablesOK, routing, counts
<1> QED BY <1>8, <1>9, TypePartsNext

(* What is repeated is what is unacknowledged.                             *)
LEMMA ResendsFacts ==
  ASSUME NEW n \in Nat, NEW p, p.tpm \in 0..n, DOMAIN p.lsa \subseteq Router,
         \A o \in DOMAIN p.lsa : p.lsa[o].id \in 1..n
  PROVE  /\ Packets(Resends(p)) \in Seq(Packet)
         /\ \A i \in 1..Len(Packets(Resends(p))) :
              \/ p.tpm \in 1..n /\ Packets(Resends(p))[i] = Named(p.tpm)
              \/ \E o \in DOMAIN p.lsa : Packets(Resends(p))[i] = Named(p.lsa[o].id)
<1> DEFINE D == DOMAIN p.lsa
           a == Ascending(D)
           one == IF p.tpm = None THEN <<>> ELSE <<p.tpm>>
           rest == [i \in DOMAIN a |-> p.lsa[a[i]].id]
<1>1. D \in SUBSET Nat /\ IsFiniteSet(D)
  BY RouterAssumption, FS_Subset
<1>2. a \in Seq(D)
  <2> HIDE DEF D
  <2> QED BY <1>1, AscendingFacts
<1>3. Resends(p) = one \o rest
  BY DEF Resends
<1>4. one \in Seq(1..n) /\ \A i \in 1..Len(one) : p.tpm \in 1..n /\ one[i] = p.tpm
  <2>1. CASE p.tpm = 0
    <3>1. one = <<>>
      BY <2>1 DEF None
    <3> HIDE DEF one
    <3> QED BY <3>1
  <2>2. CASE p.tpm # 0
    <3>1. one = <<p.tpm>> /\ p.tpm \in 1..n
      BY <2>2 DEF None
    <3> HIDE DEF one
    <3> QED BY <3>1
  <2> QED BY <2>1, <2>2
<1> HIDE DEF a, D
<1>5. rest \in [1..Len(a) -> 1..n] /\ Len(a) \in Nat
  BY <1>2 DEF D
<1>6. \A i \in 1..Len(a) : \E o \in D : rest[i] = p.lsa[o].id
  BY <1>2
<1> HIDE DEF rest, one
<1>7. rest \in Seq(1..n) /\ Len(rest) = Len(a)
  BY <1>5
<1> DEFINE ids == one \o rest
<1>8. /\ ids \in Seq(1..n)
      /\ \A i \in 1..Len(ids) : \/ p.tpm \in 1..n /\ ids[i] = p.tpm
                                \/ \E o \in D : ids[i] = p.lsa[o].id
  <2>0. one \in Seq(1..n) /\ rest \in Seq(1..n)
    BY <1>4, <1>7
  <2> DEFINE S == 1..n
  <2> HIDE DEF S
  <2>1. ids \in Seq(S) /\ Len(ids) = Len(one) + Len(rest) /\ Len(one) \in Nat
    BY <2>0 DEF S
  <2>2. ASSUME NEW i \in 1..Len(ids)
        PROVE  (p.tpm \in 1..n /\ ids[i] = p.tpm) \/ \E o \in D : ids[i] = p.lsa[o].id
    <3>1. CASE i <= Len(one)
      <4>1. ids[i] = one[i] /\ i \in 1..Len(one)
        BY <1>4, <1>7, <2>1, <3>1
      <4> QED BY <1>4, <4>1
    <3>2. CASE i > Len(one)
      <4>1. ids[i] = rest[i - Len(one)] /\ i - Len(one) \in 1..Len(a)
        BY <1>4, <1>5, <1>7, <2>1, <3>2
      <4> QED BY <1>6, <4>1
    <3> QED BY <2>1, <3>1, <3>2
  <2>3. ids \in Seq(1..n)
    BY <2>1 DEF S
  <2> QED BY <2>2, <2>3
<1>9. /\ Packets(ids) = [i \in 1..Len(ids) |-> Named(ids[i])] /\ Len(ids) \in Nat
      /\ \A i \in 1..Len(ids) : ids[i] \in 1..n
  BY <1>8 DEF Packets
<1>10. \A id \in 1..n : Named(id) \in Packet
  BY DEF Named, Packet
<1>11. Packets(ids) \in [1..Len(ids) -> Packet]
  BY <1>9, <1>10
<1>12. Packets(ids) \in Seq(Packet) /\ Len(Packets(ids)) = Len(ids)
  BY <1>9, <1>11
<1>13. \A i \in 1..Len(Packets(ids)) :
              \/ p.tpm \in 1..n /\ Packets(ids)[i] = Named(p.tpm)
              \/ \E o \in D : Packets(ids)[i] = Named(p.lsa[o].id)
  BY <1>8, <1>9, <1>12
<1>14. Resends(p) = ids
  BY <1>3 DEF ids
<1> QED BY <1>12, <1>13, <1>14 DEF D

LEMMA ResendType ==
  ASSUME TypeOK, NEW e \in Adjacent, ResendMessages(e)
  PROVE  TypeOK'
<1>1. SendingOK /\ TablesOK
  BY TypeParts
<1> DEFINE more == Packets(Resends(unacked[e]))
           queues == [chan EXCEPT ![e] = @ \o more]
<1>2. /\ made \in Nat /\ made = Len(messages)
      /\ chan = [f \in Adjacent |-> chan[f]] /\ \A f \in Adjacent : QueueOK(chan[f], made)
      /\ PendingOK(unacked[e], messages)
  BY <1>1 DEF SendingOK
<1>3. /\ more \in Seq(Packet)
      /\ \A i \in 1..Len(more) : \E id \in 1..made : more[i] = Named(id)
  <2>1. /\ unacked[e].tpm \in 0..made /\ DOMAIN unacked[e].lsa \subseteq Router
        /\ \A o \in DOMAIN unacked[e].lsa : unacked[e].lsa[o].id \in 1..made
    BY <1>2 DEF PendingOK
  <2> QED BY <1>2, <2>1, ResendsFacts
<1>4. chan' = queues /\ UNCHANGED <<up, routing, unacked, timer, storage, counts>>
  BY DEF ResendMessages
<1> HIDE DEF more
<1>5. QueueOK(chan[e] \o more, made)
  <2>1. QueueOK(more, made)
    <3>1. \A i \in 1..Len(more) : more[i].type = "message" => more[i].id \in 1..made
      <4> TAKE i \in 1..Len(more)
      <4>1. PICK id \in 1..made : more[i] = Named(id)
        BY <1>3
      <4> QED BY <4>1 DEF Named
    <3> QED BY <1>3, <3>1 DEF QueueOK
  <2> QED BY <1>2, <2>1, ConcatFacts
<1>6. queues = [f \in Adjacent |-> queues[f]] /\ \A f \in Adjacent : QueueOK(queues[f], made)
  BY <1>2, <1>5
<1>7. /\ UNCHANGED <<up, routing, unacked, timer, storage, changes, updates>> /\ lost' \in Nat
  BY <1>1, <1>4 DEF counts, TablesOK
<1> HIDE DEF queues
<1> QED BY <1>4, <1>6, <1>7, AnswerType

LEMMA TypeStep ==
  ASSUME TypeOK, Inv, [Next]_vars
  PROVE  TypeOK'
<1>0. SendingOK /\ TablesOK
  BY TypeParts
<1>1. CASE UNCHANGED vars
  BY <1>1 DEF vars, TypeOK
<1>2. ASSUME NEW r \in Router, PeriodicUpdate(r) PROVE TypeOK'
  BY <1>2, PeriodicUpdateType
<1>3. ASSUME NEW e \in Adjacent, LinkChanges(e) PROVE TypeOK'
  BY <1>3, LinkChangesType
<1>4. ASSUME NEW e \in Adjacent, ReceiveMessage(e) PROVE TypeOK'
  <2> DEFINE m == Head(chan[e])
  <2>1. chan[e] # <<>> /\ (m.type = "message" => m.id \in 1..made)
    <3>1. chan[e] # <<>> /\ QueueOK(chan[e], made)
      BY <1>0, <1>4 DEF ReceiveMessage, SendingOK
    <3> QED BY <3>1, HeadFacts
  <2>2. CASE ReceiveAck(e, m)
    BY <2>1, <2>2, ReceiveAckType
  <2>3. CASE ReceiveRecycled(e)
    <3>1. /\ Received(e) = [f \in Adjacent |-> Received(e)[f]]
          /\ \A f \in Adjacent : QueueOK(Received(e)[f], made)
      BY <1>0, <2>1, ReceivedType
    <3>2. /\ chan' = Received(e) /\ lost' \in Nat
          /\ UNCHANGED <<up, routing, unacked, timer, storage, changes, updates>>
      BY <1>0, <2>3 DEF ReceiveRecycled, counts, TablesOK
    <3> QED BY <3>1, <3>2, AnswerType
  <2>4. CASE m.type = "message" /\ ReceiveTopo(e, m.id)
    BY <2>1, <2>4, ReceiveTopoType
  <2>5. CASE m.type = "message" /\ ReceiveLSA(e, m.id)
    BY <2>1, <2>5, ReceiveOldLSAType, ReceiveNewLSAType DEF ReceiveLSA
  <2> QED BY <1>4, <2>2, <2>3, <2>4, <2>5 DEF ReceiveMessage
<1>5. ASSUME NEW e \in Adjacent, ResendMessages(e) PROVE TypeOK'
  BY <1>5, ResendType
<1>6. ASSUME NEW e \in Adjacent, Lose(e) PROVE TypeOK'
  <2>1. /\ Received(e) = [f \in Adjacent |-> Received(e)[f]]
        /\ \A f \in Adjacent : QueueOK(Received(e)[f], made)
    BY <1>0, <1>6, ReceivedType DEF Lose
  <2>2. /\ chan' = Received(e) /\ lost' \in Nat
        /\ UNCHANGED <<up, routing, unacked, timer, storage, changes, updates>>
    BY <1>0, <1>6 DEF Lose, TablesOK
  <2> QED BY <2>1, <2>2, AnswerType
<1> QED BY <1>1, <1>2, <1>3, <1>4, <1>5, <1>6 DEF Next

(* TypeOK: packets and records of what is unacknowledged only ever name    *)
(* messages that have been made, of the origin they are filed under, with  *)
(* links that come and go, losses, repetitions and recycling.              *)
THEOREM TypeCorrect == Spec => []TypeOK
<1>1. TypeOK /\ Inv /\ [Next]_vars => TypeOK' /\ Inv'
  BY TypeStep, NextKeepsInv
<1> QED BY TypeInit, InitEstablishesInv, <1>1, PTL DEF Spec

-----------------------------------------------------------------------------
(* Flooding, as long as no link has come up.  A router that has news for   *)
(* a peer keeps it unacknowledged, in its newest form; whatever is on its  *)
(* way between them comes from records that the sender has.                *)
NoMapsMade == \A i \in DOMAIN messages : messages[i].type # "TPM"

LinksArePaired == \A e \in up : Reverse2(e) \in up

(* Ids are the numbers of advertisements, which all have contents.         *)
NumberedById ==
  \A i \in 1..made : messages[i].type = "LSA" /\ messages[i].content /\ messages[i].seq = i

(* A record is that of the advertisement it has the number of, was seen    *)
(* with it, and is no newer than the one its origin has.                   *)
RecordsAreMade ==
  \A r, o \in Router :
    /\ db[r][o].seq <= db[o][o].seq /\ db[r][o].seq <= made
    /\ r # o => lsaHistory[r][o] = db[r][o].seq
    /\ db[r][o].seq # 0 => /\ messages[db[r][o].seq].origin = o
                           /\ messages[db[r][o].seq].links = db[r][o].links

(* A sender has what it sends, and what it acknowledges.                   *)
Known(records, all, r, p) ==
  /\ p.type = "message" => p.id <= records[r][all[p.id].origin].seq
  /\ p.type = "LSAACK" => p.origin = r \/ p.seq <= records[r][p.origin].seq

PacketsAreKnown ==
  \A e \in Adjacent : \A i \in DOMAIN chan[e] : Known(db, messages, e[1], chan[e][i])

UnackedAreKnown ==
  \A e \in Adjacent :
    /\ unacked[e].tpm = None
    /\ \A o \in DOMAIN unacked[e].lsa :
         /\ unacked[e].lsa[o].id = unacked[e].lsa[o].seq
         /\ unacked[e].lsa[o].seq <= db[e[1]][o].seq

NewsIsUnacked ==
  \A e \in up : \A o \in Router \ {e[2]} :
    \/ db[e[1]][o].seq <= db[e[2]][o].seq
    \/ o \in DOMAIN unacked[e].lsa /\ unacked[e].lsa[o].seq = db[e[1]][o].seq

Flooding ==
  LinksArePaired /\ NumberedById /\ RecordsAreMade /\ PacketsAreKnown /\ UnackedAreKnown
    /\ NewsIsUnacked

LEMMA RecordTypes ==
  ASSUME TypeOK
  PROVE  /\ made \in Nat /\ DOMAIN messages = 1..made
         /\ \A r, o \in Router : db[r][o].seq \in Nat /\ lsaHistory[r][o] \in Nat
         /\ \A e \in Adjacent : e[1] \in Router /\ e[2] \in Router /\ e[1] # e[2]
<1>1. SendingOK /\ TablesOK
  BY TypeParts
<1>2. \A r, o \in Router : db[r][o].seq \in Nat /\ lsaHistory[r][o] \in Nat
  BY <1>1 DEF TablesOK, Record
<1>3. made \in Nat /\ DOMAIN messages = 1..made
  BY <1>1 DEF SendingOK
<1> QED BY <1>2, <1>3, AdjacentAssumption

(* Messages stay, so that no map has been made before if none has after.   *)
LEMMA MessagesStay ==
  ASSUME TypeOK, [Next]_vars
  PROVE  \A i \in DOMAIN messages : i \in DOMAIN messages' /\ messages'[i] = messages[i]
<1>1. SendingOK /\ TablesOK
  BY TypeParts
<1>2. messages \in Seq(Message)
  BY <1>1 DEF SendingOK
<1>3. ASSUME NEW more \in Seq(Message), messages' = messages \o more
      PROVE  \A i \in DOMAIN messages : i \in DOMAIN messages' /\ messages'[i] = messages[i]
  BY <1>2, <1>3
<1>4. ASSUME NEW r \in Router, PeriodicUpdate(r)
      PROVE  \A i \in DOMAIN messages : i \in DOMAIN messages' /\ messages'[i] = messages[i]
  <2>1. PICK m : messages' = Append(messages, m)
    BY <1>4 DEF PeriodicUpdate
  <2> QED BY <1>2, <2>1
<1>5. ASSUME NEW link \in Adjacent, LinkChanges(link)
      PROVE  \A i \in DOMAIN messages : i \in DOMAIN messages' /\ messages'[i] = messages[i]
  <2>1. PICK a, b, c, d : \/ messages' = messages \o <<a>> \o <<b>>
                          \/ messages' = messages \o <<a, c>> \o <<b, d>>
    BY <1>5 DEF LinkChanges
  <2>2. ASSUME NEW x, NEW y, NEW S, messages \in Seq(S), x \in Seq(S), y \in Seq(S),
               messages' = messages \o x \o y
        PROVE  \A i \in DOMAIN messages : i \in DOMAIN messages' /\ messages'[i] = messages[i]
    <3> DEFINE m == messages \o x
    <3>1. /\ m \in Seq(S)
          /\ \A i \in DOMAIN messages : i \in DOMAIN m /\ m[i] = messages[i]
      BY <2>2
    <3>2. messages' = m \o y
      BY <2>2
    <3> HIDE DEF m
    <3>3. \A i \in DOMAIN m : i \in DOMAIN (m \o y) /\ (m \o y)[i] = m[i]
      BY <2>2, <3>1
    <3> QED BY <3>1, <3>2, <3>3
  <2> DEFINE S == Message \cup {a, b, c, d}
  <2>3. /\ <<a>> \in Seq(S) /\ <<b>> \in Seq(S)
        /\ <<a, c>> \in Seq(S) /\ <<b, d>> \in Seq(S)
    OBVIOUS
  <2>4. messages \in Seq(S)
    <3> HIDE DEF S
    <3>1. Message \subseteq S
      BY DEF S
    <3> QED BY <1>2, <3>1
  <2> HIDE DEF S
  <2>5. CASE messages' = messages \o <<a>> \o <<b>>
    BY <2>2, <2>3, <2>4, <2>5
  <2>6. CASE messages' = messages \o <<a, c>> \o <<b, d>>
    BY <2>2, <2>3, <2>4, <2>6
  <2> QED BY <2>1, <2>5, <2>6
<1>6. ASSUME NEW e \in Adjacent, ReceiveMessage(e)
      PROVE  \A i \in DOMAIN messages : i \in DOMAIN messages' /\ messages'[i] = messages[i]
  <2>1. \/ messages' = messages
        \/ messages' = messages \o Regenerate(e[2], e[1])
    BY <1>6, Zenon DEF ReceiveMessage, ReceiveAck, ReceiveRecycled, ReceiveLSA, ReceiveOldLSA,
                ReceiveNewLSA, ReceiveTopo, storage
  <2>2. Regenerate(e[2], e[1]) \in Seq(Message)
    BY <1>1, RegenerateFacts, AdjacentAssumption
  <2> QED BY <1>3, <2>1, <2>2
<1>7. ASSUME messages' = messages
      PROVE  \A i \in DOMAIN messages : i \in DOMAIN messages' /\ messages'[i] = messages[i]
  BY <1>7
<1>8. CASE UNCHANGED vars
  BY <1>7, <1>8 DEF vars
<1>9. CASE Next
  <2>1. \/ \E r \in Router : PeriodicUpdate(r)
        \/ \E link \in Adjacent : LinkChanges(link)
        \/ \E e \in Adjacent : ReceiveMessage(e)
        \/ \E e \in Adjacent : ResendMessages(e)
        \/ \E e \in Adjacent : Lose(e)
    BY <1>9 DEF Next
  <2>2. ASSUME NEW e \in Adjacent, ResendMessages(e) \/ Lose(e)
        PROVE  messages' = messages
    BY <2>2 DEF ResendMessages, Lose, storage
  <2>3. CASE \E e \in Adjacent : ResendMessages(e) \/ Lose(e)
    BY <1>7, <2>2, <2>3
  <2> QED BY <1>4, <1>5, <1>6, <2>1, <2>3
<1> QED BY <1>8, <1>9

-----------------------------------------------------------------------------
(* One advertisement is sent to a peer.                                    *)
LEMMA OneSent ==
  ASSUME NEW p, NEW all, NEW id, all[id].type = "LSA", NEW q, q = MessageOut(p, {id}, all)
  PROVE  /\ q.tpm = p.tpm
         /\ DOMAIN q.lsa = DOMAIN p.lsa \cup {all[id].origin}
         /\ q.lsa[all[id].origin] = [id |-> id, seq |-> all[id].seq]
         /\ \A o \in DOMAIN p.lsa : o # all[id].origin => q.lsa[o] = p.lsa[o]
<1> DEFINE ids == {id}
           tpms == {i \in ids : all[i].type = "TPM"}
           lsas == ids \ tpms
           OfOrigin(o) == CHOOSE i \in lsas : all[i].origin = o
           origins == {all[i].origin : i \in lsas}
<1>1. /\ q.tpm = IF tpms = {} THEN p.tpm ELSE CHOOSE i \in tpms : TRUE
      /\ DOMAIN q.lsa = DOMAIN p.lsa \cup origins
      /\ \A o \in DOMAIN p.lsa \cup origins :
           q.lsa[o] = IF o \in origins THEN [id |-> OfOrigin(o), seq |-> all[OfOrigin(o)].seq]
                      ELSE p.lsa[o]
  BY DEF MessageOut
<1>2. tpms = {} /\ lsas = {id} /\ origins = {all[id].origin}
  OBVIOUS
<1>3. OfOrigin(all[id].origin) = id
  BY <1>2
<1> HIDE DEF tpms, lsas, origins, OfOrigin
<1> QED BY <1>1, <1>2, <1>3

(* Records get newer, so what was known still is.                          *)
LEMMA KnownStays ==
  ASSUME TypeOK, NEW all, Extends(all, messages), NEW records,
         \A r, o \in Router : records[r][o].seq \in Nat /\ db[r][o].seq <= records[r][o].seq,
         NEW r \in Router, NEW p \in Packet, p.type = "message" => p.id \in 1..made,
         Known(db, messages, r, p)
  PROVE  Known(records, all, r, p)
<1>1. SendingOK /\ made = Len(messages)
  <2>1. SendingOK
    BY TypeParts
  <2> QED BY <2>1 DEF SendingOK
<1>2. CASE p.type = "message"
  <2>1. /\ messages[p.id].origin \in Router /\ all[p.id] = messages[p.id] /\ p.id \in Nat
        /\ p.id <= db[r][messages[p.id].origin].seq
    BY <1>1, <1>2, MessageFacts DEF Extends, Known
  <2> QED BY <1>2, <2>1, RecordTypes DEF Known
<1>3. CASE p.type = "LSAACK"
  <2>1. p.origin \in Router /\ p.seq \in Nat /\ p.type # "message"
    BY <1>3 DEF Packet
  <2> QED BY <1>3, <2>1, RecordTypes DEF Known
<1> QED BY <1>2, <1>3 DEF Known

(* What sending leaves of a peer, when it is no advertisement or one that  *)
(* the sender has.                                                         *)
SentIsOwn(ids, all, records, r) ==
  \/ ids = {}
  \/ \E id \in 1..Len(all) :
       /\ ids = {id} /\ all[id].type = "LSA" /\ all[id].seq = id
       /\ records[r][all[id].origin].seq = id

Fields(p) == p = [tpm |-> p.tpm, lsa |-> [o \in DOMAIN p.lsa |-> p.lsa[o]]]

UnackedKnown(p, records, r) ==
  /\ p.tpm = None
  /\ \A o \in DOMAIN p.lsa : /\ o \in Router /\ p.lsa[o].seq \in Nat
                             /\ p.lsa[o].id = p.lsa[o].seq
                             /\ p.lsa[o].seq <= records[r][o].seq

Origins(all) == \A id \in 1..Len(all) : id \in Nat /\ all[id].origin \in Router

LEMMA OriginsKnown ==
  ASSUME NEW all \in Seq(Message)
  PROVE  Origins(all) /\ Len(all) \in Nat
<1>1. \A id \in 1..Len(all) : all[id] \in Message /\ id \in Nat
  OBVIOUS
<1>2. \A m \in Message : m.origin \in Router
  BY DEF Message
<1>3. Len(all) \in Nat
  OBVIOUS
<1> QED BY <1>1, <1>2, <1>3 DEF Origins

LEMMA SendingKnown ==
  ASSUME NEW r \in Router, NEW records, \A o \in Router : records[r][o].seq \in Nat,
         NEW all, Origins(all), NEW ids, SentIsOwn(ids, all, records, r),
         NEW p, Fields(p), UnackedKnown(p, records, r)
  PROVE  LET q == MessageOut(p, ids, all) IN
         /\ UnackedKnown(q, records, r)
         /\ \A o \in DOMAIN p.lsa : o \in DOMAIN q.lsa
         /\ \A o \in DOMAIN p.lsa :
              q.lsa[o].seq = p.lsa[o].seq \/ q.lsa[o].seq = records[r][o].seq
         /\ \A id \in ids : /\ all[id].origin \in DOMAIN q.lsa
                            /\ q.lsa[all[id].origin].seq = records[r][all[id].origin].seq
<1> DEFINE q == MessageOut(p, ids, all)
<1>1. CASE ids = {}
  <2>1. q = p
    BY <1>1, NothingSent DEF Fields
  <2> QED BY <1>1, <2>1
<1>2. CASE ids # {}
  <2>1. PICK id \in 1..Len(all) :
          /\ ids = {id} /\ all[id].type = "LSA" /\ all[id].seq = id
          /\ records[r][all[id].origin].seq = id
    BY <1>2 DEF SentIsOwn
  <2> DEFINE d == all[id].origin
  <2>2. d \in Router /\ id \in Nat
    BY DEF Origins
  <2>3. /\ q.tpm = p.tpm /\ DOMAIN q.lsa = DOMAIN p.lsa \cup {d}
        /\ q.lsa[d] = [id |-> id, seq |-> id]
        /\ \A o \in DOMAIN p.lsa : o # d => q.lsa[o] = p.lsa[o]
    <3>1. all[id].type = "LSA" /\ all[id].seq = id /\ q = MessageOut(p, {id}, all)
      BY <2>1
    <3> HIDE DEF q
    <3>2. /\ q.tpm = p.tpm /\ DOMAIN q.lsa = DOMAIN p.lsa \cup {all[id].origin}
          /\ q.lsa[all[id].origin] = [id |-> id, seq |-> all[id].seq]
          /\ \A o \in DOMAIN p.lsa : o # all[id].origin => q.lsa[o] = p.lsa[o]
      BY <3>1, OneSent
    <3> QED BY <3>1, <3>2
  <2> HIDE DEF q, d
  <2>4. q.lsa[d].seq = id /\ q.lsa[d].id = id
    BY <2>3
  <2>5. UnackedKnown(q, records, r)
    <3>1. ASSUME NEW o \in DOMAIN q.lsa
          PROVE  /\ o \in Router /\ q.lsa[o].seq \in Nat /\ q.lsa[o].id = q.lsa[o].seq
                 /\ q.lsa[o].seq <= records[r][o].seq
      <4>1. CASE o = d
        BY <2>1, <2>2, <2>4, <4>1 DEF d
      <4>2. CASE o # d
        BY <2>3, <4>2 DEF UnackedKnown
      <4> QED BY <4>1, <4>2
    <3> QED BY <2>3, <3>1 DEF UnackedKnown
  <2>6. \A o \in DOMAIN p.lsa :
          q.lsa[o].seq = p.lsa[o].seq \/ q.lsa[o].seq = records[r][o].seq
    BY <2>1, <2>3, <2>4 DEF d
  <2>7. \A i \in ids : /\ all[i].origin \in DOMAIN q.lsa
                       /\ q.lsa[all[i].origin].seq = records[r][all[i].origin].seq
    BY <2>1, <2>3, <2>4 DEF d
  <2> QED BY <2>3, <2>5, <2>6, <2>7 DEF q
<1> QED BY <1>1, <1>2

(* What sending advertisements that the senders have leaves known and      *)
(* pending.  A record that changes is sent, or the peer has it.            *)
SentAreOwn(sent, all, records) ==
  \A e \in Adjacent : SentIsOwn(sent[e], all, records, e[1])

ChangesAreSent(sent, all, records, links) ==
  \A e \in links : \A o \in Router \ {e[2]} :
    \/ records[e[1]][o].seq = db[e[1]][o].seq
    \/ records[e[1]][o].seq <= records[e[2]][o].seq
    \/ \E id \in sent[e] : all[id].origin = o

StillPending(pending, links) ==
  \A e \in Adjacent : \/ pending[e] = unacked[e]
                      \/ e \notin links /\ pending[e] = NothingUnacked

QueuesAreKnown(queues, all, records) ==
  \A e \in Adjacent : /\ QueueOK(queues[e], Len(all))
                      /\ \A i \in DOMAIN queues[e] : Known(records, all, e[1], queues[e][i])

RecordsGrow(records) ==
  \A r, o \in Router : records[r][o].seq \in Nat /\ db[r][o].seq <= records[r][o].seq

LEMMA PendingKnown ==
  ASSUME TypeOK, Inv, UnackedAreKnown, NEW records, RecordsGrow(records),
         NEW pending, NEW links, StillPending(pending, links), NEW e \in Adjacent
  PROVE  Fields(pending[e]) /\ UnackedKnown(pending[e], records, e[1])
<1>1. CASE pending[e] = NothingUnacked
  BY <1>1 DEF NothingUnacked, Fields, UnackedKnown
<1>2. CASE pending[e] = unacked[e]
  <2>1. PendingOK(unacked[e], messages) /\ messages \in Seq(Message)
    BY TypeParts DEF SendingOK
  <2>2. \A o \in DOMAIN unacked[e].lsa : o \in Router /\ unacked[e].lsa[o].id \in Nat
    BY <2>1 DEF PendingOK
  <2>3. Fields(unacked[e])
    BY DEF Inv, Shape, Fields
  <2>4. e[1] \in Router /\ \A o \in Router : db[e[1]][o].seq \in Nat
    BY RecordTypes
  <2>5. UnackedKnown(unacked[e], records, e[1])
    BY <2>2, <2>4 DEF UnackedAreKnown, UnackedKnown, RecordsGrow
  <2> QED BY <1>2, <2>3, <2>5
<1> QED BY <1>1, <1>2 DEF StillPending

LEMMA SendingFloods ==
  ASSUME TypeOK, Inv, UnackedAreKnown, NewsIsUnacked,
         NEW all, Extends(all, messages), messages' = all,
         RecordsGrow(db'), up' \subseteq up,
         NEW sent, SentAreOwn(sent, all, db'), ChangesAreSent(sent, all, db', up'),
         NEW pending, StillPending(pending, up'),
         NEW timers, SendRecorded(sent, pending, timers, all),
         NEW queues, QueuesAreKnown(queues, all, db'), chan' = Enqueue(queues, sent)
  PROVE  PacketsAreKnown' /\ UnackedAreKnown' /\ NewsIsUnacked'
<1>1. /\ made \in Nat /\ \A r, o \in Router : db[r][o].seq \in Nat
      /\ \A e \in Adjacent : e[1] \in Router /\ e[2] \in Router /\ e[1] # e[2]
  BY RecordTypes
<1>2. Origins(all) /\ Len(all) \in Nat
  BY OriginsKnown DEF Extends
<1>3. \A e \in Adjacent : unacked'[e] = MessageOut(pending[e], sent[e], all)
  BY DEF SendRecorded
<1>4. \A e \in Adjacent : chan'[e] = queues[e] \o Packets(Ascending(sent[e]))
  BY DEF Enqueue
<1>5. PacketsAreKnown'
  <2> SUFFICES ASSUME NEW e \in Adjacent, NEW i \in DOMAIN chan'[e]
               PROVE  Known(db', all, e[1], chan'[e][i])
    BY DEF PacketsAreKnown
  <2>1. SentIsOwn(sent[e], all, db', e[1])
    BY DEF SentAreOwn
  <2>2. sent[e] \in SUBSET (1..Len(all))
    BY <2>1 DEF SentIsOwn
  <2>3. QueueOK(queues[e], Len(all))
    BY DEF QueuesAreKnown
  <2>4. \/ i \in DOMAIN queues[e] /\ chan'[e][i] = queues[e][i]
        \/ \E id \in sent[e] : chan'[e][i] = Named(id)
    <3> DEFINE n == Len(all)
               q == queues[e]
               ids == sent[e]
    <3>1. n \in Nat /\ QueueOK(q, n) /\ ids \in SUBSET (1..n)
      BY <1>2, <2>2, <2>3
    <3>2. chan'[e] = q \o Packets(Ascending(ids))
      BY <1>4
    <3> HIDE DEF n, q, ids
    <3>3. \A j \in DOMAIN (q \o Packets(Ascending(ids))) :
            \/ j \in DOMAIN q /\ (q \o Packets(Ascending(ids)))[j] = q[j]
            \/ \E id \in ids : (q \o Packets(Ascending(ids)))[j] = Named(id)
      BY <3>1, EnqueueType
    <3>4. \/ i \in DOMAIN q /\ chan'[e][i] = q[i]
          \/ \E id \in ids : chan'[e][i] = Named(id)
      BY <3>2, <3>3
    <3> QED BY <3>4 DEF q, ids
  <2>5. ASSUME NEW id \in sent[e], chan'[e][i] = Named(id)
        PROVE  Known(db', all, e[1], chan'[e][i])
    <3>1. db'[e[1]][all[id].origin].seq = id /\ id \in Nat
      BY <1>2, <2>1, <2>2 DEF SentIsOwn
    <3>2. /\ chan'[e][i].id = id /\ chan'[e][i].type = "message"
      BY <2>5 DEF Named
    <3> QED BY <3>1, <3>2 DEF Known
  <2> QED BY <2>4, <2>5 DEF QueuesAreKnown
<1>6. ASSUME NEW e \in Adjacent
      PROVE  /\ UnackedKnown(unacked'[e], db', e[1])
             /\ \A o \in DOMAIN pending[e].lsa : o \in DOMAIN unacked'[e].lsa
             /\ \A o \in DOMAIN pending[e].lsa :
                  \/ unacked'[e].lsa[o].seq = pending[e].lsa[o].seq
                  \/ unacked'[e].lsa[o].seq = db'[e[1]][o].seq
             /\ \A id \in sent[e] :
                  /\ all[id].origin \in DOMAIN unacked'[e].lsa
                  /\ unacked'[e].lsa[all[id].origin].seq = db'[e[1]][all[id].origin].seq
  <2>1. Fields(pending[e]) /\ UnackedKnown(pending[e], db', e[1])
    BY PendingKnown
  <2>2. e[1] \in Router /\ \A o \in Router : db'[e[1]][o].seq \in Nat
    BY <1>1 DEF RecordsGrow
  <2>3. SentIsOwn(sent[e], all, db', e[1])
    BY DEF SentAreOwn
  <2> QED BY <1>2, <1>3, <2>1, <2>2, <2>3, SendingKnown
<1>7. UnackedAreKnown'
  BY <1>6 DEF UnackedAreKnown, UnackedKnown
<1>8. NewsIsUnacked'
  <2> SUFFICES ASSUME NEW e \in up', NEW o \in Router \ {e[2]}
               PROVE  \/ db'[e[1]][o].seq <= db'[e[2]][o].seq
                      \/ /\ o \in DOMAIN unacked'[e].lsa
                         /\ unacked'[e].lsa[o].seq = db'[e[1]][o].seq
    BY DEF NewsIsUnacked
  <2>1. /\ e \in Adjacent /\ e \in up /\ pending[e] = unacked[e]
        /\ e[1] \in Router /\ e[2] \in Router
    <3>1. up \subseteq Adjacent
      BY TypeParts DEF TablesOK
    <3> QED BY <1>1, <3>1 DEF StillPending
  <2>2. CASE \E id \in sent[e] : all[id].origin = o
    BY <1>6, <2>1, <2>2
  <2>3. CASE db'[e[1]][o].seq = db[e[1]][o].seq
    <3>1. CASE db[e[1]][o].seq <= db[e[2]][o].seq
      BY <1>1, <2>1, <2>3, <3>1 DEF RecordsGrow
    <3>2. CASE o \in DOMAIN unacked[e].lsa /\ unacked[e].lsa[o].seq = db[e[1]][o].seq
      BY <1>6, <2>1, <2>3, <3>2
    <3> QED BY <2>1, <3>1, <3>2 DEF NewsIsUnacked
  <2> QED BY <2>1, <2>2, <2>3 DEF ChangesAreSent
<1> QED BY <1>5, <1>7, <1>8

(* Queues: what was known stays known, and a packet leaves or an           *)
(* acknowledgement joins.                                                  *)
LEMMA QueuesStayKnown ==
  ASSUME TypeOK, NEW all, Extends(all, messages), NEW records, RecordsGrow(records),
         NEW queues, QueuesAreKnown(queues, messages, db)
  PROVE  QueuesAreKnown(queues, all, records)
<1>1. made = Len(messages) /\ made \in Nat /\ Len(all) \in Nat /\ Len(messages) <= Len(all)
  BY RecordTypes DEF TypeOK, Extends
<1> SUFFICES ASSUME NEW e \in Adjacent
             PROVE  /\ QueueOK(queues[e], Len(all))
                    /\ \A i \in DOMAIN queues[e] : Known(records, all, e[1], queues[e][i])
  BY DEF QueuesAreKnown
<1>2. QueueOK(queues[e], made) /\ e[1] \in Router
  BY <1>1, RecordTypes DEF QueuesAreKnown
<1>3. QueueOK(queues[e], Len(all))
  BY <1>1, <1>2 DEF QueueOK
<1>4. ASSUME NEW i \in DOMAIN queues[e]
      PROVE  Known(records, all, e[1], queues[e][i])
  <2>1. queues[e][i] \in Packet /\ (queues[e][i].type = "message" => queues[e][i].id \in 1..made)
    BY <1>2 DEF QueueOK
  <2>2. Known(db, messages, e[1], queues[e][i])
    BY DEF QueuesAreKnown
  <2>3. \A r, o \in Router : records[r][o].seq \in Nat /\ db[r][o].seq <= records[r][o].seq
    BY DEF RecordsGrow
  <2> QED BY <1>2, <2>1, <2>2, <2>3, KnownStays
<1> QED BY <1>3, <1>4

LEMMA QueuesKnown ==
  ASSUME TypeOK, PacketsAreKnown
  PROVE  QueuesAreKnown(chan, messages, db)
<1>1. made = Len(messages) /\ \A e \in Adjacent : QueueOK(chan[e], made)
  BY TypeParts DEF SendingOK
<1> QED BY <1>1 DEF QueuesAreKnown, PacketsAreKnown

LEMMA ReceivedKnown ==
  ASSUME TypeOK, PacketsAreKnown, NEW e \in Adjacent, chan[e] # <<>>
  PROVE  /\ QueuesAreKnown(Received(e), messages, db)
         /\ Head(chan[e]) \in Packet /\ Known(db, messages, e[1], Head(chan[e]))
         /\ Head(chan[e]).type = "message" => Head(chan[e]).id \in 1..made
<1>1. SendingOK /\ made = Len(messages) /\ QueueOK(chan[e], made)
  <2>1. SendingOK
    BY TypeParts
  <2> QED BY <2>1 DEF SendingOK
<1>2. /\ Received(e)[e] = Tail(chan[e])
      /\ \A f \in Adjacent : f # e => Received(e)[f] = chan[f]
      /\ \A f \in Adjacent : QueueOK(Received(e)[f], made)
  <2>1. chan = [f \in Adjacent |-> chan[f]]
    BY <1>1 DEF SendingOK
  <2>2. \A f \in Adjacent : QueueOK(Received(e)[f], made)
    BY <1>1, ReceivedType
  <2> QED BY <2>1, <2>2 DEF Received
<1>3. /\ \A i \in DOMAIN Tail(chan[e]) :
           i + 1 \in DOMAIN chan[e] /\ Tail(chan[e])[i] = chan[e][i + 1]
      /\ Head(chan[e]) = chan[e][1] /\ 1 \in DOMAIN chan[e] /\ Head(chan[e]) \in Packet
      /\ Head(chan[e]).type = "message" => Head(chan[e]).id \in 1..made
  BY <1>1, HeadFacts
<1>4. ASSUME NEW f \in Adjacent
      PROVE  \A i \in DOMAIN Received(e)[f] : Known(db, messages, f[1], Received(e)[f][i])
  <2>1. CASE f = e
    <3>1. \A i \in DOMAIN Tail(chan[e]) : Known(db, messages, e[1], Tail(chan[e])[i])
      BY <1>3 DEF PacketsAreKnown
    <3> QED BY <1>2, <2>1, <3>1
  <2>2. CASE f # e
    BY <1>2, <2>2 DEF PacketsAreKnown
  <2> QED BY <2>1, <2>2
<1> QED BY <1>1, <1>2, <1>3, <1>4 DEF QueuesAreKnown, PacketsAreKnown

LEMMA AckedKnown ==
  ASSUME NEW e \in Adjacent, NEW all, NEW records, QueuesAreKnown(Received(e), all, records),
         NEW ack \in Packet, ack.type # "message", Known(records, all, e[2], ack),
         chan = [f \in Adjacent |-> chan[f]]
  PROVE  QueuesAreKnown(Acked(e, ack), all, records)
<1>1. /\ Reverse2(e) \in Adjacent /\ Reverse2(e)[1] = e[2]
      /\ Received(e) = [f \in Adjacent |-> Received(e)[f]]
  BY AdjacentAssumption DEF Reverse2, Received
<1> DEFINE g == Reverse2(e)
<1>2. /\ Acked(e, ack)[g] = Append(Received(e)[g], ack)
      /\ \A f \in Adjacent : f # g => Acked(e, ack)[f] = Received(e)[f]
  BY <1>1 DEF Acked
<1>3. QueueOK(Received(e)[g], Len(all))
  BY <1>1 DEF QueuesAreKnown
<1>4. /\ QueueOK(Append(Received(e)[g], ack), Len(all))
      /\ \A i \in DOMAIN Append(Received(e)[g], ack) :
           \/ i \in DOMAIN Received(e)[g] /\ Append(Received(e)[g], ack)[i] = Received(e)[g][i]
           \/ Append(Received(e)[g], ack)[i] = ack
  <2> HIDE DEF g
  <2> QED BY <1>3, AppendFacts
<1>5. /\ QueueOK(Acked(e, ack)[g], Len(all))
      /\ \A i \in DOMAIN Acked(e, ack)[g] : Known(records, all, g[1], Acked(e, ack)[g][i])
  <2>1. g \in Adjacent /\ g[1] = e[2]
    BY <1>1
  <2> HIDE DEF g
  <2> QED BY <1>2, <1>4, <2>1 DEF QueuesAreKnown
<1> HIDE DEF g
<1> QED BY <1>2, <1>5 DEF QueuesAreKnown

-----------------------------------------------------------------------------
(* One action at a time.                                                   *)
LEMMA AnswerFloods ==
  ASSUME Flooding, NEW queues, QueuesAreKnown(queues, messages, db), chan' = queues,
         UNCHANGED <<up, db, lsaHistory, unacked, made, messages>>
  PROVE  Flooding'
<1>1. PacketsAreKnown'
  BY DEF PacketsAreKnown, QueuesAreKnown
<1>2. NumberedById'
  BY DEF Flooding, NumberedById
<1>3. RecordsAreMade'
  BY DEF Flooding, RecordsAreMade
<1>4. LinksArePaired' /\ UnackedAreKnown' /\ NewsIsUnacked'
  BY DEF Flooding, LinksArePaired, UnackedAreKnown, NewsIsUnacked
<1> QED BY <1>1, <1>2, <1>3, <1>4 DEF Flooding

LEMMA PeriodicUpdateFloods ==
  ASSUME TypeOK, Inv, Flooding, NEW r \in Router, PeriodicUpdate(r)
  PROVE  Flooding'
<1> DEFINE id == made + 1
           all == Append(messages, LSA(r, id, db[r][r].links))
           sent == [e \in Adjacent |-> IF e[1] = r /\ e \in up THEN {id} ELSE {}]
<1>1. /\ made' = id /\ messages' = all /\ db' = [db EXCEPT ![r][r].seq = id]
      /\ SendRecorded(sent, unacked, timer, all) /\ chan' = Enqueue(chan, sent)
      /\ UNCHANGED <<up, lsaHistory>>
  BY DEF PeriodicUpdate
<1>2. SendingOK /\ TablesOK
  BY TypeParts
<1>3. /\ made \in Nat /\ id \in Nat /\ made < id
      /\ \A q, o \in Router : db[q][o].seq \in Nat
      /\ \A e \in Adjacent : e[1] \in Router /\ e[2] \in Router /\ e[1] # e[2]
      /\ db[r][r].links \in SUBSET Router
  BY <1>2, RecordTypes DEF TablesOK, Record
<1>4. /\ Extends(all, messages) /\ Len(all) = id /\ all[id] = LSA(r, id, db[r][r].links)
      /\ \A i \in 1..made : all[i] = messages[i]
  <2>1. LSA(r, id, db[r][r].links) \in Message
    BY <1>3 DEF LSA, Message
  <2>2. made = Len(messages)
    BY <1>2 DEF SendingOK
  <2> QED BY <1>2, <2>1, <2>2, OneMore DEF Extends
<1>5. /\ all[id].type = "LSA" /\ all[id].origin = r /\ all[id].seq = id
      /\ all[id].links = db[r][r].links /\ all[id].content
  BY <1>4 DEF LSA
<1>6. /\ db'[r][r].seq = id /\ db'[r][r].links = db[r][r].links
      /\ \A q, o \in Router : q # r \/ o # r => db'[q][o] = db[q][o]
  <2>1. db \in [Router -> [Router -> Record]]
    BY <1>2 DEF TablesOK
  <2> HIDE DEF id
  <2> QED BY <1>1, <2>1 DEF Record
<1> HIDE DEF all
<1>7. RecordsGrow(db')
  <2>1. db[r][r].seq <= made
    BY DEF Flooding, RecordsAreMade
  <2>2. ASSUME NEW q \in Router, NEW o \in Router
        PROVE  db'[q][o].seq \in Nat /\ db[q][o].seq <= db'[q][o].seq
    BY <1>3, <1>6, <2>1
  <2> QED BY <2>2 DEF RecordsGrow
<1>8. SentAreOwn(sent, all, db')
  <2>1. ASSUME NEW e \in Adjacent, sent[e] # {}
        PROVE  sent[e] = {id} /\ e[1] = r
    BY <2>1
  <2>2. id \in 1..Len(all)
    BY <1>3, <1>4
  <2> HIDE DEF sent, id
  <2> QED BY <1>5, <1>6, <2>1, <2>2 DEF SentAreOwn, SentIsOwn
<1>9. ChangesAreSent(sent, all, db', up')
  <2> SUFFICES ASSUME NEW e \in up, NEW o \in Router \ {e[2]}, db'[e[1]][o].seq # db[e[1]][o].seq
               PROVE  \E i \in sent[e] : all[i].origin = o
    BY <1>1 DEF ChangesAreSent
  <2>1. e \in Adjacent
    BY <1>2 DEF TablesOK
  <2>2. e[1] = r /\ o = r
    BY <1>3, <1>6, <2>1
  <2>3. sent[e] = {id}
    BY <2>1, <2>2
  <2> QED BY <1>5, <2>2, <2>3
<1>10. StillPending(unacked, up')
  BY DEF StillPending
<1>11. QueuesAreKnown(chan, all, db')
  BY <1>4, <1>7, QueuesKnown, QueuesStayKnown DEF Flooding
<1>12. PacketsAreKnown' /\ UnackedAreKnown' /\ NewsIsUnacked'
  <2>1. up' \subseteq up
    BY <1>1
  <2> HIDE DEF sent
  <2> QED BY <1>1, <1>4, <1>7, <1>8, <1>9, <1>10, <1>11, <2>1, SendingFloods DEF Flooding
<1>13. NumberedById'
  <2> SUFFICES ASSUME NEW i \in 1..id
               PROVE  all[i].type = "LSA" /\ all[i].content /\ all[i].seq = i
    BY <1>1 DEF NumberedById
  <2>1. i = id \/ i \in 1..made
    BY <1>3
  <2> QED BY <1>4, <1>5, <2>1 DEF Flooding, NumberedById
<1>14. RecordsAreMade'
  <2>1. ASSUME NEW q \in Router, NEW o \in Router, q # r \/ o # r
        PROVE  /\ db'[q][o].seq <= db'[o][o].seq /\ db'[q][o].seq <= id
               /\ q # o => lsaHistory'[q][o] = db'[q][o].seq
               /\ db'[q][o].seq # 0 => /\ all[db'[q][o].seq].origin = o
                                       /\ all[db'[q][o].seq].links = db'[q][o].links
    <3>1. db'[q][o] = db[q][o] /\ db[q][o].seq \in Nat
      BY <1>3, <1>6, <2>1
    <3>2. /\ db[q][o].seq <= db[o][o].seq /\ db[q][o].seq <= made
          /\ q # o => lsaHistory[q][o] = db[q][o].seq
          /\ db[q][o].seq # 0 => /\ messages[db[q][o].seq].origin = o
                                 /\ messages[db[q][o].seq].links = db[q][o].links
      BY DEF Flooding, RecordsAreMade
    <3>3. db[o][o].seq <= db'[o][o].seq /\ db[o][o].seq \in Nat /\ db'[o][o].seq \in Nat
      BY <1>7 , <1>3 DEF RecordsGrow
    <3>4. db[q][o].seq # 0 => db[q][o].seq \in 1..made
      BY <1>3, <3>1, <3>2
    <3>5. all[db[q][o].seq] = messages[db[q][o].seq] \/ db[q][o].seq = 0
      BY <1>4, <3>4
    <3>6. db[q][o].seq <= db'[o][o].seq /\ db[q][o].seq <= id
      <4>1. made \in Nat /\ id \in Nat /\ made < id
        BY <1>3
      <4> HIDE DEF id
      <4> QED BY <3>1, <3>2, <3>3, <4>1
    <3> HIDE DEF id
    <3> QED BY <1>1, <3>1, <3>2, <3>5, <3>6
  <2>2. /\ db'[r][r].seq <= db'[r][r].seq /\ db'[r][r].seq <= id
        /\ db'[r][r].seq # 0 => /\ all[db'[r][r].seq].origin = r
                                /\ all[db'[r][r].seq].links = db'[r][r].links
    BY <1>3, <1>5, <1>6
  <2> HIDE DEF id
  <2> QED BY <1>1, <2>1, <2>2 DEF RecordsAreMade
<1>15. LinksArePaired'
  BY <1>1 DEF Flooding, LinksArePaired
<1> QED BY <1>12, <1>13, <1>14, <1>15 DEF Flooding

(* Without a map having been made, the link has gone down.                 *)
LEMMA LinkChangesFloods ==
  ASSUME TypeOK, Inv, Flooding, NoMapsMade', NEW link \in Adjacent, LinkChanges(link)
  PROVE  Flooding'
<1> DEFINE a == link[1]
           b == link[2]
           back == Reverse2(link)
           now == up \ {link, back}
           first == made + 1
           second == made + 2
           IdOf(r) == IF r = a THEN first ELSE second
           one == LSA(a, first, UpPeers(a, now))
           two == LSA(b, second, UpPeers(b, now))
           all == messages \o <<one>> \o <<two>>
           sent == [e \in Adjacent |-> IF e[1] \notin {a, b} \/ e \notin now THEN {}
                                       ELSE {IdOf(e[1])}]
           pending == [e \in Adjacent |-> IF Cancelled(e, {link}) THEN NothingUnacked
                                          ELSE unacked[e]]
           timers == {e \in timer : ~Cancelled(e, {link})}
           records == [r \in Router |->
                         IF r \in {a, b}
                         THEN [db[r] EXCEPT ![r] = [seq |-> IdOf(r), links |-> UpPeers(r, now)]]
                         ELSE db[r]]
<1>1. SendingOK /\ TablesOK
  BY TypeParts
<1>2. /\ made \in Nat /\ \A q, o \in Router : db[q][o].seq \in Nat
      /\ \A e \in Adjacent : e[1] \in Router /\ e[2] \in Router /\ e[1] # e[2]
      /\ a \in Router /\ b \in Router /\ a # b /\ back \in Adjacent /\ back # link
      /\ messages \in Seq(Message) /\ made = Len(messages) /\ up \subseteq Adjacent
  BY <1>1, RecordTypes, AdjacentAssumption DEF SendingOK, TablesOK, Reverse2
<1>3. link \in up
  <2>1. CASE link \notin up
    <3>1. PICK c, d, f, g : messages' = messages \o <<c, TPM(a, d)>> \o <<f, g>>
      BY <2>1 DEF LinkChanges
    <3>2. /\ (messages \o <<c, TPM(a, d)>> \o <<f, g>>)[made + 2] = TPM(a, d)
          /\ made + 2 \in DOMAIN (messages \o <<c, TPM(a, d)>> \o <<f, g>>)
      BY <1>2
    <3>3. TPM(a, d).type = "TPM"
      BY DEF TPM
    <3> QED BY <3>1, <3>2, <3>3 DEF NoMapsMade
  <2> QED BY <2>1
<1>4. /\ up' = now /\ made' = made + 2 /\ messages' = all /\ db' = records
      /\ SendRecorded(sent, pending, timers, all) /\ chan' = Enqueue(chan, sent)
      /\ lsaHistory' = lsaHistory
  <2> DEFINE now1 == IF link \in up THEN up \ {link, Reverse2(link)}
                     ELSE up \cup {link, Reverse2(link)}
             comesUp == link \in now1
             ends == {link[1], link[2]}
             first1 == made + 1
             second1 == first1 + IF comesUp THEN 2 ELSE 1
             IdOf1(r) == IF r = link[1] THEN first1 ELSE second1
             Made(r) == IF comesUp
                        THEN <<LSA(r, IdOf1(r), UpPeers(r, now1)), TPM(r, IdOf1(r) + 1)>>
                        ELSE <<LSA(r, IdOf1(r), UpPeers(r, now1))>>
             all1 == messages \o Made(link[1]) \o Made(link[2])
             sent1 == [e \in Adjacent |->
                         IF e[1] \notin ends \/ e \notin now1 THEN {}
                         ELSE IF e[2] \in ends /\ comesUp THEN {IdOf1(e[1]), IdOf1(e[1]) + 1}
                         ELSE {IdOf1(e[1])}]
             records1 == [r \in Router |->
                            IF r \in ends
                            THEN [db[r] EXCEPT ![r] =
                                    [seq |-> IdOf1(r), links |-> UpPeers(r, now1)]]
                            ELSE db[r]]
             pending1 == [e \in Adjacent |-> IF Cancelled(e, {link} \ now1) THEN NothingUnacked
                                             ELSE unacked[e]]
             timers1 == {e \in timer : ~Cancelled(e, {link} \ now1)}
  <2>1. /\ up' = now1 /\ made' = second1 + (second1 - first1) - 1 /\ messages' = all1
        /\ db' = records1 /\ SendRecorded(sent1, pending1, timers1, all1)
        /\ chan' = Enqueue(chan, sent1) /\ lsaHistory' = lsaHistory
    BY DEF LinkChanges
  <2>2. now1 = now
    BY <1>3
  <2>3. comesUp = FALSE /\ {link} \ now1 = {link}
    BY <2>2
  <2>4. second1 = made + 2 /\ second1 + (second1 - first1) - 1 = made + 2
    BY <1>2, <2>3
  <2> HIDE DEF now1, comesUp, second1, now
  <2>5. \A r : IdOf1(r) = IdOf(r)
    BY <2>4
  <2> HIDE DEF IdOf1, IdOf
  <2>6. Made(link[1]) = <<one>> /\ Made(link[2]) = <<two>>
    <3>1. IdOf(link[1]) = made + 1 /\ IdOf(link[2]) = made + 2
      BY <1>2 DEF IdOf
    <3> QED BY <2>2, <2>3, <2>5, <3>1
  <2>7. sent1 = sent /\ records1 = records /\ pending1 = pending /\ timers1 = timers
    BY <2>2, <2>3, <2>5
  <2> HIDE DEF Made, sent1, records1, pending1, timers1, one, two, sent, records, pending, timers
  <2> QED BY <2>1, <2>2, <2>4, <2>6, <2>7
<1>5. /\ Extends(all, messages) /\ Len(all) = made + 2
      /\ all[made + 1] = one /\ all[made + 2] = two
      /\ \A i \in 1..made : all[i] = messages[i]
  <2>1. one \in Message /\ two \in Message
    <3>1. UpPeers(a, now) \subseteq Router /\ UpPeers(b, now) \subseteq Router
      BY DEF UpPeers
    <3>2. \A r \in Router, n \in Nat, ls \in SUBSET Router : LSA(r, n, ls) \in Message
      BY DEF LSA, Message
    <3>3. made + 1 \in Nat /\ made + 2 \in Nat
      BY <1>2
    <3> HIDE DEF now, a, b
    <3> QED BY <1>2, <3>1, <3>2, <3>3
  <2> HIDE DEF one, two
  <2> QED BY <1>2, <2>1 DEF Extends
<1>6. /\ IdOf(a) = made + 1 /\ IdOf(b) = made + 2
      /\ \A r \in {a, b} : /\ all[IdOf(r)].type = "LSA" /\ all[IdOf(r)].origin = r
                           /\ all[IdOf(r)].seq = IdOf(r) /\ all[IdOf(r)].content
                           /\ all[IdOf(r)].links = UpPeers(r, now)
  <2>1. IdOf(a) = made + 1 /\ IdOf(b) = made + 2
    BY <1>2
  <2> HIDE DEF IdOf, all, now
  <2> QED BY <1>5, <2>1 DEF LSA
<1>7. /\ \A r \in {a, b} : db'[r][r].seq = IdOf(r) /\ db'[r][r].links = UpPeers(r, now)
      /\ \A r, o \in Router : r \notin {a, b} \/ r # o => db'[r][o] = db[r][o]
  <2>1. db \in [Router -> [Router -> Record]]
    BY <1>1 DEF TablesOK
  <2>2. \A r \in {a, b} : db'[r] = [db[r] EXCEPT ![r] = [seq |-> IdOf(r), links |-> UpPeers(r, now)]]
    BY <1>2, <1>4
  <2>3. \A r \in Router : r \notin {a, b} => db'[r] = db[r]
    BY <1>4
  <2>4. \A r \in {a, b} : /\ db'[r][r] = [seq |-> IdOf(r), links |-> UpPeers(r, now)]
                          /\ \A o \in Router : r # o => db'[r][o] = db[r][o]
    <3> HIDE DEF IdOf, now
    <3> QED BY <1>2, <2>1, <2>2
  <2> HIDE DEF IdOf, now
  <2> QED BY <2>3, <2>4
<1> HIDE DEF all, one, two
<1>8. \A r \in {a, b} : /\ IdOf(r) \in 1..Len(all) /\ made < IdOf(r) /\ IdOf(r) \in Nat
                        /\ IdOf(r) <= made + 2
  BY <1>2, <1>5, <1>6
<1> HIDE DEF IdOf
<1>9. RecordsGrow(db')
  <2> SUFFICES ASSUME NEW q \in Router, NEW o \in Router
               PROVE  db'[q][o].seq \in Nat /\ db[q][o].seq <= db'[q][o].seq
    BY DEF RecordsGrow
  <2>1. db[q][o].seq <= made /\ db[q][o].seq \in Nat
    BY <1>2 DEF Flooding, RecordsAreMade
  <2> QED BY <1>2, <1>7, <1>8, <2>1, SMTT(30)
<1>10. SentAreOwn(sent, all, db')
  <2>1. ASSUME NEW e \in Adjacent, sent[e] # {}
        PROVE  sent[e] = {IdOf(e[1])} /\ e[1] \in {a, b}
    BY <2>1
  <2> HIDE DEF sent, now
  <2> QED BY <1>6, <1>7, <1>8, <2>1 DEF SentAreOwn, SentIsOwn
<1>11. ChangesAreSent(sent, all, db', up')
  <2> SUFFICES ASSUME NEW e \in now, NEW o \in Router \ {e[2]}, db'[e[1]][o].seq # db[e[1]][o].seq
               PROVE  \E i \in sent[e] : all[i].origin = o
    BY <1>4 DEF ChangesAreSent
  <2>1. e \in Adjacent
    BY <1>2
  <2>2. e[1] \in {a, b} /\ o = e[1]
    BY <1>2, <1>7, <2>1
  <2>3. sent[e] = {IdOf(e[1])}
    BY <2>1, <2>2
  <2> HIDE DEF sent, now
  <2> QED BY <1>6, <2>2, <2>3
<1>12. StillPending(pending, up')
  <2> SUFFICES ASSUME NEW e \in Adjacent, Cancelled(e, {link})
               PROVE  e \notin now
    BY <1>4 DEF StillPending
  <2>1. e = link \/ e = back
    <3>1. e = <<e[1], e[2]>> /\ link = <<link[1], link[2]>>
      BY AdjacentAssumption
    <3> QED BY <3>1 DEF Cancelled, Reverse2
  <2> QED BY <2>1
<1>13. QueuesAreKnown(chan, all, db')
  BY <1>5, <1>9, QueuesKnown, QueuesStayKnown DEF Flooding
<1>14. PacketsAreKnown' /\ UnackedAreKnown' /\ NewsIsUnacked'
  <2>1. up' \subseteq up
    BY <1>4
  <2> HIDE DEF sent, pending, timers, records
  <2> QED BY <1>4, <1>5, <1>9, <1>10, <1>11, <1>12, <1>13, <2>1, SendingFloods DEF Flooding
<1>15. NumberedById'
  <2> SUFFICES ASSUME NEW i \in 1..(made + 2)
               PROVE  all[i].type = "LSA" /\ all[i].content /\ all[i].seq = i
    BY <1>4 DEF NumberedById
  <2>1. i \in 1..made \/ i = IdOf(a) \/ i = IdOf(b)
    BY <1>2, <1>6
  <2> HIDE DEF now
  <2> QED BY <1>5, <1>6, <2>1 DEF Flooding, NumberedById
<1>16. RecordsAreMade'
  <2>1. ASSUME NEW q \in Router, NEW o \in Router, q \notin {a, b} \/ q # o
        PROVE  /\ db'[q][o].seq <= db'[o][o].seq /\ db'[q][o].seq <= made + 2
               /\ q # o => lsaHistory'[q][o] = db'[q][o].seq
               /\ db'[q][o].seq # 0 => /\ all[db'[q][o].seq].origin = o
                                       /\ all[db'[q][o].seq].links = db'[q][o].links
    <3>1. db'[q][o] = db[q][o] /\ db[q][o].seq \in Nat
      BY <1>2, <1>7, <2>1
    <3>2. /\ db[q][o].seq <= db[o][o].seq /\ db[q][o].seq <= made
          /\ q # o => lsaHistory[q][o] = db[q][o].seq
          /\ db[q][o].seq # 0 => /\ messages[db[q][o].seq].origin = o
                                 /\ messages[db[q][o].seq].links = db[q][o].links
      BY DEF Flooding, RecordsAreMade
    <3>3. db[o][o].seq <= db'[o][o].seq /\ db[o][o].seq \in Nat /\ db'[o][o].seq \in Nat
      BY <1>9, <1>2 DEF RecordsGrow
    <3>4. db[q][o].seq # 0 => db[q][o].seq \in 1..made
      BY <1>2, <3>1, <3>2
    <3>5. all[db[q][o].seq] = messages[db[q][o].seq] \/ db[q][o].seq = 0
      BY <1>5, <3>4
    <3>6. db[q][o].seq <= db'[o][o].seq /\ db[q][o].seq <= made + 2
      BY <1>2, <3>1, <3>2, <3>3
    <3> QED BY <1>4, <3>1, <3>2, <3>5, <3>6
  <2>2. ASSUME NEW q \in {a, b}
        PROVE  /\ db'[q][q].seq <= db'[q][q].seq /\ db'[q][q].seq <= made + 2
               /\ all[db'[q][q].seq].origin = q
               /\ all[db'[q][q].seq].links = db'[q][q].links
    <3> HIDE DEF now
    <3> QED BY <1>6, <1>7, <1>8
  <2>3. ASSUME NEW q \in Router, NEW o \in Router
        PROVE  /\ db'[q][o].seq <= db'[o][o].seq /\ db'[q][o].seq <= made'
               /\ q # o => lsaHistory'[q][o] = db'[q][o].seq
               /\ db'[q][o].seq # 0 => /\ messages'[db'[q][o].seq].origin = o
                                       /\ messages'[db'[q][o].seq].links = db'[q][o].links
    <3>1. CASE q \notin {a, b} \/ q # o
      BY <1>4, <2>1, <3>1
    <3>2. CASE q \in {a, b} /\ q = o
      BY <1>4, <2>2, <3>2, Zenon
    <3> QED BY <3>1, <3>2
  <2> QED BY <2>3 DEF RecordsAreMade
<1>17. LinksArePaired'
  <2> SUFFICES ASSUME NEW e \in now
               PROVE  Reverse2(e) \in now
    BY <1>4 DEF LinksArePaired
  <2>1. e = <<e[1], e[2]>> /\ link = <<link[1], link[2]>> /\ Reverse2(e) \in up
    BY <1>2, AdjacentAssumption DEF Flooding, LinksArePaired
  <2> QED BY <2>1 DEF Reverse2
<1> QED BY <1>14, <1>15, <1>16, <1>17 DEF Flooding

(* The sender of an advertisement has it.                                  *)
LEMMA ReceivedFacts ==
  ASSUME TypeOK, Flooding, NEW e \in Adjacent, chan[e] # <<>>, NEW id,
         Head(chan[e]).type = "message", Head(chan[e]).id = id
  PROVE  /\ id \in 1..made /\ id \in Nat /\ messages[id].origin \in Router
         /\ messages[id].type = "LSA" /\ messages[id].content /\ messages[id].seq = id
         /\ messages[id].links \in SUBSET Router
         /\ id <= db[e[1]][messages[id].origin].seq
<1>1. id \in 1..made /\ Known(db, messages, e[1], Head(chan[e]))
  BY ReceivedKnown DEF Flooding
<1>2. messages[id].type = "LSA" /\ messages[id].content /\ messages[id].seq = id
  BY <1>1 DEF Flooding, NumberedById
<1>3. SendingOK
  BY TypeParts
<1>4. messages[id].origin \in Router /\ id \in Nat /\ messages[id].links \in SUBSET Router
  BY <1>1, <1>2, <1>3, MessageFacts
<1> QED BY <1>1, <1>2, <1>4 DEF Known

LEMMA ReceiveOldLSAFloods ==
  ASSUME TypeOK, Flooding, NEW e \in Adjacent, chan[e] # <<>>, NEW id,
         Head(chan[e]).type = "message", Head(chan[e]).id = id, ReceiveOldLSA(e, id)
  PROVE  Flooding'
<1> DEFINE o == messages[id].origin
           ack == Ack("LSAACK", o, id)
<1>1. id \in Nat /\ o \in Router /\ messages[id].seq = id /\ e[2] \in Router
  BY ReceivedFacts, RecordTypes
<1>2. ack \in Packet /\ ack.type = "LSAACK" /\ ack.origin = o /\ ack.seq = id
  <2> HIDE DEF o
  <2> QED BY <1>1 DEF Ack, Packet
<1>3. o = e[2] \/ id <= db[e[2]][o].seq
  <2>1. o = e[2] \/ ~(lsaHistory[e[2]][o] < id)
    BY <1>1 DEF ReceiveOldLSA, OldLSA, IsNewMessage
  <2>2. o = e[2] \/ lsaHistory[e[2]][o] = db[e[2]][o].seq
    BY <1>1 DEF Flooding, RecordsAreMade
  <2>3. db[e[2]][o].seq \in Nat
    BY <1>1, RecordTypes
  <2> HIDE DEF o
  <2> QED BY <1>1, <2>1, <2>2, <2>3
<1>4. chan = [f \in Adjacent |-> chan[f]]
  BY DEF TypeOK
<1>5. QueuesAreKnown(Acked(e, ack), messages, db)
  <2>1. QueuesAreKnown(Received(e), messages, db)
    BY ReceivedKnown DEF Flooding
  <2>2. Known(db, messages, e[2], ack) /\ ack.type # "message"
    <3> HIDE DEF ack, o
    <3> QED BY <1>2, <1>3 DEF Known
  <2> HIDE DEF ack
  <2> QED BY <1>2, <1>4, <2>1, <2>2, AckedKnown
<1>6. /\ chan' = Acked(e, ack)
      /\ UNCHANGED <<up, db, lsaHistory, unacked, made, messages>>
  BY DEF ReceiveOldLSA, routing, storage
<1> HIDE DEF ack
<1> QED BY <1>5, <1>6, AnswerFloods

LEMMA ReceiveNewLSAFloods ==
  ASSUME TypeOK, Inv, Flooding, NEW e \in Adjacent, chan[e] # <<>>, NEW id,
         Head(chan[e]).type = "message", Head(chan[e]).id = id, ReceiveNewLSA(e, id)
  PROVE  Flooding'
<1> DEFINE o == messages[id].origin
           s == e[1]
           r == e[2]
           ack == Ack("LSAACK", o, id)
           sent == Forwards(e, id)
           records == [db EXCEPT ![r][o] = [seq |-> messages[id].seq, links |-> messages[id].links]]
<1>1. /\ id \in 1..made /\ id \in Nat /\ o \in Router /\ messages[id].seq = id
      /\ messages[id].type = "LSA" /\ messages[id].content /\ id <= db[s][o].seq
  BY ReceivedFacts
<1>2. /\ made \in Nat /\ r \in Router /\ s \in Router /\ r # s
      /\ \A q, p \in Router : db[q][p].seq \in Nat
      /\ made = Len(messages) /\ messages \in Seq(Message)
      /\ chan = [f \in Adjacent |-> chan[f]] /\ up \subseteq Adjacent
      /\ db \in [Router -> [Router -> Record]] /\ lsaHistory \in [Router -> [Router -> Nat]]
  BY RecordTypes DEF TypeOK
<1>3. /\ db' = records /\ lsaHistory' = [lsaHistory EXCEPT ![r][o] = id]
      /\ SendRecorded(sent, unacked, timer, messages)
      /\ chan' = Enqueue(Acked(e, ack), sent)
      /\ UNCHANGED <<up, made, messages>>
  BY <1>1 DEF ReceiveNewLSA, storage
<1>4. o # r /\ db[r][o].seq < id
  <2>1. o # r /\ lsaHistory[r][o] < id
    BY <1>1 DEF ReceiveNewLSA, OldLSA, IsNewMessage
  <2>2. lsaHistory[r][o] = db[r][o].seq
    BY <1>1, <1>2, <2>1 DEF Flooding, RecordsAreMade
  <2> QED BY <2>1, <2>2
<1>5. /\ db'[r][o].seq = id /\ db'[r][o].links = messages[id].links
      /\ \A q, p \in Router : q # r \/ p # o => db'[q][p] = db[q][p]
  <2> HIDE DEF o, r
  <2> QED BY <1>1, <1>2, <1>3
<1>6. /\ lsaHistory'[r][o] = id
      /\ \A q, p \in Router : q # r \/ p # o => lsaHistory'[q][p] = lsaHistory[q][p]
  <2> HIDE DEF o, r
  <2> QED BY <1>1, <1>2, <1>3
<1> HIDE DEF records
<1>7. RecordsGrow(db')
  <2> SUFFICES ASSUME NEW q \in Router, NEW p \in Router
               PROVE  db'[q][p].seq \in Nat /\ db[q][p].seq <= db'[q][p].seq
    BY DEF RecordsGrow
  <2>1. db[q][p].seq \in Nat
    BY <1>2
  <2>2. CASE q = r /\ p = o
    <3>1. db'[q][p].seq = id /\ db[q][p].seq < id
      BY <1>4, <1>5, <2>2
    <3> HIDE DEF o, r
    <3> QED BY <1>1, <2>1, <3>1
  <2>3. CASE ~(q = r /\ p = o)
    <3>1. db'[q][p] = db[q][p]
      BY <1>5, <2>3
    <3> QED BY <2>1, <3>1
  <2> QED BY <2>2, <2>3
<1>8. SentAreOwn(sent, messages, db')
  <2>1. ASSUME NEW f \in Adjacent, sent[f] # {}
        PROVE  sent[f] = {id} /\ f[1] = r
    BY <2>1 DEF Forwards
  <2>2. id \in 1..Len(messages) /\ messages[id].type = "LSA" /\ messages[id].seq = id
    BY <1>1, <1>2
  <2>3. db'[r][messages[id].origin].seq = id
    BY <1>5
  <2> HIDE DEF sent, r
  <2>4. ASSUME NEW f \in Adjacent, sent[f] # {}
        PROVE  SentIsOwn(sent[f], messages, db', f[1])
    BY ONLY <2>1, <2>2, <2>3, <2>4 DEF SentIsOwn
  <2>5. ASSUME NEW f \in Adjacent, sent[f] = {}
        PROVE  SentIsOwn(sent[f], messages, db', f[1])
    BY <2>5 DEF SentIsOwn
  <2> QED BY ONLY <2>4, <2>5 DEF SentAreOwn
<1>9. ChangesAreSent(sent, messages, db', up')
  <2> SUFFICES ASSUME NEW f \in up, NEW p \in Router \ {f[2]},
                      db'[f[1]][p].seq # db[f[1]][p].seq,
                      ~(db'[f[1]][p].seq <= db'[f[2]][p].seq)
               PROVE  \E i \in sent[f] : messages[i].origin = p
    BY <1>3 DEF ChangesAreSent
  <2>1. f \in Adjacent /\ f[1] \in Router /\ f[2] \in Router
    BY <1>2, RecordTypes
  <2>2. f[1] = r /\ p = o
    BY <1>5, <2>1
  <2>3. f[2] # s
    <3>1. db'[s][o] = db[s][o]
      BY <1>1, <1>2, <1>5
    <3> QED BY <1>1, <1>5, <2>2, <3>1
  <2>4. id \in sent[f]
    BY <2>1, <2>2, <2>3 DEF Forwards
  <2> QED BY <2>2, <2>4
<1>10. StillPending(unacked, up')
  BY DEF StillPending
<1>11. Extends(messages, messages)
  BY <1>2 DEF Extends
<1>12. QueuesAreKnown(Acked(e, ack), messages, db')
  <2>1. QueuesAreKnown(Received(e), messages, db')
    <3>1. QueuesAreKnown(Received(e), messages, db)
      BY ReceivedKnown DEF Flooding
    <3> QED BY <1>7, <1>11, <3>1, QueuesStayKnown
  <2>2. ack \in Packet /\ ack.type = "LSAACK" /\ ack.origin = o /\ ack.seq = id
    <3> HIDE DEF o
    <3> QED BY <1>1 DEF Ack, Packet
  <2>3. Known(db', messages, e[2], ack) /\ ack.type # "message"
    <3> HIDE DEF ack, o
    <3> QED BY <1>1, <1>5, <2>2 DEF Known
  <2> HIDE DEF ack
  <2> QED BY <1>2, <2>1, <2>2, <2>3, AckedKnown
<1>13. PacketsAreKnown' /\ UnackedAreKnown' /\ NewsIsUnacked'
  <2>1. up' \subseteq up /\ messages' = messages
    BY <1>3
  <2> DEFINE queues == Acked(e, ack)
  <2>2. QueuesAreKnown(queues, messages, db') /\ chan' = Enqueue(queues, sent)
    BY <1>3, <1>12
  <2> HIDE DEF sent, queues
  <2> QED BY <1>3, <1>7, <1>8, <1>9, <1>10, <1>11, <2>1, <2>2, SendingFloods DEF Flooding
<1>14. NumberedById' /\ LinksArePaired'
  BY <1>3 DEF Flooding, NumberedById, LinksArePaired
<1>15. RecordsAreMade'
  <2>1. db[s][o].seq <= db[o][o].seq /\ db'[o][o] = db[o][o] /\ db[o][o].seq \in Nat
        /\ db[s][o].seq \in Nat
    BY <1>1, <1>2, <1>4, <1>5 DEF Flooding, RecordsAreMade
  <2>2. ASSUME NEW q \in Router, NEW p \in Router
        PROVE  /\ db'[q][p].seq <= db'[p][p].seq /\ db'[q][p].seq <= made
               /\ q # p => lsaHistory'[q][p] = db'[q][p].seq
               /\ db'[q][p].seq # 0 => /\ messages[db'[q][p].seq].origin = p
                                       /\ messages[db'[q][p].seq].links = db'[q][p].links
    <3>1. CASE q = r /\ p = o
      <4>1. id <= db'[o][o].seq
        <5> HIDE DEF o
        <5> QED BY <1>1, <2>1
      <4>2. id <= made
        BY <1>1
      <4> QED BY <1>5, <1>6, <3>1, <4>1, <4>2
    <3>2. CASE ~(q = r /\ p = o)
      <4>1. db'[q][p] = db[q][p] /\ lsaHistory'[q][p] = lsaHistory[q][p] /\ db'[p][p] = db[p][p]
        BY <1>4, <1>5, <1>6, <3>2
      <4> QED BY <4>1 DEF Flooding, RecordsAreMade
    <3> QED BY <3>1, <3>2
  <2> QED BY <1>3, <2>2 DEF RecordsAreMade
<1> QED BY <1>13, <1>14, <1>15 DEF Flooding

(* An acknowledgement of the newest form of a record erases it; the peer   *)
(* has it then.                                                            *)
LEMMA ReceiveAckFloods ==
  ASSUME TypeOK, Inv, Flooding, NEW e \in Adjacent, chan[e] # <<>>,
         Head(chan[e]).type # "message", ReceiveAck(e, Head(chan[e]))
  PROVE  Flooding'
<1> DEFINE m == Head(chan[e])
           f == Reverse2(e)
           left == Erased(unacked[f], m)
<1>1. QueuesAreKnown(Received(e), messages, db) /\ m \in Packet /\ Known(db, messages, e[1], m)
  BY ReceivedKnown DEF Flooding
<1>2. m.type \in {"LSAACK", "TPMACK"} /\ m.origin \in Router /\ m.seq \in Nat
  <2>1. m.type # "message"
    OBVIOUS
  <2> HIDE DEF m
  <2> QED BY <1>1, <2>1 DEF Packet
<1>3. /\ chan' = Received(e) /\ UNCHANGED <<up, db, lsaHistory, made, messages>>
      /\ unacked' = unacked \/ unacked' = [unacked EXCEPT ![f] = left]
  BY DEF ReceiveAck, routing, storage
<1>4. CASE unacked' = unacked
  BY <1>1, <1>3, <1>4, AnswerFloods
<1>5. CASE unacked' = [unacked EXCEPT ![f] = left]
  <2>1. /\ f \in Adjacent /\ f[1] = e[2] /\ f[2] = e[1] /\ f[1] \in Router /\ f[2] \in Router
        /\ DOMAIN unacked = Adjacent /\ up \subseteq Adjacent
    BY AdjacentAssumption, RecordTypes DEF Reverse2, TypeOK
  <2> HIDE DEF f
  <2>2. PendingOK(unacked[f], messages) /\ Len(messages) \in Nat
    BY <2>1, TypeParts DEF SendingOK
  <2>3. unacked[f] = [tpm |-> unacked[f].tpm,
                      lsa |-> [o \in DOMAIN unacked[f].lsa |-> unacked[f].lsa[o]]]
    BY <2>1 DEF Inv, Shape
  <2>4. /\ DOMAIN left.lsa \subseteq DOMAIN unacked[f].lsa
        /\ \A o \in DOMAIN left.lsa : left.lsa[o] = unacked[f].lsa[o]
        /\ m.type = "TPMACK" => left.lsa = unacked[f].lsa
        /\ \A o \in DOMAIN unacked[f].lsa :
             o \in DOMAIN left.lsa \/ (o = m.origin /\ unacked[f].lsa[o].seq = m.seq)
    <3>1. left = Erased(unacked[f], m)
      OBVIOUS
    <3> HIDE DEF m, left
    <3> QED BY <2>3, <3>1, ErasedLeaves
  <2>5. unacked[f].tpm = None
    BY <2>1 DEF Flooding, UnackedAreKnown
  <2>6. left.tpm = None
    <3>1. unacked[f] = [unacked[f] EXCEPT !.tpm = None]
      BY <2>3, <2>5
    <3> HIDE DEF m
    <3> QED BY <2>3, <2>5 DEF Erased
  <2>7. /\ unacked'[f] = left
        /\ \A g \in Adjacent : g # f => unacked'[g] = unacked[g]
    BY <1>5, <2>1
  <2> HIDE DEF left
  <2>8. UnackedAreKnown'
    <3> SUFFICES ASSUME NEW g \in Adjacent
                 PROVE  /\ unacked'[g].tpm = None
                        /\ \A o \in DOMAIN unacked'[g].lsa :
                             /\ unacked'[g].lsa[o].id = unacked'[g].lsa[o].seq
                             /\ unacked'[g].lsa[o].seq <= db[g[1]][o].seq
      BY <1>3 DEF UnackedAreKnown
    <3>1. /\ unacked[g].tpm = None
          /\ \A o \in DOMAIN unacked[g].lsa :
               /\ unacked[g].lsa[o].id = unacked[g].lsa[o].seq
               /\ unacked[g].lsa[o].seq <= db[g[1]][o].seq
      BY DEF Flooding, UnackedAreKnown
    <3>2. CASE g # f
      BY <2>7, <3>1, <3>2
    <3>3. CASE g = f
      BY <2>4, <2>6, <2>7, <3>1, <3>3
    <3> QED BY <3>2, <3>3
  <2>9. NewsIsUnacked'
    <3> SUFFICES ASSUME NEW g \in up, NEW o \in Router \ {g[2]}
                 PROVE  \/ db[g[1]][o].seq <= db[g[2]][o].seq
                        \/ /\ o \in DOMAIN unacked'[g].lsa
                           /\ unacked'[g].lsa[o].seq = db[g[1]][o].seq
      BY <1>3 DEF NewsIsUnacked
    <3>1. \/ db[g[1]][o].seq <= db[g[2]][o].seq
          \/ o \in DOMAIN unacked[g].lsa /\ unacked[g].lsa[o].seq = db[g[1]][o].seq
      BY DEF Flooding, NewsIsUnacked
    <3>2. CASE g # f
      BY <2>1, <2>7, <3>1, <3>2
    <3>3. CASE g = f
      <4>1. ASSUME o \in DOMAIN unacked[f].lsa, unacked[f].lsa[o].seq = db[f[1]][o].seq,
                   o \notin DOMAIN left.lsa
            PROVE  db[f[1]][o].seq <= db[f[2]][o].seq
        <5>1. o = m.origin /\ unacked[f].lsa[o].seq = m.seq /\ m.type = "LSAACK"
          BY <1>2, <2>4, <4>1
        <5> HIDE DEF m
        <5>2. m.seq <= db[e[1]][o].seq
          BY <1>1, <2>1, <3>3, <5>1 DEF Known
        <5> QED BY <2>1, <4>1, <5>1, <5>2
      <4> QED BY <2>4, <2>7, <3>1, <3>3, <4>1
    <3> QED BY <3>2, <3>3
  <2>10. PacketsAreKnown'
    BY <1>1, <1>3 DEF PacketsAreKnown, QueuesAreKnown
  <2>11. NumberedById' /\ RecordsAreMade' /\ LinksArePaired'
    <3>1. NumberedById'
      BY <1>3 DEF Flooding, NumberedById
    <3>2. RecordsAreMade'
      BY <1>3 DEF Flooding, RecordsAreMade
    <3>3. LinksArePaired'
      BY <1>3 DEF Flooding, LinksArePaired
    <3> QED BY <3>1, <3>2, <3>3
  <2> QED BY <2>8, <2>9, <2>10, <2>11 DEF Flooding
<1> QED BY <1>3, <1>4, <1>5

(* What is repeated, the sender still has.                                 *)
LEMMA ResendFloods ==
  ASSUME TypeOK, Flooding, NEW e \in Adjacent, ResendMessages(e)
  PROVE  Flooding'
<1> DEFINE again == Packets(Resends(unacked[e]))
           queues == [chan EXCEPT ![e] = @ \o again]
<1>1. /\ chan' = queues
      /\ UNCHANGED <<up, db, lsaHistory, unacked, made, messages>>
  BY DEF ResendMessages, routing, storage
<1>2. SendingOK
  BY TypeParts
<1>3. /\ made \in Nat /\ made = Len(messages) /\ QueueOK(chan[e], made)
      /\ PendingOK(unacked[e], messages) /\ chan = [f \in Adjacent |-> chan[f]]
  BY <1>2, RecordTypes DEF SendingOK
<1>4. /\ again \in Seq(Packet)
      /\ \A i \in 1..Len(again) :
           \/ unacked[e].tpm \in 1..made /\ again[i] = Named(unacked[e].tpm)
           \/ \E o \in DOMAIN unacked[e].lsa : again[i] = Named(unacked[e].lsa[o].id)
  <2>1. /\ unacked[e].tpm \in 0..made /\ DOMAIN unacked[e].lsa \subseteq Router
        /\ \A o \in DOMAIN unacked[e].lsa : unacked[e].lsa[o].id \in 1..made
    BY <1>3 DEF PendingOK
  <2> QED BY <1>3, <2>1, ResendsFacts, SMTT(30)
<1>5. /\ unacked[e].tpm = None
      /\ \A o \in DOMAIN unacked[e].lsa :
           /\ unacked[e].lsa[o].id <= db[e[1]][o].seq
           /\ unacked[e].lsa[o].id \in 1..made
           /\ messages[unacked[e].lsa[o].id].origin = o
  BY <1>3 DEF Flooding, UnackedAreKnown, PendingOK
<1> HIDE DEF again
<1>6. QueueOK(again, made) /\ \A i \in DOMAIN again : Known(db, messages, e[1], again[i])
  <2>1. ASSUME NEW i \in DOMAIN again
        PROVE  /\ again[i].type = "message" => again[i].id \in 1..made
               /\ Known(db, messages, e[1], again[i])
    <3>1. i \in 1..Len(again)
      BY <1>4
    <3>2. PICK o \in DOMAIN unacked[e].lsa : again[i] = Named(unacked[e].lsa[o].id)
      <4>1. unacked[e].tpm \notin 1..made
        BY <1>3, <1>5 DEF None
      <4> QED BY <1>4, <3>1, <4>1
    <3>3. again[i].type = "message" /\ again[i].id = unacked[e].lsa[o].id
      BY <3>2 DEF Named
    <3> QED BY <1>5, <3>3 DEF Known
  <2> QED BY <1>4, <2>1 DEF QueueOK
<1>7. /\ QueueOK(chan[e] \o again, made)
      /\ \A i \in DOMAIN (chan[e] \o again) :
           \/ i \in DOMAIN chan[e] /\ (chan[e] \o again)[i] = chan[e][i]
           \/ \E j \in DOMAIN again : (chan[e] \o again)[i] = again[j]
  <2> DEFINE queue == chan[e]
  <2>1. QueueOK(queue, made)
    BY <1>3
  <2> HIDE DEF queue
  <2>2. /\ QueueOK(queue \o again, made)
        /\ \A i \in DOMAIN (queue \o again) :
             \/ i \in DOMAIN queue /\ (queue \o again)[i] = queue[i]
             \/ \E j \in DOMAIN again : (queue \o again)[i] = again[j]
    BY <1>6, <2>1, ConcatFacts
  <2> QED BY <2>2 DEF queue
<1>8. queues[e] = chan[e] \o again /\ \A f \in Adjacent : f # e => queues[f] = chan[f]
  BY <1>3
<1> HIDE DEF queues
<1>9. QueuesAreKnown(queues, messages, db)
  <2> SUFFICES ASSUME NEW f \in Adjacent
               PROVE  /\ QueueOK(queues[f], Len(messages))
                      /\ \A i \in DOMAIN queues[f] : Known(db, messages, f[1], queues[f][i])
    BY DEF QueuesAreKnown
  <2>1. CASE f = e
    <3>1. \A i \in DOMAIN chan[e] : Known(db, messages, e[1], chan[e][i])
      BY DEF Flooding, PacketsAreKnown
    <3> QED BY <1>3, <1>6, <1>7, <1>8, <2>1, <3>1
  <2>2. CASE f # e
    BY <1>8, <2>2, QueuesKnown DEF QueuesAreKnown, Flooding
  <2> QED BY <2>1, <2>2
<1> QED BY <1>1, <1>9, AnswerFloods

(* A packet that leaves and is not answered.                               *)
LEMMA LeavingFloods ==
  ASSUME TypeOK, Flooding, NEW e \in Adjacent, chan[e] # <<>>, chan' = Received(e),
         UNCHANGED <<up, db, lsaHistory, unacked, made, messages>>
  PROVE  Flooding'
<1>1. QueuesAreKnown(Received(e), messages, db)
  BY ReceivedKnown DEF Flooding
<1> QED BY <1>1, AnswerFloods

LEMMA InitFloods == Init => Flooding
<1> SUFFICES ASSUME Init
             PROVE  Flooding
  OBVIOUS
<1> DEFINE Seq0(o) == IF o \in Started THEN FirstId(o) ELSE 0
           n == Cardinality(Started)
<1>1. /\ n \in Nat /\ \A o \in Started : FirstId(o) \in 1..n
      /\ \A o \in Started : Ascending(Started)[FirstId(o)] = o
      /\ \A i \in 1..n : Ascending(Started)[i] \in Started
  BY MadeFirst
<1>2. /\ made = n
      /\ \A i \in 1..n :
           /\ messages[i].type = "LSA" /\ messages[i].seq = i /\ messages[i].content
           /\ messages[i].origin = Ascending(Started)[i]
           /\ messages[i].links = UpPeers(Ascending(Started)[i], Adjacent \ Down)
  <2>1. made = n /\ messages = [i \in 1..n |-> LET o == Ascending(Started)[i]
                                               IN LSA(o, i, UpPeers(o, Adjacent \ Down))]
    BY DEF Init
  <2> HIDE DEF n
  <2> QED BY <2>1 DEF LSA
<1>3. \A q, o \in Router :
        /\ db[q][o].seq = Seq0(o)
        /\ o \in Started => db[q][o].links = UpPeers(o, Adjacent \ Down)
        /\ q # o => lsaHistory[q][o] = Seq0(o)
  <2>1. ASSUME NEW q \in Router, NEW o \in Router
        PROVE  /\ db[q][o] = InitRecord(q, o)
               /\ lsaHistory[q][o] = IF o \in Started \ {q} THEN FirstId(o) ELSE None
    BY DEF Init
  <2>2. ASSUME NEW q \in Router, NEW o \in Router
        PROVE  /\ InitRecord(q, o).seq = Seq0(o)
               /\ o \in Started => InitRecord(q, o).links = UpPeers(o, Adjacent \ Down)
    BY DEF InitRecord, NoRecord
  <2> QED BY <2>1, <2>2 DEF None
<1>4. LinksArePaired
  <2> SUFFICES ASSUME NEW e \in Adjacent \ Down
               PROVE  Reverse2(e) \in Adjacent \ Down
    BY DEF Init, LinksArePaired
  <2>1. Reverse2(Reverse2(e)) = e /\ Reverse2(e) \in Adjacent
    BY AdjacentAssumption DEF Reverse2
  <2>2. Reverse2(e) \in Down => Reverse2(Reverse2(e)) \in Down
    BY DownAssumption DEF Reverse2
  <2> QED BY <2>1, <2>2
<1>5. NumberedById
  BY <1>2 DEF NumberedById
<1>6. RecordsAreMade
  <2> HIDE DEF n
  <2> SUFFICES ASSUME NEW q \in Router, NEW o \in Router
               PROVE  /\ db[q][o].seq <= db[o][o].seq /\ db[q][o].seq <= made
                      /\ q # o => lsaHistory[q][o] = db[q][o].seq
                      /\ db[q][o].seq # 0 => /\ messages[db[q][o].seq].origin = o
                                             /\ messages[db[q][o].seq].links = db[q][o].links
    BY DEF RecordsAreMade
  <2>1. CASE o \in Started
    <3>1. db[q][o].seq = FirstId(o) /\ db[o][o].seq = FirstId(o)
      BY <1>3, <2>1
    <3>2. FirstId(o) \in 1..n
      BY <1>1, <2>1
    <3>3. /\ messages[FirstId(o)].origin = o
          /\ messages[FirstId(o)].links = UpPeers(o, Adjacent \ Down)
      BY <1>1, <1>2, <2>1, <3>2, ZenonT(60)
    <3>4. db[q][o].links = UpPeers(o, Adjacent \ Down)
      BY <1>3, <2>1
    <3>5. q # o => lsaHistory[q][o] = FirstId(o)
      BY <1>3, <2>1
    <3>6. FirstId(o) <= FirstId(o) /\ FirstId(o) <= made
      BY <1>1, <1>2, <3>2
    <3> QED BY <3>1, <3>3, <3>4, <3>5, <3>6
  <2>2. CASE o \notin Started
    BY <1>1, <1>2, <1>3, <2>2
  <2> QED BY <2>1, <2>2
<1>7. PacketsAreKnown
  BY DEF Init, PacketsAreKnown
<1>8. UnackedAreKnown
  BY DEF Init, UnackedAreKnown, NothingUnacked
<1>9. NewsIsUnacked
  <2> SUFFICES ASSUME NEW e \in up, NEW o \in Router
               PROVE  db[e[1]][o].seq <= db[e[2]][o].seq
    BY DEF NewsIsUnacked
  <2>1. e[1] \in Router /\ e[2] \in Router
    BY AdjacentAssumption DEF Init
  <2>2. Seq0(o) <= Seq0(o)
    <3>1. Seq0(o) \in Nat
      <4> HIDE DEF n
      <4> QED BY <1>1
    <3> QED BY <3>1
  <2> QED BY <1>3, <2>1, <2>2
<1> QED BY <1>4, <1>5, <1>6, <1>7, <1>8, <1>9 DEF Flooding

LEMMA FloodingStep ==
  ASSUME TypeOK, Inv, NoMapsMade => Flooding, [Next]_vars, NoMapsMade'
  PROVE  Flooding'
<1>1. NoMapsMade
  BY MessagesStay DEF NoMapsMade
<1>2. Flooding
  BY <1>1
<1>3. ASSUME NEW r \in Router, PeriodicUpdate(r)
      PROVE  Flooding'
  BY <1>2, <1>3, PeriodicUpdateFloods
<1>4. ASSUME NEW link \in Adjacent, LinkChanges(link)
      PROVE  Flooding'
  BY <1>2, <1>4, LinkChangesFloods
<1>5. ASSUME NEW e \in Adjacent, ReceiveMessage(e)
      PROVE  Flooding'
  <2>1. chan[e] # <<>>
    BY <1>5 DEF ReceiveMessage
  <2>2. CASE Head(chan[e]).type # "message"
    <3>1. ReceiveAck(e, Head(chan[e]))
      BY <1>5, <2>2 DEF ReceiveMessage
    <3> QED BY <1>2, <2>1, <2>2, <3>1, ReceiveAckFloods
  <2>3. CASE Head(chan[e]).type = "message"
    <3> DEFINE id == Head(chan[e]).id
    <3>1. ReceiveLSA(e, id) \/ ReceiveTopo(e, id) \/ ReceiveRecycled(e)
      BY <1>5, <2>3 DEF ReceiveMessage
    <3>2. messages[id].type = "LSA"
      BY <1>2, <2>1, <2>3, ReceivedFacts
    <3>3. ~ReceiveTopo(e, id)
      BY <3>2 DEF ReceiveTopo
    <3>4. CASE ReceiveOldLSA(e, id)
      BY <1>2, <2>1, <2>3, <3>4, ReceiveOldLSAFloods
    <3>5. CASE ReceiveNewLSA(e, id)
      BY <1>2, <2>1, <2>3, <3>5, ReceiveNewLSAFloods
    <3>6. CASE ReceiveRecycled(e)
      BY <1>2, <2>1, <3>6, LeavingFloods DEF ReceiveRecycled, routing, storage
    <3> HIDE DEF id
    <3> QED BY <3>1, <3>3, <3>4, <3>5, <3>6 DEF ReceiveLSA
  <2> QED BY <2>2, <2>3
<1>6. ASSUME NEW e \in Adjacent, ResendMessages(e)
      PROVE  Flooding'
  BY <1>2, <1>6, ResendFloods
<1>7. ASSUME NEW e \in Adjacent, Lose(e)
      PROVE  Flooding'
  BY <1>2, <1>7, LeavingFloods DEF Lose, routing, storage
<1>8. CASE UNCHANGED vars
  BY <1>2, <1>8, QueuesKnown, AnswerFloods DEF vars, Flooding
<1> QED BY <1>3, <1>4, <1>5, <1>6, <1>7, <1>8 DEF Next

LEMMA FloodingHolds == Spec => [](TypeOK /\ (NoMapsMade => Flooding))
<1>1. TypeOK /\ Inv /\ (NoMapsMade => Flooding) /\ [Next]_vars
        => TypeOK' /\ Inv' /\ (NoMapsMade => Flooding)'
  BY TypeStep, NextKeepsInv, FloodingStep
<1> QED BY TypeInit, InitEstablishesInv, InitFloods, <1>1, PTL DEF Spec

(* NewsIsPending, in runs of the protocol where no link has come up again: *)
(* what a router knows and a peer does not is unacknowledged and will be   *)
(* repeated.  Packets are lost and repeated and links go down in any       *)
(* order; no bound is put on their number.                                 *)
THEOREM NewsStaysPending == Spec => [](NoMapsMade => NewsIsPending)
<1>1. TypeOK /\ (NoMapsMade => Flooding) => (NoMapsMade => NewsIsPending)
  BY DEF Flooding, NewsIsUnacked, NewsIsPending
<1> QED BY FloodingHolds, <1>1, PTL

(* Two peers that have nothing to send each other have the same records.   *)
LEMMA PeersAgree ==
  ASSUME TypeOK, Flooding, Quiet, NEW e \in up, NEW o \in Router
  PROVE  db[e[1]][o].seq = db[e[2]][o].seq
<1>1. /\ e \in Adjacent /\ e[1] \in Router /\ e[2] \in Router
      /\ \A q, p \in Router : db[q][p].seq \in Nat
  BY RecordTypes DEF TypeOK
<1>2. /\ Reverse2(e) \in up /\ Reverse2(e)[1] = e[2] /\ Reverse2(e)[2] = e[1]
      /\ Reverse2(e) \in Adjacent
  BY <1>1, AdjacentAssumption DEF Flooding, LinksArePaired, Reverse2
<1>3. ASSUME NEW f \in up, f \in Adjacent, f[1] \in Router, f[2] \in Router
      PROVE  db[f[1]][o].seq <= db[f[2]][o].seq
  <2>1. unacked[f].lsa = [p \in {} |-> None]
    BY <1>3 DEF Quiet, NothingUnacked
  <2>2. o = f[2] \/ db[f[1]][o].seq <= db[f[2]][o].seq
    BY <2>1 DEF Flooding, NewsIsUnacked
  <2>3. db[f[1]][o].seq <= db[o][o].seq
    BY <1>3 DEF Flooding, RecordsAreMade
  <2> QED BY <2>2, <2>3
<1> HIDE DEF Reverse2
<1> QED BY <1>1, <1>2, <1>3

(* AgreeWhenQuiet, in the same runs: with no packet on its way and nothing *)
(* unacknowledged, routers that can reach each other have the same records.*)
THEOREM DatabasesAgree == Spec => [](NoMapsMade => AgreeWhenQuiet)
<1>1. ASSUME TypeOK, Flooding, Quiet, NEW r \in Router, NEW o \in Router,
             o \in Reached(r, [n \in Router |-> UpPeers(n, up)]), db[o][o].seq # 0
      PROVE  db[r][o] = db[o][o]
  <2> DEFINE topology == [n \in Router |-> UpPeers(n, up)]
             S == {n \in Router : db[n][o].seq = db[r][o].seq}
  <2>1. S \in SUBSET Router /\ r \in S
    OBVIOUS
  <2>2. \A n \in S : topology[n] \subseteq S
    <3> SUFFICES ASSUME NEW n \in S, NEW p \in UpPeers(n, up)
                 PROVE  p \in S
      OBVIOUS
    <3>1. <<n, p>> \in up /\ p \in Router
      BY DEF UpPeers
    <3>2. db[<<n, p>>[1]][o].seq = db[<<n, p>>[2]][o].seq
      <4> DEFINE e == <<n, p>>
      <4>1. e \in up
        BY <3>1
      <4> HIDE DEF e
      <4>2. db[e[1]][o].seq = db[e[2]][o].seq
        BY <1>1, <4>1, PeersAgree
      <4> QED BY <4>2 DEF e
    <3> QED BY <3>1, <3>2
  <2>3. o \in S
    <3> HIDE DEF S, topology
    <3>1. o \in Reached(r, topology)
      BY <1>1 DEF topology
    <3> QED BY <2>1, <2>2, <3>1 DEF Reached
  <2>4. db[r][o].seq = db[o][o].seq
    BY <2>3
  <2>5. db[r][o].links = db[o][o].links
    BY <1>1, <2>4 DEF Flooding, RecordsAreMade
  <2>6. db[r][o] \in Record /\ db[o][o] \in Record
    BY <1>1 DEF TypeOK
  <2> QED BY <2>4, <2>5, <2>6 DEF Record
<1>2. TypeOK /\ (NoMapsMade => Flooding) => (NoMapsMade => AgreeWhenQuiet)
  BY <1>1 DEF AgreeWhenQuiet
<1> QED BY FloodingHolds, <1>2, PTL
=============================================================================
